------------------------- MODULE ResearchRun_proofs -------------------------
(***************************************************************************)
(* Proofs about ResearchRun, for any number of workers and clients and any *)
(* funnel.  That no live run is orphaned is not inductive alone: a job     *)
(* that finds a queued run at its end leaves it, and relies on whoever     *)
(* queued it.  The strengthening names who that is.  RunLifecycle is       *)
(* implemented only when nobody else writes the row between a job's read   *)
(* and its write: the section after those.  The last one is about the     *)
(* rows of a run: Funnel, for any contents, selections and attempts.       *)
(***************************************************************************)
EXTENDS ResearchRun, Funnel, SumTheorems, TLAPS

(* Requests that will put a job into the queue.                            *)
Resuming == {u \in Users : user[u].pc # "idle" /\ user[u].op = "resume"}

(* The bound on jobs counts those still on their way.                      *)
QueueBounded ==
    /\ jobs + Cardinality(Resuming) <= MaxJobs
    /\ \A u \in Users : user[u].pc = "enqueue" => user[u].op = "resume"

(* A job with work x does not leave a queued run as it is.                 *)
Serves(x) ==
    x.pc \in {"load", "failing", "writing"} \/ (x.pc = "claim" /\ x.seen = "queued")

(* Somebody will move a queued run on.                                     *)
QueuedServed ==
    row = "queued" =>
        \/ jobs > 0
        \/ \E w \in Workers : Serves(work[w])
        \/ \E u \in Users : user[u].pc = "enqueue"

(* A job only writes statuses that end its part; it decides to begin a     *)
(* stage on a live run.                                                    *)
WorkOK(x) ==
    /\ x.pc = "writing" => x.seen \in {"paused", "failed", "succeeded"}
    /\ x.late <= 1
    /\ x.pc = "start" => x.late = 0

IInv ==
    /\ TypeOK /\ QueueBounded /\ QueuedServed /\ NoOrphan
    /\ \A w \in Workers : WorkOK(work[w])

-----------------------------------------------------------------------------
LEMMA IdleWork == Idle \in Work /\ WorkOK(Idle) /\ Idle.pc = "idle"
  BY RunAssumption DEF Idle, Work, WorkOK, WorkerPC, RunStages, Status, Live

LEMMA InitIInv == Init => IInv
<1> SUFFICES ASSUME Init PROVE IInv
  OBVIOUS
<1>1. PICK creator \in Users :
        user = [u \in Users |->
                  IF u = creator THEN [pc |-> "enqueue", op |-> "resume"] ELSE NoRequest]
  BY DEF Init
<1>2. row = "queued" /\ jobs = 0 /\ done = {} /\ work = [w \in Workers |-> Idle]
  BY DEF Init
<1>3. TypeOK
  BY <1>1, <1>2, RunAssumption, IdleWork DEF TypeOK, Request, NoRequest, Status, Live
<1>4. QueueBounded
  <2>1. Resuming = {creator}
    BY <1>1 DEF Resuming, NoRequest
  <2>2. Cardinality(Resuming) = 1
    BY <2>1, FS_Singleton
  <2> QED BY <1>1, <1>2, <2>2, RunAssumption DEF QueueBounded, NoRequest
<1>5. QueuedServed /\ NoOrphan
  BY <1>1 DEF QueuedServed, NoOrphan
<1>6. \A w \in Workers : WorkOK(work[w])
  BY <1>2, IdleWork
<1> QED BY <1>3, <1>4, <1>5, <1>6 DEF IInv

(* One worker goes on with work y, the queue and the clients stay.         *)
LEMMA WorkerKeepsIInv ==
  ASSUME IInv, jobs' = jobs, user' = user, row' \in Status, done' \subseteq RunStages,
         NEW w \in Workers, NEW y \in Work, Goto(w, y), WorkOK(y),
         row' = "queued" => row = "queued" /\ (Serves(work[w]) => Serves(y)),
         y.pc = "idle" => row' # "running"
  PROVE  IInv'
<1>1. /\ work' \in [Workers -> Work] /\ work'[w] = y
      /\ \A v \in Workers \ {w} : work'[v] = work[v]
  BY DEF IInv, TypeOK, Goto
<1>2. TypeOK'
  BY <1>1 DEF IInv, TypeOK
<1>3. QueueBounded'
  BY DEF IInv, QueueBounded, Resuming
<1>4. QueuedServed'
  BY <1>1 DEF IInv, QueuedServed
<1>5. NoOrphan'
  <2>1. CASE row' = "queued"
    BY <1>4, <2>1 DEF QueuedServed, NoOrphan, Serves
  <2>2. CASE row' = "running"
    BY <1>1, <2>2 DEF NoOrphan
  <2> QED BY <2>1, <2>2 DEF NoOrphan, Live
<1>6. \A v \in Workers : WorkOK(work[v])'
  BY <1>1 DEF IInv, WorkOK
<1> QED BY <1>2, <1>3, <1>4, <1>5, <1>6 DEF IInv

(* A worker takes a job out of the queue, and now holds it.                *)
LEMMA TakeKeepsIInv ==
  ASSUME IInv, NEW w \in Workers, Take(w)
  PROVE  IInv'
<1> DEFINE y == [Idle EXCEPT !.pc = "load"]
<1>1. y \in Work /\ WorkOK(y) /\ y.pc = "load"
  BY IdleWork DEF Work, WorkOK, WorkerPC, Idle
<1>2. /\ work' \in [Workers -> Work] /\ work'[w] = y
      /\ \A v \in Workers \ {w} : work'[v] = work[v]
  BY <1>1 DEF IInv, TypeOK, Take, Goto
<1>3. TypeOK'
  BY <1>2, RunAssumption DEF IInv, TypeOK, Take
<1>4. QueueBounded'
  <2>1. Resuming' = Resuming
    BY DEF Resuming, Take
  <2>2. Cardinality(Resuming) \in Nat
    BY RunAssumption, FS_Subset, FS_CardinalityType DEF Resuming
  <2> QED BY <2>1, <2>2, RunAssumption DEF IInv, TypeOK, QueueBounded, Take
<1>5. QueuedServed' /\ NoOrphan'
  BY <1>1, <1>2 DEF QueuedServed, NoOrphan, Serves
<1>6. \A v \in Workers : WorkOK(work[v])'
  BY <1>1, <1>2 DEF IInv, WorkOK
<1> QED BY <1>3, <1>4, <1>5, <1>6 DEF IInv

(* y is what w goes on with, and keeps the invariant.                      *)
Continues(w, y) ==
    /\ y \in Work /\ WorkOK(y) /\ Goto(w, y)
    /\ row' = "queued" => row = "queued" /\ (Serves(work[w]) => Serves(y))
    /\ y.pc = "idle" => row' # "running"

(* What a call that returns leaves behind.                                 *)
LEMMA CallOverWork ==
  ASSUME IInv, NEW w \in Workers
  PROVE  LET y == CallOver(w) IN
         /\ y \in Work /\ WorkOK(y) /\ y.pc \in {"idle", "failing"}
         /\ work[w].fails # 0 => y.pc = "failing"
<1>1. work[w] \in Work /\ WorkOK(work[w])
  BY DEF IInv, TypeOK
<1>2. CASE work[w].fails = 0
  BY <1>2, IdleWork DEF CallOver
<1>3. CASE work[w].fails # 0
  <2>1. /\ CallOver(w) = [work[w] EXCEPT !.pc = "failing", !.seen = "queued", !.fails = @ - 1]
        /\ work[w].fails - 1 \in 0..2
    BY <1>1, <1>3 DEF CallOver, Work
  <2> QED BY <1>1, <2>1 DEF Work, WorkOK, WorkerPC, Status, Live
<1> QED BY <1>2, <1>3

(* What a step of a stage may set the fields of its work to.               *)
LEMMA ClaimedWork ==
  ASSUME NEW x \in Work, NEW h \in BOOLEAN, NEW l \in 0..1,
         NEW y, y = [x EXCEPT !.pc = "work", !.seen = "queued", !.had = h, !.late = l]
  PROVE  y \in Work /\ WorkOK(y) /\ y.pc = "work"
<1>0. "work" \in WorkerPC /\ l \in Nat /\ "queued" \in Status
  BY DEF WorkerPC, Status, Live
<1>1. y \in Work
  BY <1>0 DEF Work
<1>2. y.pc = "work" /\ y.late = l
  BY DEF Work
<1> QED BY <1>1, <1>2 DEF WorkOK

LEMMA StartedWork ==
  ASSUME NEW x \in Work, NEW h \in BOOLEAN, NEW l \in 0..1,
         NEW y, y = [x EXCEPT !.pc = "work", !.had = h, !.late = l]
  PROVE  y \in Work /\ WorkOK(y) /\ y.pc = "work"
<1>0. "work" \in WorkerPC /\ l \in Nat
  BY DEF WorkerPC
<1>1. y \in Work
  BY <1>0 DEF Work
<1>2. y.pc = "work" /\ y.late = l
  BY DEF Work
<1> QED BY <1>1, <1>2 DEF WorkOK

LEMMA NextStageWork ==
  ASSUME NEW x \in Work, NEW i \in RunStages,
         NEW y, y = [x EXCEPT !.pc = "start", !.stage = i, !.late = 0]
  PROVE  y \in Work /\ WorkOK(y) /\ y.pc = "start"
<1>1. y \in Work
  BY DEF Work, WorkerPC
<1>2. y.pc = "start" /\ y.late = 0
  BY DEF Work
<1> QED BY <1>1, <1>2 DEF WorkOK

(* The steps of a stage.                                                   *)
LEMMA StageContinues ==
  ASSUME IInv, NEW w \in Workers,
         \/ Claim(w) \/ Check(w) \/ StartStage(w) \/ Complete(w)
         \/ BudgetPause(w) \/ BudgetKill(w) \/ StageFails(w)
  PROVE  \E y : Continues(w, y)
<1>1. work[w] \in Work /\ WorkOK(work[w]) /\ row \in Status
  BY DEF IInv, TypeOK
<1>2. CASE Claim(w)
  <2>1. PICK h \in BOOLEAN, l \in 0..1 :
            Goto(w, [work[w] EXCEPT !.pc = "work", !.seen = "queued", !.had = h,
                                    !.late = l])
    <3>1. (1 \in done) \in BOOLEAN /\ (IF row' \in Live THEN 0 ELSE 1) \in 0..1
      OBVIOUS
    <3> QED BY <1>2, <3>1, Zenon DEF Claim
  <2>2. row' = "queued" => row = "queued" /\ ~Serves(work[w])
    BY <1>2 DEF Claim, Serves
  <2> DEFINE y == [work[w] EXCEPT !.pc = "work", !.seen = "queued", !.had = h, !.late = l]
  <2>3. y \in Work /\ WorkOK(y) /\ y.pc = "work"
    BY <1>1, ClaimedWork
  <2> QED BY <2>1, <2>2, <2>3 DEF Continues
<1>3. CASE Check(w)
  <2>1. CASE Halted
    BY <1>3, <2>1, IdleWork DEF Check, Halted, Live, Continues
  <2>2. CASE ~Halted /\ work[w].stage = LastStage
    <3> DEFINE y == [work[w] EXCEPT !.pc = "finishing"]
    <3>1. y \in Work /\ WorkOK(y) /\ y.pc = "finishing"
      BY <1>1 DEF Work, WorkOK, WorkerPC
    <3> QED BY <1>3, <2>2, <3>1 DEF Check, Continues, Serves
  <2>3. CASE ~Halted /\ work[w].stage # LastStage
    <3>1. PICK i \in RunStages :
              Goto(w, [work[w] EXCEPT !.pc = "start", !.stage = i, !.late = 0])
      <4>1. work[w].stage + 1 \in RunStages
        BY <1>1, <2>3, RunAssumption DEF Work, RunStages, LastStage
      <4> QED BY <1>3, <2>3, <4>1 DEF Check, Halted
    <3>2. ~Serves(work[w]) /\ row' = row
      BY <1>3 DEF Check, Serves
    <3> QED BY <1>1, <3>1, <3>2, NextStageWork DEF Continues
  <2> QED BY <2>1, <2>2, <2>3
<1>4. CASE StartStage(w)
  <2>1. PICK h \in BOOLEAN, l \in 0..1 :
            Goto(w, [work[w] EXCEPT !.pc = "work", !.had = h, !.late = l])
    <3> DEFINE n == IF row \in Live THEN work[w].late ELSE work[w].late + 1
    <3>1. work[w].late = 0
      BY <1>1, <1>4 DEF StartStage, WorkOK
    <3>2. n \in 0..1
      BY <3>1
    <3>3. (work[w].stage \in done) \in BOOLEAN
      OBVIOUS
    <3> QED BY <1>4, <3>2, <3>3, Zenon DEF StartStage
  <2> DEFINE y == [work[w] EXCEPT !.pc = "work", !.had = h, !.late = l]
  <2>2. y \in Work /\ WorkOK(y) /\ y.pc = "work"
    BY <1>1, StartedWork
  <2>3. ~Serves(work[w]) /\ row' = row
    BY <1>4 DEF StartStage, Serves
  <2> QED BY <2>1, <2>2, <2>3 DEF Continues
<1>5. CASE Complete(w)
  <2> DEFINE y == [work[w] EXCEPT !.pc = "check", !.had = FALSE]
  <2>1. y \in Work /\ y.pc = "check" /\ y.late = work[w].late
    BY <1>1 DEF Work, WorkerPC
  <2>2. WorkOK(y)
    BY <1>1, <2>1 DEF WorkOK
  <2> QED BY <1>5, <2>1, <2>2 DEF Complete, Continues, Serves
<1>6. ASSUME NEW pc \in {"pausing", "failing"}, NEW n \in 0..2, work[w].pc = "work",
             Goto(w, [work[w] EXCEPT !.pc = pc, !.fails = n]), row' = row
      PROVE  \E y : Continues(w, y)
  <2> DEFINE y == [work[w] EXCEPT !.pc = pc, !.fails = n]
  <2>1. y \in Work /\ WorkOK(y) /\ y.pc = pc
    BY <1>1 DEF Work, WorkOK, WorkerPC
  <2> QED BY <1>6, <2>1 DEF Continues, Serves
<1>7. CASE BudgetPause(w) \/ BudgetKill(w)
  <2>1. FailsAfterHalt(w) \in 0..2
    BY DEF FailsAfterHalt
  <2> QED BY <1>6, <1>7, <2>1 DEF BudgetPause, BudgetKill
<1>8. CASE StageFails(w)
  <2>1. PICK n \in {0, 1} : Goto(w, [work[w] EXCEPT !.pc = "failing", !.fails = n])
    BY <1>8 DEF StageFails
  <2>2. n \in 0..2
    OBVIOUS
  <2> QED BY <1>6, <1>8, <2>1, <2>2 DEF StageFails
<1> QED BY <1>2, <1>3, <1>4, <1>5, <1>7, <1>8

(* The calls of the orchestrator, and the end of a job.                    *)
LEMMA CallContinues ==
  ASSUME IInv, NEW w \in Workers,
         \/ Load(w) \/ LoadFails(w) \/ PauseRead(w) \/ FailRead(w)
         \/ FinishRead(w) \/ Write(w) \/ JobDies(w)
  PROVE  \E y : Continues(w, y)
<1>1. work[w] \in Work /\ WorkOK(work[w]) /\ row \in Status
  BY DEF IInv, TypeOK
<1>2. CASE Load(w)
  <2>1. CASE row \notin Startable
    BY <1>2, <2>1, IdleWork DEF Load, Startable, Live, Continues
  <2>2. CASE row \in Startable
    <3> DEFINE y == [work[w] EXCEPT !.pc = "claim", !.seen = row]
    <3>1. y \in Work /\ WorkOK(y) /\ y.pc = "claim" /\ y.seen = row
      BY <1>1 DEF Work, WorkOK, WorkerPC
    <3> QED BY <1>2, <2>2, <3>1 DEF Load, Continues, Serves
  <2> QED BY <2>1, <2>2
<1>3. ASSUME NEW n \in 0..2, Goto(w, [work[w] EXCEPT !.pc = "failing", !.fails = n]),
             row' = row
      PROVE  \E y : Continues(w, y)
  <2> DEFINE y == [work[w] EXCEPT !.pc = "failing", !.fails = n]
  <2>1. y \in Work /\ WorkOK(y) /\ y.pc = "failing"
    BY <1>1 DEF Work, WorkOK, WorkerPC
  <2> QED BY <1>3, <2>1 DEF Continues, Serves
<1>4. CASE LoadFails(w)
  <2>1. \E n \in {0, 1} : Goto(w, [work[w] EXCEPT !.pc = "failing", !.fails = n])
    BY <1>4 DEF LoadFails
  <2>2. PICK n \in {0, 1} : Goto(w, [work[w] EXCEPT !.pc = "failing", !.fails = n])
    BY <2>1
  <2>3. n \in 0..2
    OBVIOUS
  <2> QED BY <1>3, <1>4, <2>2, <2>3 DEF LoadFails
<1>5. ASSUME NEW s \in {"paused", "failed", "succeeded"}, Goto(w, Writing(w, s)), row' = row
      PROVE  \E y : Continues(w, y)
  <2>1. LET y == Writing(w, s) IN y \in Work /\ WorkOK(y) /\ y.pc = "writing"
    BY <1>1 DEF Writing, Work, WorkOK, WorkerPC, Status, Live, Terminal
  <2> QED BY <1>5, <2>1 DEF Continues, Serves
<1>6. CASE PauseRead(w)
  <2>1. CASE row = "running" /\ Goto(w, Writing(w, "paused"))
    BY <1>5, <1>6, <2>1 DEF PauseRead
  <2>2. CASE row = "paused" /\ Goto(w, CallOver(w))
    BY <1>6, <2>2, CallOverWork DEF PauseRead, Continues
  <2>3. ASSUME NEW pc \in {"check", "failing"}, Goto(w, [work[w] EXCEPT !.pc = pc])
        PROVE  \E y : Continues(w, y)
    <3> DEFINE y == [work[w] EXCEPT !.pc = pc]
    <3>1. y \in Work /\ WorkOK(y) /\ y.pc = pc
      BY <1>1, <1>6 DEF PauseRead, Work, WorkOK, WorkerPC
    <3> QED BY <1>6, <2>3, <3>1 DEF PauseRead, Continues, Serves
  <2>4. CASE Goto(w, [work[w] EXCEPT !.pc = "failing", !.fails = 1])
    BY <1>3, <1>6, <2>4 DEF PauseRead
  <2> QED BY <1>6, <2>1, <2>2, <2>3, <2>4 DEF PauseRead
<1>7. CASE FailRead(w)
  <2>1. CASE row \in Failable
    BY <1>5, <1>7, <2>1 DEF FailRead
  <2>2. CASE row \notin Failable
    BY <1>7, <2>2, CallOverWork DEF FailRead, Failable, Live, Continues
  <2> QED BY <2>1, <2>2
<1>8. CASE FinishRead(w)
  <2>1. CASE row = "running"
    BY <1>5, <1>8, <2>1 DEF FinishRead
  <2>2. CASE row # "running"
    BY <1>8, <2>2, IdleWork DEF FinishRead, Continues, Serves
  <2> QED BY <2>1, <2>2
<1>9. CASE Write(w)
  BY <1>1, <1>9, CallOverWork DEF Write, WorkOK, Continues
<1>10. CASE JobDies(w)
  BY <1>3, <1>10 DEF JobDies, OnFailure
<1> QED BY <1>2, <1>4, <1>6, <1>7, <1>8, <1>9, <1>10

LEMMA JobKeepsIInv ==
  ASSUME IInv, NEW w \in Workers, JobStep(w) \/ JobDies(w)
  PROVE  IInv'
<1>1. CASE Take(w)
  BY <1>1, TakeKeepsIInv
<1>2. CASE ~Take(w)
  <2>1. PICK y : Continues(w, y)
    BY <1>2, StageContinues, CallContinues DEF JobStep
  <2>2. jobs' = jobs /\ user' = user
    BY <1>2 DEF JobStep, JobDies, Load, LoadFails, Claim, Check, StartStage, Complete,
                BudgetPause, BudgetKill, StageFails, PauseRead, FailRead, FinishRead, Write
  <2>3. row' \in Status
    BY <1>2 DEF IInv, TypeOK, WorkOK, Status, Live, Terminal, JobStep, JobDies, Load,
                LoadFails, Claim, Check, StartStage, Complete, BudgetPause, BudgetKill,
                StageFails, PauseRead, FailRead, FinishRead, Write
  <2>4. done' \subseteq RunStages
    <3>1. CASE Complete(w)
      <4>1. work[w].stage \in RunStages /\ done \subseteq RunStages
        BY DEF IInv, TypeOK, Work
      <4> QED BY <3>1, <4>1 DEF Complete
    <3>2. CASE ~Complete(w)
      BY <1>2, <3>2 DEF IInv, TypeOK, JobStep, JobDies, Load, LoadFails, Claim, Check,
                StartStage, BudgetPause, BudgetKill, StageFails, PauseRead, FailRead,
                FinishRead, Write
    <3> QED BY <3>1, <3>2
  <2> QED BY <2>1, <2>2, <2>3, <2>4, WorkerKeepsIInv DEF Continues
<1> QED BY <1>1, <1>2

-----------------------------------------------------------------------------
(* A client's request.                                                     *)
LEMMA UserKeepsIInv ==
  ASSUME IInv, NEW u \in Users,
         UserStep(u) \/ \E op \in Operations : Ask(u, op)
  PROVE  IInv'
<1>0. /\ user \in [Users -> Request] /\ jobs \in 0..MaxJobs /\ row \in Status
      /\ IsFiniteSet(Users) /\ MaxJobs \in Nat
  BY RunAssumption DEF IInv, TypeOK
<1>1. IsFiniteSet(Resuming) /\ Cardinality(Resuming) \in Nat
  BY <1>0, FS_Subset, FS_CardinalityType DEF Resuming
<1>2. work' = work /\ done' = done
  BY DEF UserStep, UserRead, UserWrite, Enqueue, Ask
<1>3. (\A w \in Workers : WorkOK(work[w]))'
  BY <1>2 DEF IInv, WorkOK
<1>4. \A v \in Users \ {u} : user'[v] = user[v]
  BY <1>0 DEF UserStep, UserRead, UserWrite, Enqueue, Ask
<1>5. ASSUME NEW op \in Operations, Ask(u, op) PROVE IInv'
  <2> DEFINE x == [pc |-> "read", op |-> op]
  <2>1. x \in Request /\ user' = [user EXCEPT ![u] = x] /\ row' = row /\ jobs' = jobs
    BY <1>5, RunAssumption DEF Ask, Request
  <2>2. TypeOK'
    BY <1>0, <1>2, <2>1 DEF IInv, TypeOK
  <2>3. u \notin Resuming
    BY <1>5 DEF Ask, Resuming, InFlight
  <2>4. QueueBounded'
    <3>1. CASE op = "cancel"
      <4>1. Resuming' = Resuming
        BY <1>0, <1>4, <2>1, <2>3, <3>1 DEF Resuming
      <4> QED BY <1>0, <1>4, <2>1, <4>1 DEF IInv, QueueBounded
    <3>2. CASE op = "resume"
      <4>1. Resuming' = Resuming \cup {u}
        BY <1>0, <1>4, <2>1, <3>2 DEF Resuming
      <4>2. Cardinality(Resuming') = Cardinality(Resuming) + 1
        BY <1>1, <2>3, <4>1, FS_AddElement
      <4>3. /\ Cardinality(Resuming) <= Cardinality(InFlight)
            /\ Cardinality(InFlight) \in Nat
        BY <1>0, FS_Subset, FS_CardinalityType DEF InFlight, Resuming
      <4>4. jobs + Cardinality(InFlight) < MaxJobs
        BY <1>5, <3>2 DEF Ask
      <4>5. jobs' + Cardinality(Resuming') <= MaxJobs
        BY <1>0, <1>1, <2>1, <4>2, <4>3, <4>4
      <4> QED BY <1>0, <1>4, <2>1, <4>5 DEF IInv, QueueBounded
    <3> QED BY <1>5, <3>1, <3>2, RunAssumption
  <2>5. user[u].pc = "idle"
    BY <1>5 DEF Ask, InFlight
  <2>6. QueuedServed' /\ NoOrphan'
    BY <1>2, <1>4, <2>1, <2>5 DEF IInv, QueuedServed, NoOrphan
  <2> QED BY <1>3, <2>2, <2>4, <2>6 DEF IInv
<1>6. CASE Enqueue(u)
  <2>1. user[u].op = "resume" /\ user[u].pc = "enqueue"
    BY <1>6 DEF IInv, QueueBounded, Enqueue
  <2>2. Resuming' = Resuming \ {u} /\ u \in Resuming
    BY <1>0, <1>4, <1>6, <2>1 DEF Enqueue, NoRequest, Resuming
  <2>3. Cardinality(Resuming') = Cardinality(Resuming) - 1
    BY <1>1, <2>2, FS_RemoveElement
  <2>4. jobs' = jobs + 1 /\ jobs' + Cardinality(Resuming') <= MaxJobs
    BY <1>0, <1>1, <1>6, <2>3 DEF IInv, QueueBounded, Enqueue
  <2>5. Cardinality(Resuming') \in Nat
    BY <1>1, <2>2, FS_RemoveElement, FS_CardinalityType
  <2>6. jobs' \in 0..MaxJobs /\ jobs' > 0
    BY <1>0, <2>4, <2>5
  <2>7. NoRequest \in Request
    BY DEF NoRequest, Request
  <2>8. TypeOK'
    BY <1>2, <1>6, <2>6, <2>7 DEF IInv, TypeOK, Enqueue
  <2>9. QueueBounded'
    BY <1>0, <1>4, <1>6, <2>4 DEF IInv, QueueBounded, Enqueue, NoRequest
  <2> QED BY <1>3, <2>6, <2>8, <2>9 DEF IInv, QueuedServed, NoOrphan
<1>7. ASSUME NEW next \in {"idle", "write", "enqueue"},
             user' = [user EXCEPT ![u].pc = next], jobs' = jobs,
             user[u].pc \in {"read", "write"}, row' \in Status,
             next = "enqueue" => user[u].op = "resume",
             row' = "queued" => row = "queued" \/ next = "enqueue",
             row' = "running" => row = "running"
      PROVE  IInv'
  <2>1. TypeOK'
    BY <1>0, <1>2, <1>7 DEF IInv, TypeOK, Request
  <2>2. QueueBounded'
    <3>1. Resuming' \subseteq Resuming
      BY <1>0, <1>4, <1>7 DEF Resuming
    <3>2. Cardinality(Resuming') <= Cardinality(Resuming) /\ Cardinality(Resuming') \in Nat
      BY <1>1, <3>1, FS_Subset, FS_CardinalityType
    <3> QED BY <1>0, <1>1, <1>4, <1>7, <3>2 DEF IInv, QueueBounded
  <2>3. user'[u].pc = next
    BY <1>0, <1>7
  <2>4. \A v \in Users : user[v].pc = "enqueue" => user'[v].pc = "enqueue"
    BY <1>4, <1>7
  <2>5. QueuedServed'
    BY <1>2, <1>7, <2>3, <2>4 DEF IInv, QueuedServed
  <2>6. NoOrphan'
    BY <1>2, <1>7, <2>3, <2>4 DEF IInv, NoOrphan, Live
  <2> QED BY <1>3, <2>1, <2>2, <2>5, <2>6 DEF IInv
<1>8. CASE UserRead(u)
  <2>1. AfterRead(user[u].op) \in {"idle", "write", "enqueue"}
    BY DEF AfterRead
  <2>2. AfterRead(user[u].op) = "enqueue" => user[u].op = "resume"
    BY <1>0 DEF AfterRead, Request
  <2> QED BY <1>0, <1>7, <1>8, <2>1, <2>2 DEF UserRead
<1>9. CASE UserWrite(u)
  <2>1. CASE user[u].op = "cancel"
    BY <1>0, <1>7, <1>9, <2>1 DEF UserWrite, Status, Terminal
  <2>2. CASE user[u].op = "resume"
    BY <1>0, <1>7, <1>9, <2>2 DEF UserWrite, Status, Live
  <2> QED BY <1>0, <2>1, <2>2 DEF Request
<1> QED BY <1>5, <1>6, <1>8, <1>9 DEF UserStep

-----------------------------------------------------------------------------
LEMMA NextKeepsIInv == IInv /\ [Next]_vars => IInv'
<1> SUFFICES ASSUME IInv, [Next]_vars PROVE IInv'
  OBVIOUS
<1>1. CASE UNCHANGED vars
  BY <1>1 DEF vars, IInv, TypeOK, QueueBounded, Resuming, QueuedServed, NoOrphan,
              Serves, WorkOK
<1> QED BY <1>1, JobKeepsIInv, UserKeepsIInv DEF Next

(* The inductive invariant holds of every behaviour.                       *)
THEOREM Invariance == Spec => []IInv
  BY InitIInv, NextKeepsIInv, PTL DEF Spec

(* However the cancels, resumes, pauses, failures and deaths of any number *)
(* of jobs interleave, the records are well formed and a run shown as      *)
(* queued or running has a job in the queue, in a worker or on its way.    *)
THEOREM NoRunStranded == Spec => []RunInv
<1>1. IInv => RunInv
  BY DEF IInv, RunInv
<1> QED BY <1>1, Invariance, PTL

(* A job begins at most one stage after the run was halted, whatever the   *)
(* funnel's stages are.                                                    *)
THEOREM HaltIsBounded == Spec => []HaltBounded
<1>1. IInv => HaltBounded
  BY DEF IInv, WorkOK, HaltBounded
<1> QED BY <1>1, Invariance, PTL

-----------------------------------------------------------------------------
(* One worker, and one client at a time that does not cancel.              *)
Alone ==
    /\ \A v, w \in Workers : v = w
    /\ \A t, u \in Users : t = u
    /\ "cancel" \notin Operations

(* What a job has read and is about to write, and what a request has, is   *)
(* still true of status s.                                                 *)
WorkAgrees(x, s) ==
    /\ x.pc = "claim" /\ x.seen = "queued" => s = "queued"
    /\ x.pc = "writing" => s = "running" \/ (x.seen = "failed" /\ s = "queued")
RequestAgrees(r, s) == r.op = "resume" /\ (r.pc = "write" => s = "paused")

AgreeInv ==
    /\ \A w \in Workers : WorkAgrees(work[w], row)
    /\ \A u \in Users : RequestAgrees(user[u], row)

LEMMA AgreeInit == Init => AgreeInv
  BY DEF Init, AgreeInv, WorkAgrees, RequestAgrees, Idle, NoRequest

(* A call that returns leaves nothing to write.                            *)
LEMMA CallOverAgrees ==
  ASSUME NEW w \in Workers, work[w] \in Work, NEW s
  PROVE  WorkAgrees(CallOver(w), s)
<1>1. CallOver(w) = Idle \/ CallOver(w).pc = "failing"
  BY DEF CallOver, Work
<1> QED BY <1>1 DEF WorkAgrees, Idle

(* A job's step keeps what it has read true, or forgets it.                *)
LEMMA JobAgrees ==
  ASSUME IInv, AgreeInv, NEW w \in Workers, JobStep(w) \/ JobDies(w)
  PROVE  /\ WorkAgrees(work'[w], row')
         /\ user' = user
         /\ row' = row \/ (row # "paused" /\ L!Transition)
<1>1. /\ work[w] \in Work /\ WorkOK(work[w]) /\ WorkAgrees(work[w], row)
      /\ work \in [Workers -> Work] /\ row \in Status
  BY DEF IInv, TypeOK, AgreeInv
<1>2. user' = user
  BY DEF JobStep, JobDies, Take, Load, LoadFails, Claim, Check, StartStage, Complete,
         BudgetPause, BudgetKill, StageFails, PauseRead, FailRead, FinishRead, Write
<1>3. CASE Take(w) \/ Load(w) \/ LoadFails(w)
  <2>1. CASE Take(w)
    BY <1>1, <1>2, <2>1 DEF Take, Goto, WorkAgrees, Idle
  <2>2. CASE Load(w)
    <3>1. CASE row \in Startable
      BY <1>1, <1>2, <2>2, <3>1 DEF Load, Goto, WorkAgrees, Work
    <3>2. CASE row \notin Startable
      BY <1>1, <1>2, <2>2, <3>2 DEF Load, Goto, WorkAgrees, Idle
    <3> QED BY <3>1, <3>2
  <2>3. CASE LoadFails(w)
    BY <1>1, <1>2, <2>3 DEF LoadFails, Goto, WorkAgrees, Work
  <2> QED BY <1>3, <2>1, <2>2, <2>3
<1>4. CASE Claim(w)
  <2>1. WorkAgrees(work'[w], row')
    BY <1>1, <1>4 DEF Claim, Goto, WorkAgrees, Work
  <2>2. row' = row \/ (row = "queued" /\ row' = "running")
    BY <1>1, <1>4 DEF Claim, WorkAgrees
  <2> QED BY <1>2, <2>1, <2>2 DEF L!Transition, L!Move
<1>5. CASE Check(w) \/ StartStage(w) \/ Complete(w)
  <2>1. CASE Check(w)
    <3>1. CASE Halted
      BY <1>1, <1>2, <2>1, <3>1 DEF Check, Goto, WorkAgrees, Idle
    <3>2. CASE ~Halted /\ work[w].stage = LastStage
      BY <1>1, <1>2, <2>1, <3>2 DEF Check, Goto, WorkAgrees, Work
    <3>3. CASE ~Halted /\ work[w].stage # LastStage
      <4>1. PICK i, l : Goto(w, [work[w] EXCEPT !.pc = "start", !.stage = i, !.late = l])
        BY <2>1, <3>3, Zenon DEF Check
      <4>2. work'[w].pc = "start"
        BY <1>1, <4>1 DEF Goto, Work
      <4> QED BY <1>2, <2>1, <4>2 DEF Check, WorkAgrees
    <3> QED BY <3>1, <3>2, <3>3
  <2>2. CASE StartStage(w)
    <3>1. PICK h, l : Goto(w, [work[w] EXCEPT !.pc = "work", !.had = h, !.late = l])
      BY <2>2, Zenon DEF StartStage
    <3>2. work'[w].pc = "work"
      BY <1>1, <3>1 DEF Goto, Work
    <3> QED BY <1>2, <2>2, <3>2 DEF StartStage, WorkAgrees
  <2>3. CASE Complete(w)
    BY <1>1, <1>2, <2>3 DEF Complete, Goto, WorkAgrees, Work
  <2> QED BY <1>5, <2>1, <2>2, <2>3
<1>6. CASE BudgetPause(w) \/ BudgetKill(w) \/ StageFails(w)
  BY <1>1, <1>2, <1>6 DEF BudgetPause, BudgetKill, StageFails, Goto, WorkAgrees, Work
<1>7. CASE PauseRead(w)
  <2>1. CASE row = "running" /\ Goto(w, Writing(w, "paused"))
    BY <1>1, <1>2, <1>7, <2>1 DEF PauseRead, Goto, Writing, WorkAgrees, Work
  <2>2. CASE Goto(w, CallOver(w))
    BY <1>1, <1>2, <1>7, <2>2, CallOverAgrees DEF PauseRead, Goto
  <2>3. CASE \/ \E pc \in {"check", "failing"} : Goto(w, [work[w] EXCEPT !.pc = pc])
             \/ Goto(w, [work[w] EXCEPT !.pc = "failing", !.fails = 1])
    BY <1>1, <1>2, <1>7, <2>3 DEF PauseRead, Goto, WorkAgrees, Work
  <2> QED BY <1>7, <2>1, <2>2, <2>3 DEF PauseRead
<1>8. CASE FailRead(w)
  <2>1. CASE row \in Failable
    BY <1>1, <1>2, <1>8, <2>1 DEF FailRead, Failable, Live, Goto, Writing, WorkAgrees, Work
  <2>2. CASE row \notin Failable
    BY <1>1, <1>2, <1>8, <2>2, CallOverAgrees DEF FailRead, Goto
  <2> QED BY <2>1, <2>2
<1>9. CASE FinishRead(w)
  BY <1>1, <1>2, <1>9 DEF FinishRead, Goto, Writing, WorkAgrees, Idle, Work
<1>10. CASE Write(w)
  <2>1. WorkAgrees(work'[w], row')
    BY <1>1, <1>10, CallOverAgrees DEF Write, Goto
  <2>2. /\ row' \in {"paused", "failed", "succeeded"}
        /\ row = "running" \/ (row' = "failed" /\ row = "queued")
    BY <1>1, <1>10 DEF Write, WorkOK, WorkAgrees
  <2> QED BY <1>2, <2>1, <2>2 DEF L!Transition, L!Move, L!Live
<1>11. CASE JobDies(w)
  BY <1>1, <1>2, <1>11 DEF JobDies, OnFailure, Goto, WorkAgrees, Work
<1> QED BY <1>3, <1>4, <1>5, <1>6, <1>7, <1>8, <1>9, <1>10, <1>11 DEF JobStep

(* A client's step likewise; only a resume of a paused run writes.         *)
LEMMA UserAgrees ==
  ASSUME Alone, IInv, AgreeInv, NEW u \in Users,
         UserStep(u) \/ \E op \in Operations : Ask(u, op)
  PROVE  /\ RequestAgrees(user'[u], row')
         /\ work' = work
         /\ row' = row \/ (row = "paused" /\ L!Transition)
<1>1. /\ user \in [Users -> Request] /\ RequestAgrees(user[u], row)
      /\ user[u] \in Request
  BY DEF IInv, TypeOK, AgreeInv
<1>2. CASE \E op \in Operations : Ask(u, op)
  BY <1>1, <1>2, RunAssumption DEF Alone, Ask, RequestAgrees, Request
<1>3. CASE UserRead(u)
  BY <1>1, <1>3 DEF UserRead, AfterRead, RequestAgrees, Request
<1>4. CASE UserWrite(u)
  BY <1>1, <1>4 DEF UserWrite, RequestAgrees, Request, L!Transition, L!Move
<1>5. CASE Enqueue(u)
  BY <1>1, <1>5 DEF Enqueue, RequestAgrees, NoRequest
<1> QED BY <1>2, <1>3, <1>4, <1>5 DEF UserStep

LEMMA NextAgrees ==
  ASSUME Alone, IInv, AgreeInv, [Next]_vars
  PROVE  AgreeInv' /\ [L!Transition]_row
<1>1. CASE UNCHANGED vars
  BY <1>1 DEF vars, AgreeInv
<1>2. CASE \E w \in Workers : JobStep(w) \/ JobDies(w)
  <2>1. PICK w \in Workers : JobStep(w) \/ JobDies(w)
    BY <1>2
  <2>2. /\ WorkAgrees(work'[w], row') /\ user' = user
        /\ row' = row \/ (row # "paused" /\ L!Transition)
    BY <2>1, JobAgrees
  <2>3. \A v \in Workers : WorkAgrees(work'[v], row')
    BY <2>2 DEF Alone
  <2>4. \A u \in Users : RequestAgrees(user'[u], row')
    BY <2>2 DEF AgreeInv, RequestAgrees
  <2> QED BY <2>2, <2>3, <2>4 DEF AgreeInv
<1>3. CASE \E u \in Users : UserStep(u) \/ \E op \in Operations : Ask(u, op)
  <2>1. PICK u \in Users : UserStep(u) \/ \E op \in Operations : Ask(u, op)
    BY <1>3
  <2>2. /\ RequestAgrees(user'[u], row') /\ work' = work
        /\ row' = row \/ (row = "paused" /\ L!Transition)
    BY <2>1, UserAgrees
  <2>3. \A t \in Users : RequestAgrees(user'[t], row')
    BY <2>2 DEF Alone
  <2>4. \A w \in Workers : WorkAgrees(work'[w], row')
    BY <2>2 DEF AgreeInv, WorkAgrees
  <2> QED BY <2>2, <2>3, <2>4 DEF AgreeInv
<1> QED BY <1>1, <1>2, <1>3 DEF Next

(* With one worker and one client that does not cancel, whatever jobs die  *)
(* and however often a run is paused and resumed, no status is lost or     *)
(* overwritten: every step is one of RunLifecycle or a stutter.            *)
THEOREM LifecycleImplemented ==
  ASSUME Alone
  PROVE  Spec => ImplementsLifecycle
<1>1. IInv /\ AgreeInv /\ [Next]_vars => AgreeInv' /\ [L!Transition]_row
  BY NextAgrees
<1>2. Init => L!Created
  BY DEF Init, L!Created
<1> QED
  BY <1>1, <1>2, AgreeInit, Invariance, PTL DEF Spec, ImplementsLifecycle, L!Lifecycle

-----------------------------------------------------------------------------
(***************************************************************************)
(* Funnel: what is listed, selected and summed up of the rows of a run.    *)
(***************************************************************************)

(* Lists of integers of one length are totally ordered.                    *)
LEMMA PrecedesOrders ==
  ASSUME NEW K \in Nat, NEW a \in [1..K -> Int], NEW b \in [1..K -> Int],
         NEW c \in [1..K -> Int]
  PROVE  /\ ~Precedes(a, a)
         /\ Precedes(a, b) /\ Precedes(b, c) => Precedes(a, c)
         /\ a # b => Precedes(a, b) \/ Precedes(b, a)
<1>1. ~Precedes(a, a)
  BY DEF Precedes
<1>2. ASSUME Precedes(a, b), Precedes(b, c) PROVE Precedes(a, c)
  <2>1. PICK m \in 1..K : a[m] < b[m] /\ \A k \in 1..m - 1 : a[k] = b[k]
    BY <1>2 DEF Precedes
  <2>2. PICK n \in 1..K : b[n] < c[n] /\ \A k \in 1..n - 1 : b[k] = c[k]
    BY <1>2 DEF Precedes
  <2>3. CASE m < n
    <3>1. a[m] < c[m]
      BY <2>1, <2>2, <2>3
    <3>2. \A k \in 1..m - 1 : a[k] = c[k]
      BY <2>1, <2>2, <2>3
    <3> QED BY <3>1, <3>2 DEF Precedes
  <2>4. CASE n < m
    <3>1. a[n] < c[n]
      BY <2>1, <2>2, <2>4
    <3>2. \A k \in 1..n - 1 : a[k] = c[k]
      BY <2>1, <2>2, <2>4
    <3> QED BY <3>1, <3>2 DEF Precedes
  <2>5. CASE m = n
    <3>1. a[m] < c[m]
      BY <2>1, <2>2, <2>5
    <3>2. \A k \in 1..m - 1 : a[k] = c[k]
      BY <2>1, <2>2, <2>5
    <3> QED BY <3>1, <3>2 DEF Precedes
  <2> QED BY <2>3, <2>4, <2>5
<1>3. ASSUME a # b PROVE Precedes(a, b) \/ Precedes(b, a)
  <2> DEFINE D == {k \in 1..K : a[k] # b[k]}
  <2>1. D \subseteq Nat /\ D # {}
    <3>1. D \subseteq Nat
      OBVIOUS
    <3>2. \E k \in 1..K : a[k] # b[k]
      BY <1>3
    <3> QED BY <3>1, <3>2
  <2>2. PICK m \in D : \A n \in D : m <= n
    <3> HIDE DEF D
    <3> QED BY <2>1, LeastNatural
  <2>3. \A k \in 1..m - 1 : a[k] = b[k]
    BY <2>2
  <2>4. a[m] < b[m] \/ b[m] < a[m]
    BY <2>2
  <2>5. m \in DOMAIN a /\ m \in DOMAIN b
    BY <2>2
  <2> HIDE DEF D
  <2>6. ASSUME a[m] < b[m] PROVE Precedes(a, b)
    BY <2>3, <2>5, <2>6 DEF Precedes
  <2>7. ASSUME b[m] < a[m] PROVE Precedes(b, a)
    <3>1. \A k \in 1..m - 1 : b[k] = a[k]
      BY <2>3
    <3> QED BY <2>5, <2>7, <3>1 DEF Precedes
  <2> QED BY <2>4, <2>6, <2>7
<1> QED BY <1>1, <1>2, <1>3

(* Records whose keys are such lists, each key once.                       *)
Keyed(S, K) ==
    /\ IsFiniteSet(S) /\ K \in Nat
    /\ \A e \in S : e.key \in [1..K -> Int]
    /\ \A d, e \in S : d.key = e.key => d = e

(* Each of them has a place of its own, in the order of the keys.          *)
LEMMA PlacesDiffer ==
  ASSUME NEW S, NEW K, Keyed(S, K)
  PROVE  /\ Cardinality(S) \in Nat
         /\ \A e \in S : Place(e, S) \in 0..Cardinality(S) - 1
         /\ \A d, e \in S : d # e => /\ Place(d, S) # Place(e, S)
                                     /\ Place(d, S) < Place(e, S) => Precedes(d.key, e.key)
<1> DEFINE P(e) == {d \in S : Precedes(d.key, e.key)}
<1>1. Cardinality(S) \in Nat
  BY FS_CardinalityType DEF Keyed
<1>2. ASSUME NEW e \in S
      PROVE  /\ IsFiniteSet(P(e)) /\ Cardinality(P(e)) \in Nat
             /\ Place(e, S) = Cardinality(P(e)) /\ e \notin P(e)
  <2>1. P(e) \in SUBSET S
    OBVIOUS
  <2>2. IsFiniteSet(P(e))
    BY <2>1, FS_Subset DEF Keyed
  <2>3. Place(e, S) = Cardinality(P(e))
    BY DEF Place
  <2>4. e \notin P(e)
    BY PrecedesOrders DEF Keyed
  <2> QED BY <2>2, <2>3, <2>4, FS_CardinalityType
<1>3. ASSUME NEW e \in S PROVE Cardinality(P(e)) < Cardinality(S)
  <2>1. P(e) \in SUBSET S /\ P(e) # S
    BY <1>2
  <2> HIDE DEF P
  <2> QED BY <1>1, <1>2, <2>1, FS_Subset DEF Keyed
<1>4. ASSUME NEW d \in S, NEW e \in S, Precedes(d.key, e.key)
      PROVE  Cardinality(P(d)) < Cardinality(P(e))
  <2>1. P(d) \in SUBSET P(e)
    BY <1>4, PrecedesOrders DEF Keyed
  <2>2. d \in P(e)
    BY <1>4
  <2>3. P(d) # P(e)
    BY <1>2, <2>2
  <2> HIDE DEF P
  <2> QED BY <1>2, <2>1, <2>3, FS_Subset
<1>5. ASSUME NEW d \in S, NEW e \in S, d # e
      PROVE  Precedes(d.key, e.key) \/ Precedes(e.key, d.key)
  BY <1>5, PrecedesOrders DEF Keyed
<1> HIDE DEF P
<1>6. ASSUME NEW d \in S, NEW e \in S, d # e
      PROVE  /\ Place(d, S) # Place(e, S)
             /\ Place(d, S) < Place(e, S) => Precedes(d.key, e.key)
  BY <1>2, <1>4, <1>5, <1>6
<1>7. \A e \in S : Place(e, S) \in 0..Cardinality(S) - 1
  BY <1>1, <1>2, <1>3
<1> QED BY <1>1, <1>6, <1>7

(* The values of the elements.                                             *)
ValuesOf(S) == {e.value : e \in S}

(* Sorted lists the value of each element once, in the order of the keys.  *)
LEMMA SortedLists ==
  ASSUME NEW S, NEW K, Keyed(S, K)
  PROVE  /\ Sorted(S) \in [1..Cardinality(S) -> ValuesOf(S)]
         /\ Cardinality(S) \in Nat
         /\ \E order \in [1..Cardinality(S) -> S] :
              /\ \A n \in 1..Cardinality(S) : Sorted(S)[n] = order[n].value
              /\ \A e \in S : \E n \in 1..Cardinality(S) : order[n] = e
              /\ \A n, k \in 1..Cardinality(S) :
                   n < k => Precedes(order[n].key, order[k].key)
<1> DEFINE N == Cardinality(S)
           f == [e \in S |-> Place(e, S)]
<1>1. /\ N \in Nat /\ \A e \in S : Place(e, S) \in 0..N - 1
      /\ \A d, e \in S : d # e => /\ Place(d, S) # Place(e, S)
                                  /\ Place(d, S) < Place(e, S) => Precedes(d.key, e.key)
  BY PlacesDiffer
<1>2. f \in Injection(S, 0..N - 1)
  BY <1>1 DEF Injection, IsInjective
<1>3. IsFiniteSet(0..N - 1) /\ Cardinality(0..N - 1) = N
  BY <1>1, FS_Interval
<1>4. f \in Surjection(S, 0..N - 1)
  <2> HIDE DEF f
  <2> QED BY <1>2, <1>3, FS_Injection
<1>5. ASSUME NEW n \in 1..N PROVE \E e \in S : Place(e, S) = n - 1
  <2>1. n - 1 \in 0..N - 1
    BY <1>1
  <2>2. \E e \in S : f[e] = n - 1
    <3> HIDE DEF f
    <3> QED BY <1>4, <2>1 DEF Surjection
  <2> QED BY <2>2
<1> DEFINE order == [n \in 1..N |-> CHOOSE e \in S : Place(e, S) = n - 1]
<1>6. \A n \in 1..N : order[n] \in S /\ Place(order[n], S) = n - 1
  BY <1>5
<1>7. order \in [1..N -> S]
  BY <1>6
<1>8. \A n \in 1..N : Sorted(S)[n] = order[n].value
  BY DEF Sorted
<1>9. Sorted(S) \in [1..N -> ValuesOf(S)]
  <2>1. Sorted(S) = [n \in 1..N |-> order[n].value]
    BY DEF Sorted
  <2>2. \A n \in 1..N : order[n].value \in ValuesOf(S)
    BY <1>6 DEF ValuesOf
  <2> HIDE DEF order
  <2> QED BY <2>1, <2>2
<1> HIDE DEF order, N, f
<1>10. ASSUME NEW e \in S PROVE \E n \in 1..N : order[n] = e
  <2>1. Place(e, S) + 1 \in 1..N
    BY <1>1
  <2>2. Place(order[Place(e, S) + 1], S) = Place(e, S)
    BY <1>1, <1>6, <2>1
  <2>3. order[Place(e, S) + 1] = e
    BY <1>1, <1>6, <2>1, <2>2
  <2> QED BY <2>1, <2>3
<1>11. ASSUME NEW n \in 1..N, NEW k \in 1..N, n < k
       PROVE  Precedes(order[n].key, order[k].key)
  <2>1. Place(order[n], S) < Place(order[k], S)
    BY <1>1, <1>6, <1>11
  <2> QED BY <1>1, <1>6, <2>1
<1> QED BY <1>1, <1>7, <1>8, <1>9, <1>10, <1>11 DEF N


(* What is listed is listed of a part of it too.                           *)
LEMMA TakenOf ==
  ASSUME NEW N \in Nat, NEW T, NEW s \in [1..N -> T], NEW n \in Nat
  PROVE  Taken(s, n) \in Seq(T) /\ Len(Taken(s, n)) <= n
<1>1. s \in Seq(T) /\ Len(s) = N
  OBVIOUS
<1>2. CASE N <= n
  BY <1>1, <1>2 DEF Taken
<1>3. CASE ~(N <= n)
  <2>1. \A i \in 1..n : s[i] \in T
    BY <1>3
  <2>2. SubSeq(s, 1, n) \in Seq(T) /\ Len(SubSeq(s, 1, n)) = n
    BY <1>1, <1>3, <2>1
  <2> QED BY <1>1, <1>3, <2>2 DEF Taken
<1> QED BY <1>2, <1>3

LEMMA KeyedPart ==
  ASSUME NEW S, NEW K, Keyed(S, K), NEW T \in SUBSET S
  PROVE  Keyed(T, K)
BY FS_Subset DEF Keyed

Items == [idea : Int, sector : Int]

LEMMA NonNeutralPlaces ==
  ASSUME NEW C, NEW t \in Seq(C)
  PROVE  /\ IsFiniteSet(NonNeutral(t)) /\ NonNeutral(t) \subseteq Nat
         /\ \A i \in NonNeutral(t) : t[i] \in C
<1>1. Len(t) \in Nat /\ DOMAIN t = 1..Len(t)
  OBVIOUS
<1>2. \A i \in DOMAIN t : t[i] \in C
  OBVIOUS
<1>3. NonNeutral(t) \in SUBSET (1..Len(t))
  BY <1>1 DEF NonNeutral
<1>4. IsFiniteSet(1..Len(t))
  BY <1>1, FS_Interval
<1>5. IsFiniteSet(NonNeutral(t))
  BY <1>3, <1>4, FS_Subset
<1> QED BY <1>1, <1>2, <1>3, <1>5

(* A list of three numbers.                                                *)
LEMMA ThreeNumbers ==
  ASSUME NEW x \in Int, NEW y \in Int, NEW z \in Int
  PROVE  <<x, y, z>> \in [1..3 -> Int]
OBVIOUS

(* The sectors that are called.                                            *)
CallsOf(m) ==
    {[key |-> <<-m.calls[i].conviction, m.calls[i].sector, i>>,
      value |-> [idea |-> 0, sector |-> m.calls[i].sector]] : i \in NonNeutral(m.calls)}

LEMMA SectorsSelected ==
  ASSUME NEW m \in MacroContents
  PROVE  SelectSectors(m) \in Seq({v \in Items : v.idea = 0})
<1> DEFINE C == [sector : Int, direction : STRING, conviction : Int]
           D == NonNeutral(m.calls)
           V == {v \in Items : v.idea = 0}
           record(i) == [key |-> <<-m.calls[i].conviction, m.calls[i].sector, i>>,
                         value |-> [idea |-> 0, sector |-> m.calls[i].sector]]
<1>1. m.calls \in Seq(C) /\ MaxSectors \in Nat
  BY FunnelAssumption
<1>2. /\ IsFiniteSet(D) /\ D \subseteq Nat
      /\ \A i \in D : m.calls[i] \in C
  BY <1>1, NonNeutralPlaces
<1> HIDE DEF D
<1>3. CallsOf(m) = {record(i) : i \in D}
  BY DEF CallsOf, D
<1>4. IsFiniteSet(CallsOf(m))
  <2> DEFINE f == [i \in D |-> record(i)]
  <2>1. f \in Surjection(D, CallsOf(m))
    BY <1>3 DEF Surjection
  <2> QED BY <1>2, <2>1, FS_Surjection
<1>5. ASSUME NEW e \in CallsOf(m) PROVE e.key \in [1..3 -> Int] /\ e.value \in V
  <2>1. PICK i \in D : e = record(i)
    BY <1>3
  <2>2. m.calls[i].sector \in Int /\ m.calls[i].conviction \in Int /\ i \in Int
    BY <1>2
  <2>3. -m.calls[i].conviction \in Int
    BY <2>2
  <2>4. e.key \in [1..3 -> Int]
    BY <2>1, <2>2, <2>3, ThreeNumbers
  <2> QED BY <2>1, <2>2, <2>4 DEF Items
<1>6. \A d, e \in CallsOf(m) : d.key = e.key => d = e
  BY <1>3
<1>7. Keyed(CallsOf(m), 3)
  BY <1>4, <1>5, <1>6 DEF Keyed
<1>8. Sorted(CallsOf(m)) \in [1..Cardinality(CallsOf(m)) -> ValuesOf(CallsOf(m))]
      /\ Cardinality(CallsOf(m)) \in Nat
  BY <1>7, SortedLists
<1>9. ValuesOf(CallsOf(m)) \subseteq V
  BY <1>5 DEF ValuesOf
<1>10. SelectSectors(m) = Taken(Sorted(CallsOf(m)), MaxSectors)
  BY DEF SelectSectors, CallsOf
<1>11. Sorted(CallsOf(m)) \in [1..Cardinality(CallsOf(m)) -> V]
  BY <1>8, <1>9
<1> HIDE DEF V
<1>12. SelectSectors(m) \in Seq(V)
  BY <1>1, <1>8, <1>10, <1>11, TakenOf
<1> QED BY <1>12 DEF V

(* The rows of sectors, and those of companies.                            *)
SectorRows(rows) ==
    /\ IsFiniteSet(DOMAIN rows) /\ DOMAIN rows \subseteq Int
    /\ \A s \in DOMAIN rows : rows[s].brief \in SectorContents

LEMMA IdeasKeyed ==
  ASSUME NEW rows, SectorRows(rows)
  PROVE  /\ Keyed(Ideas(rows), 3)
         /\ ValuesOf(Ideas(rows)) \subseteq {v \in Items : v.sector \in DOMAIN rows}
<1> DEFINE C == [idea : Int, direction : STRING, conviction : Int]
           ideas(s) == rows[s].brief.ideas
           D(s) == NonNeutral(ideas(s))
           record(s, i) == [key |-> <<-ideas(s)[i].conviction, s, i>>,
                            value |-> [idea |-> ideas(s)[i].idea, sector |-> s]]
           R(s) == {record(s, i) : i \in D(s)}
<1>1. ASSUME NEW s \in DOMAIN rows
      PROVE  /\ IsFiniteSet(D(s)) /\ D(s) \subseteq Nat
             /\ \A i \in D(s) : ideas(s)[i] \in C
  <2>1. ideas(s) \in Seq(C)
    BY FunnelAssumption DEF SectorRows
  <2> HIDE DEF ideas
  <2> QED BY <2>1, NonNeutralPlaces
<1>2. Ideas(rows) = UNION {R(s) : s \in DOMAIN rows}
  BY DEF Ideas
<1> HIDE DEF D
<1>3. ASSUME NEW s \in DOMAIN rows PROVE IsFiniteSet(R(s))
  <2> DEFINE f == [i \in D(s) |-> record(s, i)]
  <2>1. f \in Surjection(D(s), R(s))
    BY DEF Surjection
  <2> HIDE DEF f, R
  <2> QED BY <1>1, <2>1, FS_Surjection
<1>4. IsFiniteSet(Ideas(rows))
  <2> DEFINE f == [s \in DOMAIN rows |-> R(s)]
             RR == {R(s) : s \in DOMAIN rows}
  <2> HIDE DEF R
  <2>1. f \in Surjection(DOMAIN rows, RR)
    BY DEF Surjection
  <2>2. IsFiniteSet(RR)
    <3> HIDE DEF f, RR
    <3> QED BY <2>1, FS_Surjection DEF SectorRows
  <2>3. \A T \in RR : IsFiniteSet(T)
    BY <1>3
  <2> QED BY <1>2, <2>2, <2>3, FS_UNION
<1>5. ASSUME NEW e \in Ideas(rows)
      PROVE  \E s \in DOMAIN rows : \E i \in D(s) : e = record(s, i)
  BY <1>2, <1>5
<1>6. ASSUME NEW e \in Ideas(rows)
      PROVE  e.key \in [1..3 -> Int] /\ e.value \in Items /\ e.value.sector \in DOMAIN rows
  <2>1. PICK s \in DOMAIN rows : \E i \in D(s) : e = record(s, i)
    BY <1>5
  <2>2. PICK i \in D(s) : e = record(s, i)
    BY <2>1
  <2>3. ideas(s)[i] \in C /\ i \in Int /\ s \in Int
    BY <1>1 DEF SectorRows
  <2>4. -ideas(s)[i].conviction \in Int
    BY <2>3
  <2>5. e.key \in [1..3 -> Int]
    BY <2>2, <2>3, <2>4, ThreeNumbers
  <2> QED BY <2>2, <2>3, <2>5 DEF Items
<1>7. ASSUME NEW d \in Ideas(rows), NEW e \in Ideas(rows), d.key = e.key
      PROVE  d = e
  <2>1. PICK s \in DOMAIN rows : \E i \in D(s) : d = record(s, i)
    BY <1>5
  <2>2. PICK i \in D(s) : d = record(s, i)
    BY <2>1
  <2>3. PICK u \in DOMAIN rows : \E j \in D(u) : e = record(u, j)
    BY <1>5
  <2>4. PICK j \in D(u) : e = record(u, j)
    BY <2>3
  <2>5. s = u /\ i = j
    BY <1>7, <2>2, <2>4
  <2> QED BY <2>2, <2>4, <2>5
<1>8. Keyed(Ideas(rows), 3)
  BY <1>4, <1>6, <1>7 DEF Keyed
<1>9. ValuesOf(Ideas(rows)) \subseteq {v \in Items : v.sector \in DOMAIN rows}
  BY <1>6 DEF ValuesOf
<1> QED BY <1>8, <1>9

(* At most so many companies are selected, of sectors that have a brief.   *)
LEMMA CompaniesSelected ==
  ASSUME NEW rows, SectorRows(rows)
  PROVE  /\ SelectCompanies(rows) \in Seq({v \in Items : v.sector \in DOMAIN rows})
         /\ Len(SelectCompanies(rows)) <= MaxCompanies
<1> DEFINE T == FirstOfKey(Ideas(rows))
           V == {v \in Items : v.sector \in DOMAIN rows}
<1>1. T \in SUBSET Ideas(rows) /\ MaxCompanies \in Nat
  BY FunnelAssumption DEF FirstOfKey
<1> HIDE DEF T
<1>2. Keyed(T, 3) /\ ValuesOf(T) \subseteq V
  BY <1>1, IdeasKeyed, KeyedPart DEF ValuesOf
<1>3. Sorted(T) \in [1..Cardinality(T) -> ValuesOf(T)] /\ Cardinality(T) \in Nat
  BY <1>2, SortedLists
<1>4. Sorted(T) \in [1..Cardinality(T) -> V]
  BY <1>2, <1>3
<1>5. SelectCompanies(rows) = Taken(Sorted(T), MaxCompanies)
  BY DEF SelectCompanies, T
<1> HIDE DEF V
<1>6. SelectCompanies(rows) \in Seq(V) /\ Len(SelectCompanies(rows)) <= MaxCompanies
  BY <1>1, <1>3, <1>4, <1>5, TakenOf
<1> QED BY <1>6 DEF V


RankedBy(f, D) == {[key |-> f[x], value |-> x] : x \in D}

Ranking(D, K, f) ==
    /\ IsFiniteSet(D) /\ K \in Nat /\ f \in [D -> [1..K -> Int]]
    /\ \A x, y \in D : f[x] = f[y] => x = y

Lists(list, D, f) ==
    /\ Cardinality(D) \in Nat
    /\ list \in [1..Cardinality(D) -> D]
    /\ \A x \in D : \E n \in 1..Cardinality(D) : list[n] = x
    /\ \A n, k \in 1..Cardinality(D) : n < k => ~Precedes(f[list[k]], f[list[n]])

(* What is ranked by keys of its own is listed once each, by rank.         *)
LEMMA RankedLists ==
  ASSUME NEW D, NEW K, NEW f, Ranking(D, K, f)
  PROVE  Lists(Sorted(RankedBy(f, D)), D, f)
<1> DEFINE g == [x \in D |-> [key |-> f[x], value |-> x]]
           S == RankedBy(f, D)
           list == Sorted(S)
<1>0. /\ IsFiniteSet(D) /\ K \in Nat /\ f \in [D -> [1..K -> Int]]
      /\ \A x, y \in D : f[x] = f[y] => x = y
  BY DEF Ranking
<1>1. g \in Surjection(D, S) /\ g \in Injection(D, S)
  BY <1>0 DEF Surjection, Injection, IsInjective, RankedBy
<1>2. IsFiniteSet(S) /\ Cardinality(S) = Cardinality(D)
  <2> HIDE DEF g, S
  <2> QED BY <1>0, <1>1, FS_Surjection
<1>3. ASSUME NEW e \in S PROVE e.value \in D /\ e.key = f[e.value] /\ e.key \in [1..K -> Int]
  BY <1>0 DEF RankedBy
<1>4. ASSUME NEW x \in D PROVE \E e \in S : e.value = x
  <2>1. [key |-> f[x], value |-> x] \in S
    BY DEF RankedBy
  <2> QED BY <2>1
<1>5. \A d, e \in S : d.key = e.key => d = e
  BY <1>0 DEF RankedBy
<1> HIDE DEF S, list
<1>6. Keyed(S, K)
  BY <1>0, <1>2, <1>3, <1>5 DEF Keyed
<1> DEFINE N == Cardinality(S)
<1>7. N \in Nat /\ list \in [1..N -> ValuesOf(S)]
  BY <1>6, SortedLists DEF list
<1>8. PICK order \in [1..N -> S] :
         /\ \A n \in 1..N : list[n] = order[n].value
         /\ \A e \in S : \E n \in 1..N : order[n] = e
         /\ \A n, k \in 1..N : n < k => Precedes(order[n].key, order[k].key)
  BY <1>6, SortedLists DEF list
<1> HIDE DEF N
<1>9. list \in [1..N -> D]
  <2>1. ASSUME NEW n \in 1..N PROVE list[n] \in D
    <3>1. order[n] \in S
      BY <1>8
    <3> QED BY <1>3, <1>8, <3>1
  <2> QED BY <1>7, <2>1
<1>10. ASSUME NEW x \in D PROVE \E n \in 1..N : list[n] = x
  <2>1. PICK e \in S : e.value = x
    BY <1>4
  <2>2. PICK n \in 1..N : order[n] = e
    BY <1>8
  <2>3. list[n] = order[n].value
    BY <1>8
  <2> QED BY <2>1, <2>2, <2>3
<1>11. ASSUME NEW n \in 1..N, NEW k \in 1..N, n < k
       PROVE  ~Precedes(f[list[k]], f[list[n]])
  <2>1. order[n] \in S /\ order[k] \in S
    BY <1>8
  <2>2. Precedes(order[n].key, order[k].key)
    BY <1>8, <1>11
  <2>3. list[n] = order[n].value /\ list[k] = order[k].value
    BY <1>8
  <2>4. order[n].key = f[list[n]] /\ order[k].key = f[list[k]]
    BY <1>3, <2>1, <2>3
  <2>5. f[list[n]] \in [1..K -> Int] /\ f[list[k]] \in [1..K -> Int]
    BY <1>0, <1>9
  <2> QED BY <2>2, <2>4, <2>5, <1>0, PrecedesOrders
<1>12. 1..N = 1..Cardinality(D) /\ Cardinality(D) \in Nat
  BY <1>2, <1>7 DEF N
<1> QED BY <1>9, <1>10, <1>11, <1>12 DEF list, S, Lists

(* Direction and verdict are ranked by numbers.                            *)
LEMMA RankType ==
  ASSUME NEW b \in SectorContents \cup ThesisContents
  PROVE  DirectionRank(b.direction) \in Int /\ JudgeRank(b.judge) \in Int /\ -b.conviction \in Int
BY FunnelAssumption DEF DirectionRank, JudgeRank

LEMMA FourNumbers ==
  ASSUME NEW w \in Int, NEW x \in Int, NEW y \in Int, NEW z \in Int
  PROVE  <<w, x, y, z>> \in [1..4 -> Int]
OBVIOUS

LEMMA FiveNumbers ==
  ASSUME NEW v \in Int, NEW w \in Int, NEW x \in Int, NEW y \in Int, NEW z \in Int
  PROVE  <<v, w, x, y, z>> \in [1..5 -> Int]
OBVIOUS

LEMMA SectorsListed ==
  ASSUME SectorRows(sectors)
  PROVE  /\ Cardinality(DOMAIN sectors) \in Nat
         /\ SectorEntries \in [1..Cardinality(DOMAIN sectors) -> DOMAIN sectors]
         /\ \A s \in DOMAIN sectors :
              \E n \in 1..Cardinality(DOMAIN sectors) : SectorEntries[n] = s
<1> DEFINE D == DOMAIN sectors
           f == [s \in D |-> SectorKey(s)]
<1>1. IsFiniteSet(D)
  BY DEF SectorRows
<1>2. ASSUME NEW s \in D PROVE SectorKey(s) \in [1..4 -> Int] /\ SectorKey(s)[4] = s
  <2>1. sectors[s].brief \in SectorContents /\ s \in Int
    BY DEF SectorRows
  <2>2. /\ DirectionRank(sectors[s].brief.direction) \in Int
        /\ JudgeRank(sectors[s].brief.judge) \in Int /\ -sectors[s].brief.conviction \in Int
    BY <2>1, RankType
  <2> QED BY <2>1, <2>2, FourNumbers DEF SectorKey
<1>3. f \in [D -> [1..4 -> Int]] /\ \A x, y \in D : f[x] = f[y] => x = y
  <2>1. f \in [D -> [1..4 -> Int]]
    BY <1>2
  <2>2. ASSUME NEW x \in D, NEW y \in D, f[x] = f[y] PROVE x = y
    <3>1. SectorKey(x) = SectorKey(y)
      BY <2>2
    <3> QED BY <1>2, <3>1
  <2> QED BY <2>1, <2>2
<1>4. SectorEntries = Sorted(RankedBy(f, D))
  <2>1. RankedBy(f, D) = {[key |-> SectorKey(s), value |-> s] : s \in D}
    BY DEF RankedBy
  <2> QED BY <2>1 DEF SectorEntries
<1> HIDE DEF f
<1>5. Ranking(D, 4, f)
  BY <1>1, <1>3 DEF Ranking
<1>6. Lists(SectorEntries, D, f)
  BY <1>4, <1>5, RankedLists
<1> QED BY <1>6 DEF Lists

ThesisRows(rows, known) ==
    /\ IsFiniteSet(DOMAIN rows) /\ known \subseteq Int
    /\ \A c \in DOMAIN rows :
        /\ rows[c].brief \in ThesisContents
        /\ rows[c].idea \in Int /\ Entity[rows[c].idea] = c
        /\ rows[c].sector \in known

LEMMA CompaniesListed ==
  ASSUME ThesisRows(theses, DOMAIN sectors)
  PROVE  /\ Cardinality(DOMAIN theses) \in Nat
         /\ CompanyEntries \in [1..Cardinality(DOMAIN theses) -> DOMAIN theses]
         /\ \A c \in DOMAIN theses :
              \E n \in 1..Cardinality(DOMAIN theses) : CompanyEntries[n] = c
         /\ \A n, k \in 1..Cardinality(DOMAIN theses) :
              n < k => ~Precedes(CompanyKey(CompanyEntries[k]), CompanyKey(CompanyEntries[n]))
<1> DEFINE D == DOMAIN theses
           f == [c \in D |-> CompanyKey(c)]
           list == CompanyEntries
<1>1. IsFiniteSet(D)
  BY DEF ThesisRows
<1>2. ASSUME NEW c \in D PROVE CompanyKey(c) \in [1..5 -> Int] /\ CompanyKey(c)[5] = theses[c].idea
  <2>1. theses[c].brief \in ThesisContents /\ theses[c].sector \in Int /\ theses[c].idea \in Int
    BY DEF ThesisRows
  <2>2. /\ DirectionRank(theses[c].brief.direction) \in Int
        /\ JudgeRank(theses[c].brief.judge) \in Int /\ -theses[c].brief.conviction \in Int
    BY <2>1, RankType
  <2> QED BY <2>1, <2>2, FiveNumbers DEF CompanyKey
<1>3. f \in [D -> [1..5 -> Int]] /\ \A x, y \in D : f[x] = f[y] => x = y
  <2>1. f \in [D -> [1..5 -> Int]]
    BY <1>2
  <2>2. ASSUME NEW x \in D, NEW y \in D, f[x] = f[y] PROVE x = y
    <3>1. CompanyKey(x) = CompanyKey(y)
      BY <2>2
    <3>2. theses[x].idea = theses[y].idea
      BY <1>2, <3>1
    <3> QED BY <3>2 DEF ThesisRows
  <2> QED BY <2>1, <2>2
<1>4. list = Sorted(RankedBy(f, D))
  <2>1. RankedBy(f, D) = {[key |-> CompanyKey(c), value |-> c] : c \in D}
    BY DEF RankedBy
  <2> QED BY <2>1 DEF CompanyEntries
<1>5. \A c \in D : f[c] = CompanyKey(c)
  OBVIOUS
<1> HIDE DEF f, list
<1>6. Ranking(D, 5, f)
  BY <1>1, <1>3 DEF Ranking
<1>7. Lists(list, D, f)
  BY <1>4, <1>6, RankedLists
<1>8. \A n, k \in 1..Cardinality(D) : n < k => ~Precedes(CompanyKey(list[k]), CompanyKey(list[n]))
  BY <1>5, <1>7 DEF Lists
<1> QED BY <1>7, <1>8 DEF list, Lists


-----------------------------------------------------------------------------
FunnelStages ==
    {"macro", "macro_failed", "sectors", "sectors_failed", "companies", "companies_failed",
     "portfolio", "belief_update", "succeeded", "paused"}

ItemStates == {"waiting", "running", "persisted", "skipped", "failed"}

(* The rows are of this attempt or of an earlier one.                      *)
FunnelTypes ==
    /\ tries \in Nat \ {0} /\ stage \in FunnelStages
    /\ macro # Missing => macro.brief \in MacroContents
    /\ portfolio # Missing => portfolio.attempt \in 1..tries
    /\ SectorRows(sectors) /\ sectors = [s \in DOMAIN sectors |-> sectors[s]]
    /\ \A s \in DOMAIN sectors : sectors[s].attempt \in 1..tries
    /\ ThesisRows(theses, DOMAIN sectors)
    /\ \A c \in DOMAIN theses : theses[c].attempt \in 1..tries
    /\ picked \in Seq(Items) /\ item \in Seq(ItemStates) /\ Len(item) = Len(picked)

(* Without a macro brief nothing is selected and nothing is summed up.     *)
MacroFirst ==
    /\ stage \notin {"macro", "macro_failed", "paused"} => macro # Missing
    /\ sectors # Empty \/ portfolio # Missing => macro # Missing

(* What a fan-out works on.                                                *)
PickedKnown ==
    /\ stage = "sectors" => picked = SelectSectors(macro.brief)
    /\ stage = "companies" =>
          /\ Len(picked) <= MaxCompanies
          /\ \A i \in DOMAIN picked : picked[i].sector \in DOMAIN sectors

(* The theses of this attempt: none before the companies, then of those    *)
(* that were selected.                                                     *)
ThesesOfAttempt ==
    \A c \in DOMAIN theses : theses[c].attempt = tries =>
        /\ stage \notin {"macro", "macro_failed", "sectors", "sectors_failed"}
        /\ stage = "companies" => \E i \in DOMAIN picked : c = Entity[picked[i].idea]

(* Of a row that is there, no task has failed, or another has written it.  *)
RowsTold ==
    /\ stage = "sectors" =>
          \A s \in DOMAIN sectors :
              \/ \A i \in DOMAIN picked :
                    picked[i].sector = s => item[i] \in {"waiting", "persisted"}
              \/ \E i \in DOMAIN picked : picked[i].sector = s /\ item[i] = "persisted"
    /\ stage = "companies" =>
          \A c \in DOMAIN theses :
              \/ \A i \in DOMAIN picked :
                    Entity[picked[i].idea] = c => item[i] \in {"waiting", "persisted"}
              \/ \E i \in DOMAIN picked : Entity[picked[i].idea] = c /\ item[i] = "persisted"

(* The portfolio is of an attempt that is over, or of this one if it has   *)
(* come to it, and lists rows.                                             *)
PortfolioKept ==
    portfolio # Missing =>
        /\ stage \notin {"belief_update", "succeeded", "paused"} => portfolio.attempt < tries
        /\ \A n \in DOMAIN portfolio.brief.sectors :
              portfolio.brief.sectors[n] \in DOMAIN sectors
        /\ \A n \in DOMAIN portfolio.brief.companies :
              portfolio.brief.companies[n] \in DOMAIN theses

FunnelIInv ==
    /\ FunnelTypes /\ MacroFirst /\ PickedKnown /\ ThesesOfAttempt /\ RowsTold /\ PortfolioKept
    /\ FunnelSound

LEMMA FunnelStarts == FunnelInit => FunnelIInv
<1> SUFFICES ASSUME FunnelInit PROVE FunnelIInv
  OBVIOUS
<1> USE DEF FunnelInit
<1>1. sectors = Empty /\ theses = Empty /\ DOMAIN Empty = {} /\ Empty = [s \in {} |-> Empty[s]]
  BY DEF Empty
<1>2. /\ IsFiniteSet({}) /\ Cardinality({}) = 0
      /\ <<>> \in Seq(Items) /\ <<>> \in Seq(ItemStates) /\ MaxCompanies \in Nat
  BY FS_EmptySet, FunnelAssumption
<1>3. FunnelTypes
  BY <1>1, <1>2 DEF FunnelTypes, SectorRows, ThesisRows, FunnelStages
<1>4. SelectionBounded
  <2>1. \A a \in 1..tries : {c \in DOMAIN theses : theses[c].attempt = a} = {}
    BY <1>1
  <2> QED BY <1>1, <1>2, <2>1 DEF SelectionBounded
<1>5. FunnelSound
  BY <1>4 DEF FunnelSound, PortfolioComplete, FailsWithNothing
<1> QED BY <1>1, <1>3, <1>5 DEF FunnelIInv, MacroFirst, PickedKnown, ThesesOfAttempt, RowsTold,
                                PortfolioKept

(* A step that leaves the rows alone keeps what is said of them; the rest  *)
(* is said of the stage and its items.                                     *)
LEMMA QuietKeeps ==
  ASSUME FunnelIInv, UNCHANGED rowVars, tries' = tries,
         stage' \in FunnelStages, picked' \in Seq(Items), item' \in Seq(ItemStates),
         Len(item') = Len(picked'),
         stage' \notin {"macro", "macro_failed", "paused"} => macro # Missing,
         portfolio # Missing /\ stage' \notin {"belief_update", "succeeded", "paused"} =>
             portfolio.attempt < tries,
         PickedKnown', ThesesOfAttempt', RowsTold', FailsWithNothing'
  PROVE  FunnelIInv'
<1> USE DEF rowVars
<1>1. FunnelTypes'
  BY DEF FunnelIInv, FunnelTypes, SectorRows, ThesisRows
<1>2. MacroFirst'
  BY DEF FunnelIInv, MacroFirst
<1>3. PortfolioKept'
  BY DEF FunnelIInv, PortfolioKept
<1>4. PortfolioComplete'
  BY DEF FunnelIInv, FunnelSound, PortfolioComplete, CompanyKey
<1>5. SelectionBounded'
  BY DEF FunnelIInv, FunnelSound, SelectionBounded
<1> QED BY <1>1, <1>2, <1>3, <1>4, <1>5 DEF FunnelIInv, FunnelSound

(* The items of a fan-out that begins.                                     *)
LEMMA Waiting ==
  ASSUME NEW T, NEW s \in Seq(T)
  PROVE  LET w == [i \in DOMAIN s |-> "waiting"]
         IN  w \in Seq(ItemStates) /\ Len(w) = Len(s) /\ DOMAIN w = DOMAIN s
<1>1. Len(s) \in Nat /\ DOMAIN s = 1..Len(s)
  OBVIOUS
<1> DEFINE w == [i \in DOMAIN s |-> "waiting"]
<1>2. w \in [1..Len(s) -> ItemStates]
  BY <1>1 DEF ItemStates
<1> HIDE DEF w
<1>3. w \in Seq(ItemStates) /\ Len(w) = Len(s) /\ DOMAIN w = DOMAIN s
  BY <1>1, <1>2
<1> QED BY <1>3 DEF w

(* The items after a step of one of them.                                  *)
LEMMA ItemMoves ==
  ASSUME FunnelTypes, NEW i \in DOMAIN item, NEW x \in ItemStates,
         item' = [item EXCEPT ![i] = x]
  PROVE  /\ item' \in Seq(ItemStates) /\ Len(item') = Len(item) /\ i \in DOMAIN picked
         /\ DOMAIN picked = DOMAIN item /\ DOMAIN item' = DOMAIN item
         /\ item'[i] = x /\ \A k \in DOMAIN item : k # i => item'[k] = item[k]
<1>1. /\ Len(item) \in Nat /\ DOMAIN item = 1..Len(item) /\ item \in [1..Len(item) -> ItemStates]
      /\ DOMAIN picked = 1..Len(item)
  BY DEF FunnelTypes
<1>2. item' \in [1..Len(item) -> ItemStates]
  BY <1>1
<1>3. item' \in Seq(ItemStates) /\ Len(item') = Len(item)
  BY <1>1, <1>2
<1> QED BY <1>1, <1>3

LEMMA LoadMacroKeeps == ASSUME FunnelIInv, LoadMacro PROVE FunnelIInv'
<1> USE DEF LoadMacro, StartFanout, rowVars
<1>1. macro.brief \in MacroContents
  BY DEF FunnelIInv, FunnelTypes
<1>2. picked' \in Seq(Items)
  <2>1. picked' \in Seq({v \in Items : v.idea = 0})
    BY <1>1, SectorsSelected
  <2> QED BY <2>1
<1>3. item' \in Seq(ItemStates) /\ Len(item') = Len(picked') /\ DOMAIN item' = DOMAIN picked'
  BY <1>2, Waiting
<1>4. stage' = "sectors" /\ stage' \in FunnelStages
  BY DEF FunnelStages
<1>5. PickedKnown'
  BY <1>4 DEF PickedKnown
<1>6. ThesesOfAttempt'
  BY <1>4 DEF FunnelIInv, ThesesOfAttempt
<1>7. RowsTold'
  BY <1>4 DEF RowsTold
<1>8. FailsWithNothing'
  BY <1>4 DEF FailsWithNothing
<1>9. portfolio # Missing => portfolio.attempt < tries
  BY DEF FunnelIInv, PortfolioKept
<1> QED BY <1>2, <1>3, <1>4, <1>5, <1>6, <1>7, <1>8, <1>9, QuietKeeps

LEMMA MacroFailsKeeps == ASSUME FunnelIInv, MacroFails PROVE FunnelIInv'
<1> USE DEF MacroFails, rowVars
<1>1. stage' = "macro_failed" /\ stage' \in FunnelStages
  BY DEF FunnelStages
<1>2. picked' \in Seq(Items) /\ item' \in Seq(ItemStates) /\ Len(item') = Len(picked')
  BY DEF FunnelIInv, FunnelTypes
<1>3. PickedKnown' /\ RowsTold' /\ FailsWithNothing'
  BY <1>1 DEF PickedKnown, RowsTold, FailsWithNothing
<1>4. ThesesOfAttempt'
  BY <1>1 DEF FunnelIInv, ThesesOfAttempt
<1>5. portfolio # Missing => portfolio.attempt < tries
  BY DEF FunnelIInv, PortfolioKept
<1> QED BY <1>1, <1>2, <1>3, <1>4, <1>5, QuietKeeps

(* A task of a fan-out goes on: what that means for a row decides whether  *)
(* the rows are still told.                                                *)
LEMMA TaskKeeps ==
  ASSUME FunnelIInv, UNCHANGED <<rowVars, stage, picked, tries>>,
         stage \in {"sectors", "companies"},
         NEW i \in DOMAIN item, NEW x \in ItemStates, item' = [item EXCEPT ![i] = x],
         \/ x = "persisted"
         \/ ~HasRow(i) /\ item[i] # "persisted"
         \/ item[i] = "running"
  PROVE  FunnelIInv'
<1> USE DEF rowVars
<1>1. FunnelTypes
  BY DEF FunnelIInv
<1>2. /\ item' \in Seq(ItemStates) /\ Len(item') = Len(item) /\ i \in DOMAIN picked
      /\ DOMAIN picked = DOMAIN item /\ DOMAIN item' = DOMAIN item
      /\ item'[i] = x /\ \A k \in DOMAIN item : k # i => item'[k] = item[k]
  BY <1>1, ItemMoves
<1>3. stage' \in FunnelStages /\ picked' \in Seq(Items) /\ Len(item') = Len(picked')
  BY <1>1, <1>2 DEF FunnelTypes
<1>4. PickedKnown' /\ ThesesOfAttempt'
  BY DEF FunnelIInv, PickedKnown, ThesesOfAttempt
<1>5. FailsWithNothing'
  BY DEF FailsWithNothing
<1>6. ASSUME stage = "sectors", NEW s \in DOMAIN sectors
      PROVE  \/ \A k \in DOMAIN picked :
                   picked[k].sector = s => item'[k] \in {"waiting", "persisted"}
             \/ \E k \in DOMAIN picked : picked[k].sector = s /\ item'[k] = "persisted"
  <2>1. \/ \A k \in DOMAIN picked :
                 picked[k].sector = s => item[k] \in {"waiting", "persisted"}
        \/ \E k \in DOMAIN picked : picked[k].sector = s /\ item[k] = "persisted"
    BY <1>6 DEF FunnelIInv, RowsTold
  <2>2. ~HasRow(i) => picked[i].sector # s
    BY <1>6 DEF HasRow
  <2> QED BY <1>2, <2>1, <2>2
<1>7. ASSUME stage = "companies", NEW c \in DOMAIN theses
      PROVE  \/ \A k \in DOMAIN picked :
                   Entity[picked[k].idea] = c => item'[k] \in {"waiting", "persisted"}
             \/ \E k \in DOMAIN picked : Entity[picked[k].idea] = c /\ item'[k] = "persisted"
  <2>1. \/ \A k \in DOMAIN picked :
                 Entity[picked[k].idea] = c => item[k] \in {"waiting", "persisted"}
        \/ \E k \in DOMAIN picked : Entity[picked[k].idea] = c /\ item[k] = "persisted"
    BY <1>7 DEF FunnelIInv, RowsTold
  <2>2. ~HasRow(i) => Entity[picked[i].idea] # c
    BY <1>7 DEF HasRow
  <2> QED BY <1>2, <2>1, <2>2
<1>8. RowsTold'
  BY <1>6, <1>7 DEF RowsTold
<1>9. portfolio # Missing => portfolio.attempt < tries
  BY DEF FunnelIInv, PortfolioKept
<1>10. macro # Missing
  BY DEF FunnelIInv, MacroFirst
<1> QED BY <1>2, <1>3, <1>4, <1>5, <1>8, <1>9, <1>10, QuietKeeps

LEMMA CheckItemKeeps ==
  ASSUME FunnelIInv, NEW i \in DOMAIN item, CheckItem(i) \/ EndWithout(i) PROVE FunnelIInv'
<1>1. CASE CheckItem(i)
  <2> DEFINE x == IF HasRow(i) THEN "persisted"
                  ELSE IF Workable(i) THEN "running" ELSE "skipped"
  <2>1. x \in ItemStates /\ item' = [item EXCEPT ![i] = x]
    BY <1>1 DEF CheckItem, ItemStates
  <2>2. x = "persisted" \/ (~HasRow(i) /\ item[i] # "persisted")
    BY <1>1 DEF CheckItem
  <2> HIDE DEF x
  <2> QED BY <1>1, <2>1, <2>2, TaskKeeps DEF CheckItem
<1>2. CASE EndWithout(i)
  <2>1. PICK x \in {"skipped", "failed"} : item' = [item EXCEPT ![i] = x]
    BY <1>2 DEF EndWithout
  <2>2. x \in ItemStates
    BY DEF ItemStates
  <2> QED BY <1>2, <2>1, <2>2, TaskKeeps DEF EndWithout
<1> QED BY <1>1, <1>2


LEMMA SectorsOverKeeps == ASSUME FunnelIInv, SectorsOver PROVE FunnelIInv'
<1> USE DEF SectorsOver, rowVars
<1>1. /\ picked \in Seq(Items) /\ item \in Seq(ItemStates) /\ Len(item) = Len(picked)
      /\ DOMAIN item = DOMAIN picked /\ SectorRows(sectors)
  <2>1. picked \in Seq(Items) /\ item \in Seq(ItemStates) /\ Len(item) = Len(picked)
    BY DEF FunnelIInv, FunnelTypes
  <2> QED BY <2>1 DEF FunnelIInv, FunnelTypes
<1>2. macro # Missing /\ (portfolio # Missing => portfolio.attempt < tries)
  BY DEF FunnelIInv, MacroFirst, PortfolioKept
<1>3. CASE AllFailed
  <2>1. /\ stage' = "sectors_failed" /\ stage' \in FunnelStages
        /\ picked' = picked /\ item' = item
    BY <1>3 DEF FunnelStages
  <2>2. PickedKnown' /\ RowsTold'
    BY <2>1 DEF PickedKnown, RowsTold
  <2>3. ThesesOfAttempt'
    BY <2>1 DEF FunnelIInv, ThesesOfAttempt
  <2>4. ASSUME NEW s \in DOMAIN sectors PROVE FALSE
    <3>1. [idea |-> 0, sector |-> s] \in ToSet(picked)
      BY DEF FunnelIInv, FunnelSound, SelectionBounded, PickedKnown
    <3>2. PICK i \in DOMAIN picked : picked[i] = [idea |-> 0, sector |-> s]
      BY <3>1 DEF ToSet
    <3>3. picked[i].sector = s /\ item[i] = "failed"
      BY <1>1, <1>3, <3>2 DEF AllFailed
    <3>4. \/ \A k \in DOMAIN picked :
                 picked[k].sector = s => item[k] \in {"waiting", "persisted"}
          \/ \E k \in DOMAIN picked : picked[k].sector = s /\ item[k] = "persisted"
      BY DEF FunnelIInv, RowsTold
    <3> QED BY <1>1, <1>3, <3>3, <3>4 DEF AllFailed
  <2>5. sectors = Empty
    <3>1. DOMAIN sectors = {}
      BY <2>4
    <3>2. sectors = [s \in DOMAIN sectors |-> sectors[s]]
      BY DEF FunnelIInv, FunnelTypes
    <3> QED BY <3>1, <3>2 DEF Empty
  <2>6. FailsWithNothing'
    BY <2>1, <2>5 DEF FailsWithNothing
  <2> QED BY <1>1, <1>2, <2>1, <2>2, <2>3, <2>6, QuietKeeps
<1>4. CASE ~AllFailed
  <2> DEFINE V == {v \in Items : v.sector \in DOMAIN sectors}
  <2>1. /\ stage' = "companies" /\ stage' \in FunnelStages
        /\ picked' = SelectCompanies(sectors)
        /\ item' = [i \in DOMAIN picked' |-> "waiting"]
    BY <1>4 DEF FunnelStages, StartFanout
  <2>2. picked' \in Seq(V) /\ Len(picked') <= MaxCompanies
    BY <1>1, <2>1, CompaniesSelected
  <2>3. picked' \in Seq(Items) /\ \A i \in DOMAIN picked' : picked'[i].sector \in DOMAIN sectors
    <3>1. \A i \in DOMAIN picked' : picked'[i] \in V
      BY <2>2
    <3>2. picked' \in Seq(Items)
      BY <2>2
    <3> QED BY <3>1, <3>2
  <2>4. item' \in Seq(ItemStates) /\ Len(item') = Len(picked')
    BY <2>1, <2>3, Waiting
  <2>5. PickedKnown'
    BY <2>1, <2>2, <2>3 DEF PickedKnown
  <2>6. ThesesOfAttempt'
    BY <2>1 DEF FunnelIInv, ThesesOfAttempt
  <2>7. RowsTold'
    BY <2>1 DEF RowsTold
  <2>8. FailsWithNothing'
    BY <2>1 DEF FailsWithNothing
  <2> QED BY <1>2, <1>4, <2>1, <2>3, <2>4, <2>5, <2>6, <2>7, <2>8, QuietKeeps
<1> QED BY <1>3, <1>4

LEMMA CompaniesOverKeeps == ASSUME FunnelIInv, CompaniesOver PROVE FunnelIInv'
<1> USE DEF CompaniesOver, rowVars
<1>1. /\ picked \in Seq(Items) /\ item \in Seq(ItemStates) /\ Len(item) = Len(picked)
      /\ DOMAIN item = DOMAIN picked
  <2>1. picked \in Seq(Items) /\ item \in Seq(ItemStates) /\ Len(item) = Len(picked)
    BY DEF FunnelIInv, FunnelTypes
  <2> QED BY <2>1
<1>2. macro # Missing /\ (portfolio # Missing => portfolio.attempt < tries)
  BY DEF FunnelIInv, MacroFirst, PortfolioKept
<1>3. stage' \in {"companies_failed", "portfolio"} /\ stage' \in FunnelStages
      /\ (stage' = "companies_failed" => AllFailed)
  BY DEF FunnelStages
<1>4. PickedKnown' /\ RowsTold'
  BY <1>3 DEF PickedKnown, RowsTold
<1>5. ThesesOfAttempt'
  BY <1>3 DEF FunnelIInv, ThesesOfAttempt
<1>6. ASSUME AllFailed, NEW i \in DOMAIN picked PROVE Entity[picked[i].idea] \notin DOMAIN theses
  <2> SUFFICES ASSUME Entity[picked[i].idea] \in DOMAIN theses PROVE FALSE
    OBVIOUS
  <2>1. \/ \A k \in DOMAIN picked :
               Entity[picked[k].idea] = Entity[picked[i].idea] =>
                   item[k] \in {"waiting", "persisted"}
        \/ \E k \in DOMAIN picked :
               Entity[picked[k].idea] = Entity[picked[i].idea] /\ item[k] = "persisted"
    BY DEF FunnelIInv, RowsTold
  <2> QED BY <1>1, <1>6, <2>1 DEF AllFailed
<1>7. FailsWithNothing'
  BY <1>3, <1>6 DEF FailsWithNothing
<1> QED BY <1>1, <1>2, <1>3, <1>4, <1>5, <1>7, QuietKeeps

LEMMA EndKeeps == ASSUME FunnelIInv, FinishRun \/ Pause PROVE FunnelIInv'
<1> USE DEF FinishRun, Pause, rowVars
<1>1. stage' \in {"succeeded", "paused"} /\ stage' \in FunnelStages
  BY DEF FunnelStages
<1>2. picked' \in Seq(Items) /\ item' \in Seq(ItemStates) /\ Len(item') = Len(picked')
  <2>1. <<>> \in Seq(Items) /\ <<>> \in Seq(ItemStates)
    OBVIOUS
  <2> QED BY <2>1 DEF FunnelIInv, FunnelTypes
<1>3. PickedKnown' /\ RowsTold' /\ FailsWithNothing'
  BY <1>1 DEF PickedKnown, RowsTold, FailsWithNothing
<1>4. ThesesOfAttempt'
  BY <1>1 DEF FunnelIInv, ThesesOfAttempt
<1>5. stage' = "succeeded" => macro # Missing
  BY DEF FunnelIInv, MacroFirst
<1> QED BY <1>1, <1>2, <1>3, <1>4, <1>5, QuietKeeps

LEMMA ResumeKeeps == ASSUME FunnelIInv, Resume PROVE FunnelIInv'
<1> USE DEF Resume, rowVars
<1>1. FunnelTypes /\ tries' = tries + 1 /\ tries \in Nat \ {0} /\ 1..tries \subseteq 1..tries'
  <2>1. FunnelTypes
    BY DEF FunnelIInv
  <2> QED BY <2>1 DEF FunnelTypes
<1>2. FunnelTypes'
  BY <1>1 DEF FunnelTypes, FunnelStages, SectorRows, ThesisRows
<1>3. \A c \in DOMAIN theses : theses[c].attempt < tries'
  BY <1>1 DEF FunnelTypes
<1>4. ThesesOfAttempt'
  BY <1>1, <1>3 DEF ThesesOfAttempt, FunnelTypes
<1>5. PickedKnown' /\ RowsTold' /\ FailsWithNothing'
  BY DEF PickedKnown, RowsTold, FailsWithNothing
<1>6. MacroFirst'
  BY DEF FunnelIInv, MacroFirst
<1>7. PortfolioKept'
  BY <1>1 DEF FunnelIInv, PortfolioKept, FunnelTypes
<1>8. PortfolioComplete'
  BY DEF FunnelIInv, FunnelSound, PortfolioComplete, CompanyKey
<1>9. SelectionBounded'
  <2>1. ASSUME NEW a \in 1..tries'
        PROVE  Cardinality({c \in DOMAIN theses : theses[c].attempt = a}) <= MaxCompanies
    <3>1. CASE a = tries'
      <4>1. {c \in DOMAIN theses : theses[c].attempt = a} = {}
        BY <1>1, <1>3, <3>1 DEF FunnelTypes
      <4>2. MaxCompanies \in Nat
        BY FunnelAssumption
      <4> QED BY <4>1, <4>2, FS_EmptySet
    <3>2. CASE a # tries'
      <4>1. a \in 1..tries
        BY <1>1, <3>2
      <4> QED BY <4>1 DEF FunnelIInv, FunnelSound, SelectionBounded
    <3> QED BY <3>1, <3>2
  <2> QED BY <2>1 DEF FunnelIInv, FunnelSound, SelectionBounded
<1> QED BY <1>2, <1>4, <1>5, <1>6, <1>7, <1>8, <1>9 DEF FunnelIInv, FunnelSound


LEMMA WriteMacroKeeps == ASSUME FunnelIInv, WriteMacro PROVE FunnelIInv'
<1> USE DEF WriteMacro, StartFanout
<1>1. PICK m \in MacroContents : /\ macro' = [brief |-> m, attempt |-> tries]
                                 /\ picked' = SelectSectors(m)
                                 /\ item' = [i \in DOMAIN picked' |-> "waiting"]
  OBVIOUS
<1>2. /\ sectors = Empty /\ portfolio = Missing /\ tries \in Nat \ {0}
      /\ DOMAIN sectors = {} /\ FunnelTypes
  BY DEF FunnelIInv, FunnelTypes, MacroFirst, Empty
<1>3. macro' # Missing /\ macro'.brief = m
  <2>1. macro'.attempt # 0
    BY <1>1, <1>2
  <2> QED BY <1>1, <2>1 DEF Missing
<1>4. /\ stage' = "sectors" /\ stage' \in FunnelStages
      /\ UNCHANGED <<sectors, theses, portfolio, tries>>
  BY DEF FunnelStages
<1>5. picked' \in Seq(Items)
  <2>1. picked' \in Seq({v \in Items : v.idea = 0})
    BY <1>1, SectorsSelected
  <2> QED BY <2>1
<1>6. item' \in Seq(ItemStates) /\ Len(item') = Len(picked')
  BY <1>1, <1>5, Waiting
<1>7. FunnelTypes'
  BY <1>2, <1>3, <1>4, <1>5, <1>6 DEF FunnelTypes, SectorRows, ThesisRows
<1>8. MacroFirst' /\ PickedKnown' /\ PortfolioKept' /\ FailsWithNothing' /\ PortfolioComplete'
  BY <1>1, <1>2, <1>3, <1>4
     DEF MacroFirst, PickedKnown, PortfolioKept, FailsWithNothing, PortfolioComplete
<1>9. ThesesOfAttempt'
  BY <1>4 DEF FunnelIInv, ThesesOfAttempt
<1>10. RowsTold'
  BY <1>2, <1>4 DEF RowsTold
<1>11. SelectionBounded'
  BY <1>2, <1>4 DEF FunnelIInv, FunnelSound, SelectionBounded
<1> QED BY <1>7, <1>8, <1>9, <1>10, <1>11 DEF FunnelIInv, FunnelSound

(* A portfolio stays complete when rows are added by a later attempt.      *)
LEMMA PortfolioGrows ==
  ASSUME FunnelIInv, UNCHANGED <<macro, portfolio>>,
         DOMAIN sectors \subseteq DOMAIN sectors', DOMAIN theses \subseteq DOMAIN theses',
         \A s \in DOMAIN sectors : sectors'[s] = sectors[s],
         \A c \in DOMAIN theses : theses'[c] = theses[c],
         \A s \in DOMAIN sectors' \ DOMAIN sectors : sectors'[s].attempt = tries,
         \A c \in DOMAIN theses' \ DOMAIN theses : theses'[c].attempt = tries,
         stage \notin {"belief_update", "succeeded", "paused"}
  PROVE  PortfolioComplete'
<1> SUFFICES ASSUME portfolio # Missing PROVE PortfolioComplete'
  BY DEF PortfolioComplete
<1> DEFINE p == portfolio.brief
           listed == {sectors[p.sectors[n]] : n \in DOMAIN p.sectors}
                     \cup {theses[p.companies[n]] : n \in DOMAIN p.companies}
<1>1. /\ portfolio.attempt < tries
      /\ \A n \in DOMAIN p.sectors : p.sectors[n] \in DOMAIN sectors
      /\ \A n \in DOMAIN p.companies : p.companies[n] \in DOMAIN theses
      /\ portfolio.attempt \in Nat /\ tries \in Nat
  BY DEF FunnelIInv, PortfolioKept, FunnelTypes
<1>2. /\ \A s \in DOMAIN sectors \ ToSet(p.sectors) : sectors[s].attempt > portfolio.attempt
      /\ \A c \in DOMAIN theses \ ToSet(p.companies) : theses[c].attempt > portfolio.attempt
      /\ p.verified <=> macro.brief.verified /\ \A r \in listed : r.brief.verified
      /\ \A r \in listed : r.brief.claims \subseteq p.claims
      /\ \A n, k \in DOMAIN p.companies :
           n < k => ~Precedes(CompanyKey(p.companies[k]), CompanyKey(p.companies[n]))
      /\ p.coverage[1].selected = Len(p.sectors) /\ p.coverage[2].selected = Len(p.companies)
  BY DEF FunnelIInv, FunnelSound, PortfolioComplete
<1>3. \A s \in DOMAIN sectors' \ ToSet(p.sectors) : sectors'[s].attempt > portfolio.attempt
  BY <1>1, <1>2
<1>4. \A c \in DOMAIN theses' \ ToSet(p.companies) : theses'[c].attempt > portfolio.attempt
  BY <1>1, <1>2
<1>5. listed' = listed
  BY <1>1
<1>6. \A n \in DOMAIN p.companies : CompanyKey(p.companies[n])' = CompanyKey(p.companies[n])
  BY <1>1 DEF CompanyKey
<1>7. p' = p /\ portfolio' = portfolio /\ macro' = macro
  OBVIOUS
<1> HIDE DEF listed
<1>8. /\ (p.verified <=> macro.brief.verified /\ \A r \in listed : r.brief.verified)'
      /\ (\A r \in listed : r.brief.claims \subseteq p.claims)'
  BY <1>2, <1>5, <1>7
<1>9. (\A n, k \in DOMAIN p.companies :
           n < k => ~Precedes(CompanyKey(p.companies[k]), CompanyKey(p.companies[n])))'
  BY <1>2, <1>6, <1>7
<1> QED BY <1>2, <1>3, <1>4, <1>7, <1>8, <1>9 DEF PortfolioComplete, listed

LEMMA UpTo ==
  ASSUME NEW n \in Nat PROVE IsFiniteSet(1..n) /\ Cardinality(1..n) = n
BY FS_Interval

LEMMA SaveSectorKeeps ==
  ASSUME FunnelIInv, NEW i \in DOMAIN item, SaveSector(i) PROVE FunnelIInv'
<1>1. CASE HasRow(i)
  <2>1. "failed" \in ItemStates
    BY DEF ItemStates
  <2> QED BY <1>1, <2>1, TaskKeeps DEF SaveSector, rowVars
<1>2. CASE ~HasRow(i)
  <2> DEFINE s == picked[i].sector
  <2>1. PICK b \in SectorContents : sectors' = With(sectors, s, [brief |-> b, attempt |-> tries])
    BY <1>2 DEF SaveSector
  <2>2. /\ stage = "sectors" /\ UNCHANGED <<macro, theses, portfolio, stage, picked, tries>>
        /\ item' = [item EXCEPT ![i] = "persisted"] /\ "persisted" \in ItemStates
        /\ s \notin DOMAIN sectors
    BY <1>2 DEF SaveSector, ItemStates, HasRow
  <2>3. FunnelTypes
    BY DEF FunnelIInv
  <2>4. /\ item' \in Seq(ItemStates) /\ Len(item') = Len(item) /\ i \in DOMAIN picked
        /\ DOMAIN picked = DOMAIN item /\ DOMAIN item' = DOMAIN item
        /\ item'[i] = "persisted" /\ \A k \in DOMAIN item : k # i => item'[k] = item[k]
    BY <2>2, <2>3, ItemMoves
  <2>5. /\ DOMAIN sectors' = DOMAIN sectors \cup {s}
        /\ sectors'[s] = [brief |-> b, attempt |-> tries]
        /\ \A x \in DOMAIN sectors : sectors'[x] = sectors[x]
        /\ sectors' = [x \in DOMAIN sectors' |-> sectors'[x]]
    <3> DEFINE r == [brief |-> b, attempt |-> tries]
               W == With(sectors, s, r)
    <3> HIDE DEF r, s
    <3>1. /\ DOMAIN W = DOMAIN sectors \cup {s} /\ W[s] = r
          /\ \A x \in DOMAIN sectors : x # s => W[x] = sectors[x]
      BY DEF With
    <3>3. W = [x \in DOMAIN W |-> W[x]]
      BY DEF With
    <3> USE DEF r
    <3>2. sectors' = W
      BY <2>1
    <3> HIDE DEF W
    <3> QED BY <2>2, <3>1, <3>2, <3>3
  <2>6. macro # Missing /\ macro.brief \in MacroContents
    BY <2>2 DEF FunnelIInv, MacroFirst, FunnelTypes
  <2>7. picked[i] \in {v \in Items : v.idea = 0} /\ picked[i] \in ToSet(SelectSectors(macro.brief))
    <3>1. picked = SelectSectors(macro.brief)
      BY <2>2 DEF FunnelIInv, PickedKnown
    <3>2. picked \in Seq({v \in Items : v.idea = 0})
      BY <2>6, <3>1, SectorsSelected
    <3>3. picked[i] \in {v \in Items : v.idea = 0}
      BY <2>4, <3>2
    <3> QED BY <2>4, <3>1, <3>3 DEF ToSet
  <2>8. s \in Int /\ picked[i] = [idea |-> 0, sector |-> s]
    BY <2>7 DEF Items
  <2>9. IsFiniteSet(DOMAIN sectors')
    BY <2>3, <2>5, FS_AddElement DEF FunnelTypes, SectorRows
  <2> HIDE DEF s
  <2>10. SectorRows(sectors') /\ tries \in Nat \ {0}
    BY <2>3, <2>5, <2>8, <2>9 DEF FunnelTypes, SectorRows
  <2>11. ThesisRows(theses, DOMAIN sectors')
    BY <2>3, <2>5, <2>10 DEF FunnelTypes, ThesisRows, SectorRows
  <2>12. \A x \in DOMAIN sectors' : sectors'[x].attempt \in 1..tries
    BY <2>3, <2>5, <2>10 DEF FunnelTypes
  <2>13. FunnelTypes'
    BY <2>2, <2>3, <2>4, <2>5, <2>10, <2>11, <2>12 DEF FunnelTypes
  <2>14. MacroFirst'
    BY <2>2, <2>6 DEF MacroFirst
  <2>15. PickedKnown' /\ ThesesOfAttempt'
    BY <2>2 DEF FunnelIInv, PickedKnown, ThesesOfAttempt
  <2>16. ASSUME NEW x \in DOMAIN sectors'
         PROVE  \/ \A k \in DOMAIN picked :
                      picked[k].sector = x => item'[k] \in {"waiting", "persisted"}
                \/ \E k \in DOMAIN picked : picked[k].sector = x /\ item'[k] = "persisted"
    <3>1. CASE x = s
      BY <2>4, <3>1 DEF s
    <3>2. CASE x # s
      <4>1. \/ \A k \in DOMAIN picked :
                   picked[k].sector = x => item[k] \in {"waiting", "persisted"}
            \/ \E k \in DOMAIN picked : picked[k].sector = x /\ item[k] = "persisted"
        BY <2>2, <2>5, <3>2 DEF FunnelIInv, RowsTold
      <4> QED BY <2>4, <4>1
    <3> QED BY <3>1, <3>2
  <2>17. RowsTold'
    BY <2>2, <2>16 DEF RowsTold
  <2>18. PortfolioKept'
    BY <2>2, <2>5 DEF FunnelIInv, PortfolioKept
  <2>19. PortfolioComplete'
    BY <2>2, <2>5, PortfolioGrows
  <2>20. SelectionBounded'
    BY <2>2, <2>5, <2>7, <2>8 DEF FunnelIInv, FunnelSound, SelectionBounded
  <2>21. FailsWithNothing'
    BY <2>2 DEF FailsWithNothing
  <2> QED BY <2>13, <2>14, <2>15, <2>17, <2>18, <2>19, <2>20, <2>21 DEF FunnelIInv, FunnelSound
<1> QED BY <1>1, <1>2


LEMMA SaveThesisKeeps ==
  ASSUME FunnelIInv, NEW i \in DOMAIN item, SaveThesis(i) PROVE FunnelIInv'
<1>1. CASE HasRow(i)
  <2>1. "failed" \in ItemStates
    BY DEF ItemStates
  <2> QED BY <1>1, <2>1, TaskKeeps DEF SaveThesis, rowVars
<1>2. CASE ~HasRow(i)
  <2> DEFINE c == Entity[picked[i].idea]
             new(b) == [brief |-> b, idea |-> picked[i].idea, sector |-> picked[i].sector,
                        attempt |-> tries]
  <2>1. PICK b \in ThesisContents : theses' = With(theses, c, new(b))
    BY <1>2 DEF SaveThesis
  <2>2. /\ stage = "companies" /\ UNCHANGED <<macro, sectors, portfolio, stage, picked, tries>>
        /\ item' = [item EXCEPT ![i] = "persisted"] /\ "persisted" \in ItemStates
        /\ c \notin DOMAIN theses
    BY <1>2 DEF SaveThesis, ItemStates, HasRow
  <2>3. FunnelTypes
    BY DEF FunnelIInv
  <2>4. /\ item' \in Seq(ItemStates) /\ Len(item') = Len(item) /\ i \in DOMAIN picked
        /\ DOMAIN picked = DOMAIN item /\ DOMAIN item' = DOMAIN item
        /\ item'[i] = "persisted" /\ \A k \in DOMAIN item : k # i => item'[k] = item[k]
    BY <2>2, <2>3, ItemMoves
  <2>5. /\ DOMAIN theses' = DOMAIN theses \cup {c}
        /\ theses'[c] = new(b)
        /\ \A x \in DOMAIN theses : theses'[x] = theses[x]
    <3> DEFINE r == new(b)
               W == With(theses, c, r)
    <3> HIDE DEF r, c
    <3>1. /\ DOMAIN W = DOMAIN theses \cup {c} /\ W[c] = r
          /\ \A x \in DOMAIN theses : x # c => W[x] = theses[x]
      BY DEF With
    <3>2. theses' = W /\ r = new(b)
      BY <2>1 DEF r
    <3> HIDE DEF W
    <3> QED BY <2>2, <3>1, <3>2
  <2>6. picked[i] \in Items /\ picked[i].sector \in DOMAIN sectors
    <3>1. picked \in Seq(Items)
      BY <2>3 DEF FunnelTypes
    <3>2. picked[i] \in Items
      BY <2>4, <3>1
    <3> QED BY <2>2, <2>4, <3>2 DEF FunnelIInv, PickedKnown
  <2>7. macro # Missing
    BY <2>2 DEF FunnelIInv, MacroFirst
  <2>8. /\ theses'[c].attempt = tries /\ theses'[c].brief \in ThesisContents
        /\ theses'[c].idea \in Int /\ Entity[theses'[c].idea] = c
        /\ theses'[c].sector \in DOMAIN sectors
    BY <2>5, <2>6 DEF Items
  <2> HIDE DEF c, new
  <2>9. IsFiniteSet(DOMAIN theses')
    <3>1. IsFiniteSet(DOMAIN theses)
      BY <2>3 DEF FunnelTypes, ThesisRows
    <3> QED BY <2>5, <3>1, FS_AddElement
  <2>10. ThesisRows(theses', DOMAIN sectors) /\ tries \in Nat \ {0}
    BY <2>3, <2>5, <2>8, <2>9 DEF FunnelTypes, ThesisRows
  <2>11. \A x \in DOMAIN theses' : theses'[x].attempt \in 1..tries
    BY <2>3, <2>5, <2>8, <2>10 DEF FunnelTypes
  <2>12. FunnelTypes'
    BY <2>2, <2>3, <2>4, <2>10, <2>11 DEF FunnelTypes, SectorRows
  <2>13. MacroFirst'
    BY <2>2, <2>7 DEF MacroFirst
  <2>14. PickedKnown'
    BY <2>2 DEF FunnelIInv, PickedKnown
  <2>15. ThesesOfAttempt'
    <3>1. ASSUME NEW x \in DOMAIN theses', theses'[x].attempt = tries
          PROVE  \E k \in DOMAIN picked : x = Entity[picked[k].idea]
      <4>1. CASE x = c
        BY <2>4, <4>1 DEF c
      <4>2. CASE x # c
        BY <2>2, <2>5, <3>1, <4>2 DEF FunnelIInv, ThesesOfAttempt
      <4> QED BY <4>1, <4>2
    <3> QED BY <2>2, <3>1 DEF ThesesOfAttempt
  <2>16. ASSUME NEW x \in DOMAIN theses'
         PROVE  \/ \A k \in DOMAIN picked :
                      Entity[picked[k].idea] = x => item'[k] \in {"waiting", "persisted"}
                \/ \E k \in DOMAIN picked : Entity[picked[k].idea] = x /\ item'[k] = "persisted"
    <3>1. CASE x = c
      BY <2>4, <3>1 DEF c
    <3>2. CASE x # c
      <4>1. \/ \A k \in DOMAIN picked :
                   Entity[picked[k].idea] = x => item[k] \in {"waiting", "persisted"}
            \/ \E k \in DOMAIN picked : Entity[picked[k].idea] = x /\ item[k] = "persisted"
        BY <2>2, <2>5, <3>2 DEF FunnelIInv, RowsTold
      <4> QED BY <2>4, <4>1
    <3> QED BY <3>1, <3>2
  <2>17. RowsTold'
    BY <2>2, <2>16 DEF RowsTold
  <2>18. PortfolioKept'
    BY <2>2, <2>5 DEF FunnelIInv, PortfolioKept
  <2>19. PortfolioComplete'
    BY <2>2, <2>5, <2>8, PortfolioGrows
  <2>20. ASSUME NEW a \in 1..tries
         PROVE  Cardinality({x \in DOMAIN theses' : theses'[x].attempt = a}) <= MaxCompanies
    <3>1. CASE a = tries
      <4> DEFINE P == DOMAIN picked
                 f == [k \in P |-> Entity[picked[k].idea]]
                 Q == {Entity[picked[k].idea] : k \in P}
                 R == {x \in DOMAIN theses' : theses'[x].attempt = a}
      <4>1. f \in Surjection(P, Q)
        BY DEF Surjection
      <4>2. IsFiniteSet(P) /\ Cardinality(P) <= MaxCompanies /\ Cardinality(P) \in Nat
        <5>1. P = 1..Len(picked) /\ Len(picked) \in Nat /\ Len(picked) <= MaxCompanies
          BY <2>2, <2>3 DEF FunnelTypes, FunnelIInv, PickedKnown
        <5> HIDE DEF P
        <5>2. IsFiniteSet(1..Len(picked)) /\ Cardinality(1..Len(picked)) = Len(picked)
          BY <5>1, UpTo
        <5> QED BY <5>1, <5>2
      <4>3. R \in SUBSET Q
        BY <2>2, <2>15, <3>1 DEF ThesesOfAttempt
      <4> HIDE DEF P, f, Q, R
      <4>4. IsFiniteSet(Q) /\ Cardinality(Q) <= Cardinality(P)
        BY <4>1, <4>2, FS_Surjection
      <4>5. IsFiniteSet(R) /\ Cardinality(R) <= Cardinality(Q)
        BY <4>3, <4>4, FS_Subset
      <4>6. Cardinality(R) \in Nat /\ Cardinality(Q) \in Nat /\ MaxCompanies \in Nat
        BY <4>4, <4>5, FS_CardinalityType, FunnelAssumption
      <4> QED BY <4>2, <4>4, <4>5, <4>6 DEF R
    <3>2. CASE a # tries
      <4>1. {x \in DOMAIN theses' : theses'[x].attempt = a}
            = {x \in DOMAIN theses : theses[x].attempt = a}
        BY <2>5, <2>8, <3>2
      <4> QED BY <4>1 DEF FunnelIInv, FunnelSound, SelectionBounded
    <3> QED BY <3>1, <3>2
  <2>21. SelectionBounded'
    BY <2>2, <2>10, <2>20 DEF FunnelIInv, FunnelSound, SelectionBounded, ThesisRows
  <2>22. FailsWithNothing'
    BY <2>2 DEF FailsWithNothing
  <2> QED BY <2>12, <2>13, <2>14, <2>15, <2>17, <2>18, <2>19, <2>21, <2>22
          DEF FunnelIInv, FunnelSound
<1> QED BY <1>1, <1>2

LEMMA WritePortfolioKeeps == ASSUME FunnelIInv, WritePortfolio PROVE FunnelIInv'
<1> USE DEF WritePortfolio
<1>1. /\ stage = "portfolio" /\ stage' = "belief_update" /\ stage' \in FunnelStages
      /\ UNCHANGED <<macro, sectors, theses, picked, item, tries>>
      /\ macro # Missing /\ FunnelTypes
  BY DEF FunnelStages, FunnelIInv, MacroFirst
<1>2. PickedKnown' /\ RowsTold' /\ FailsWithNothing'
  BY <1>1 DEF PickedKnown, RowsTold, FailsWithNothing
<1>3. ThesesOfAttempt'
  BY <1>1 DEF FunnelIInv, ThesesOfAttempt
<1>4. CASE portfolio # Missing
  <2>1. portfolio' = portfolio
    BY <1>4
  <2>2. picked' \in Seq(Items) /\ item' \in Seq(ItemStates) /\ Len(item') = Len(picked')
    BY <1>1 DEF FunnelTypes
  <2> QED BY <1>1, <1>2, <1>3, <2>1, <2>2, QuietKeeps DEF rowVars
<1>5. CASE portfolio = Missing
  <2> DEFINE p == Aggregate
             listed == {sectors[p.sectors[n]] : n \in DOMAIN p.sectors}
                       \cup {theses[p.companies[n]] : n \in DOMAIN p.companies}
             S == Cardinality(DOMAIN sectors)
             T == Cardinality(DOMAIN theses)
  <2>1. portfolio' = [brief |-> p, attempt |-> tries] /\ tries \in Nat \ {0}
    BY <1>1, <1>5 DEF FunnelTypes
  <2>2. /\ p.sectors = SectorEntries /\ p.companies = CompanyEntries
        /\ p.claims = CollateClaims /\ p.verified = RollupVerified
        /\ p.coverage[1].selected = S /\ p.coverage[2].selected = T
    BY DEF Aggregate, Coverage
  <2>3. /\ S \in Nat /\ SectorEntries \in [1..S -> DOMAIN sectors]
        /\ \A s \in DOMAIN sectors : \E n \in 1..S : SectorEntries[n] = s
    BY <1>1, SectorsListed DEF FunnelTypes
  <2>4. /\ T \in Nat /\ CompanyEntries \in [1..T -> DOMAIN theses]
        /\ \A c \in DOMAIN theses : \E n \in 1..T : CompanyEntries[n] = c
        /\ \A n, k \in 1..T :
             n < k => ~Precedes(CompanyKey(CompanyEntries[k]), CompanyKey(CompanyEntries[n]))
    BY <1>1, CompaniesListed DEF FunnelTypes
  <2> HIDE DEF p, S, T
  <2>5. /\ DOMAIN p.sectors = 1..S /\ DOMAIN p.companies = 1..T
        /\ Len(p.sectors) = S /\ Len(p.companies) = T
    BY <2>2, <2>3, <2>4
  <2>6. /\ \A s \in DOMAIN sectors : s \in ToSet(p.sectors)
        /\ \A c \in DOMAIN theses : c \in ToSet(p.companies)
    BY <2>2, <2>3, <2>4, <2>5 DEF ToSet
  <2>7. listed = {sectors[s] : s \in DOMAIN sectors} \cup {theses[c] : c \in DOMAIN theses}
    <3>1. {sectors[p.sectors[n]] : n \in DOMAIN p.sectors} = {sectors[s] : s \in DOMAIN sectors}
      BY <2>2, <2>3, <2>5
    <3>2. {theses[p.companies[n]] : n \in DOMAIN p.companies} = {theses[c] : c \in DOMAIN theses}
      BY <2>2, <2>4, <2>5
    <3> QED BY <3>1, <3>2
  <2> HIDE DEF listed
  <2>8. Upstream = {macro.brief} \cup {r.brief : r \in listed}
    BY <2>7 DEF Upstream
  <2>9. p.verified <=> macro.brief.verified /\ \A r \in listed : r.brief.verified
    <3>1. RollupVerified <=> macro.brief.verified /\ \A r \in listed : r.brief.verified
      BY <2>8, Zenon DEF RollupVerified
    <3> QED BY <2>2, <3>1
  <2>10. \A r \in listed : r.brief.claims \subseteq p.claims
    BY <2>2, <2>8 DEF CollateClaims
  <2>11. \A n, k \in DOMAIN p.companies :
            n < k => ~Precedes(CompanyKey(p.companies[k]), CompanyKey(p.companies[n]))
    BY <2>2, <2>4, <2>5
  <2>12. portfolio'.brief = p /\ portfolio'.attempt = tries
    BY <2>1
  <2>13. PortfolioComplete'
    <3>1. \A c \in DOMAIN theses : CompanyKey(c)' = CompanyKey(c)
      BY <1>1 DEF CompanyKey
    <3>2. \A n \in DOMAIN p.companies : p.companies[n] \in DOMAIN theses
      BY <2>2, <2>4, <2>5
    <3> DEFINE summed == portfolio.brief
               shown == {sectors[summed.sectors[n]] : n \in DOMAIN summed.sectors}
                        \cup {theses[summed.companies[n]] : n \in DOMAIN summed.companies}
    <3>4. summed' = p /\ shown' = listed /\ macro' = macro
      BY <1>1, <2>12 DEF listed
    <3>5. /\ (\A s \in DOMAIN sectors \ ToSet(summed.sectors) :
                sectors[s].attempt > portfolio.attempt)'
          /\ (\A c \in DOMAIN theses \ ToSet(summed.companies) :
                theses[c].attempt > portfolio.attempt)'
      BY <1>1, <2>6, <3>4
    <3> HIDE DEF shown
    <3>6. /\ (summed.verified <=> macro.brief.verified /\ \A r \in shown : r.brief.verified)'
          /\ (\A r \in shown : r.brief.claims \subseteq summed.claims)'
      BY <2>9, <2>10, <3>4
    <3>7. (\A n, k \in DOMAIN summed.companies :
             n < k => ~Precedes(CompanyKey(summed.companies[k]),
                                CompanyKey(summed.companies[n])))'
      <4>1. PICK v : v = p.companies
        OBVIOUS
      <4>2. summed.companies' = v
        BY <3>4, <4>1
      <4>3. \A n \in DOMAIN v : v[n] \in DOMAIN theses
        BY <3>2, <4>1
      <4>4. \A n \in DOMAIN v : CompanyKey(v[n])' = CompanyKey(v[n])
        BY <3>1, <4>3
      <4>5. \A n, k \in DOMAIN v :
              n < k => ~Precedes(CompanyKey(v[k])', CompanyKey(v[n])')
        BY <2>11, <4>1, <4>4
      <4> HIDE DEF summed
      <4> QED BY <4>2, <4>5
    <3>8. (/\ summed.coverage[1].selected = Len(summed.sectors)
           /\ summed.coverage[2].selected = Len(summed.companies))'
      BY <2>2, <2>5, <3>4
    <3> QED BY <3>5, <3>6, <3>7, <3>8 DEF PortfolioComplete, shown
  <2>14. PortfolioKept'
    BY <1>1, <2>2, <2>3, <2>4, <2>5, <2>12 DEF PortfolioKept
  <2>15. FunnelTypes'
    BY <1>1, <2>1, <2>12 DEF FunnelTypes, SectorRows, ThesisRows
  <2>16. MacroFirst'
    BY <1>1 DEF MacroFirst
  <2>17. SelectionBounded'
    BY <1>1 DEF FunnelIInv, FunnelSound, SelectionBounded
  <2> QED BY <1>2, <1>3, <2>13, <2>14, <2>15, <2>16, <2>17 DEF FunnelIInv, FunnelSound
<1> QED BY <1>4, <1>5

LEMMA FunnelKept == FunnelIInv /\ [FunnelNext]_funnelVars => FunnelIInv'
<1> SUFFICES ASSUME FunnelIInv, [FunnelNext]_funnelVars PROVE FunnelIInv'
  OBVIOUS
<1>1. CASE UNCHANGED funnelVars
  <2>1. /\ stage' \in FunnelStages /\ picked' \in Seq(Items) /\ item' \in Seq(ItemStates)
        /\ Len(item') = Len(picked')
    BY <1>1 DEF funnelVars, FunnelIInv, FunnelTypes
  <2>2. PickedKnown' /\ ThesesOfAttempt' /\ RowsTold' /\ FailsWithNothing'
    BY <1>1 DEF funnelVars, FunnelIInv, FunnelSound, PickedKnown, ThesesOfAttempt, RowsTold,
                FailsWithNothing
  <2>3. /\ stage' \notin {"macro", "macro_failed", "paused"} => macro # Missing
        /\ portfolio # Missing /\ stage' \notin {"belief_update", "succeeded", "paused"} =>
               portfolio.attempt < tries
    BY <1>1 DEF funnelVars, FunnelIInv, MacroFirst, PortfolioKept
  <2> QED BY <1>1, <2>1, <2>2, <2>3, QuietKeeps DEF funnelVars, rowVars
<1>2. CASE FunnelNext
  BY <1>2, WriteMacroKeeps, LoadMacroKeeps, MacroFailsKeeps, CheckItemKeeps, SaveSectorKeeps,
     SaveThesisKeeps, SectorsOverKeeps, CompaniesOverKeeps, WritePortfolioKeeps, EndKeeps,
     ResumeKeeps
     DEF FunnelNext
<1> QED BY <1>1, <1>2

(* However many attempts, and whatever is selected: the portfolio lists    *)
(* every brief of its attempt by rank and says verified of all of them, an *)
(* attempt adds no more theses than may be selected, each of a sector with *)
(* a brief, and a fan-out fails the run only with nothing to show          *)
(* (strategies/funnel_research/).                                          *)
THEOREM FunnelIsSound == FunnelSpec => []FunnelSound
<1>1. FunnelInit => FunnelIInv
  BY FunnelStarts
<1>2. FunnelIInv /\ [FunnelNext]_funnelVars => FunnelIInv'
  BY FunnelKept
<1>3. FunnelIInv => FunnelSound
  BY DEF FunnelIInv
<1> QED BY <1>1, <1>2, <1>3, PTL DEF FunnelSpec

=============================================================================
