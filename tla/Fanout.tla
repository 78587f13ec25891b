------------------------------- MODULE Fanout -------------------------------
(***************************************************************************)
(* One fan-out stage of the funnel (strategies/funnel_research/sector and  *)
(* company: runner.py, extraction.py; the two are alike): an asyncio task  *)
(* per item under a semaphore, in it a gather over the evidence chunks     *)
(* under a second one, then synthesis with regenerations, the judge, and   *)
(* the brief.  Every LLM call goes through LlmBudget; a budget halt pauses *)
(* or fails the run, fails its item, and makes the fan-out cancel the      *)
(* other items.                                                            *)
(*                                                                         *)
(* gather passes the first exception of a chunk on and leaves the other    *)
(* chunk tasks running: orphans, which the end of the job cancels.         *)
(***************************************************************************)
EXTENDS LlmBudget

CONSTANTS
    Items,         \* sectors or companies selected
    Chunks,        \* evidence chunks of an item
    ItemLimit,     \* SECTOR_FANOUT_CONCURRENCY
    ChunkLimit,    \* _EXTRACTION_CONCURRENCY
    MaxRegens,     \* MAX_REGENERATIONS
    Run,           \* the run the fan-out belongs to
    Main           \* in place of a chunk: the item's own task

ItemCallers == Items \X (Chunks \cup {Main})

ASSUME FanoutAssumption ==
    /\ Callers = ItemCallers
    /\ Run \in Runs /\ \A c \in Callers : RunOf[c] = Run
    /\ Main \notin Chunks
    /\ {"extraction", "synthesis", "judge"} \subseteq Stages
    /\ ItemLimit \in Nat \ {0} /\ ChunkLimit \in Nat \ {0} /\ MaxRegens \in Nat

VARIABLES
    item,      \* how far each item's task is
    todo,      \* chunks of an item that no task has begun
    regens,    \* regenerations of an item so far
    briefs,    \* items whose brief is persisted
    fanout,    \* the fan-out itself, and the job around it
    status     \* research_runs.status

itemVars == <<item, todo, regens, briefs>>
vars == <<llmVars, itemVars, fanout, status>>

-----------------------------------------------------------------------------
(* halting, failing: an exception is on its way out of the item's task.    *)
ItemPC == {"queued", "fetching", "extracting", "synth", "judge", "saving",
           "persisted", "skipped", "failed", "halting", "failing", "halted", "cancelled"}
Over == {"persisted", "skipped", "failed", "halted", "cancelled"}
Active == {i \in Items : item[i] \notin Over \cup {"queued"}}
Pending == {i \in Items : item[i] \notin Over}

TypeOK ==
    /\ call \in [Callers -> Call]
    /\ ledger \in [Runs -> [Stages -> Nat]]
    /\ item \in [Items -> ItemPC]
    /\ todo \in [Items -> SUBSET Chunks]
    /\ regens \in [Items -> 0..MaxRegens]
    /\ briefs \subseteq Items
    /\ fanout \in {"running", "done", "halted", "ended"}
    /\ status \in {"running", "paused", "failed", "cancelled"}

(* A resumed run finds the briefs of its earlier jobs.                     *)
Init ==
    /\ call = [c \in Callers |-> NoCall]
    /\ ledger = [r \in Runs |-> [s \in Stages |-> 0]]
    /\ item = [i \in Items |-> "queued"]
    /\ todo = [i \in Items |-> {}]
    /\ regens = [i \in Items |-> 0]
    /\ briefs \in SUBSET Items
    /\ fanout = "running"
    /\ status = "running"

Goto(i, pc) == item' = [item EXCEPT ![i] = pc]

-----------------------------------------------------------------------------
(* _run_one_sector up to the extraction.                                   *)

(* Mutant of Start: the persisted check is left out.                       *)
StartUnchecked(i) ==
    /\ item[i] = "queued" /\ fanout = "running"
    /\ Cardinality(Active) < ItemLimit
    /\ Goto(i, "fetching")
    /\ UNCHANGED <<llmVars, todo, regens, briefs, fanout, status>>

(* The semaphore lets the item in; an item with a brief is over at once.   *)
Start(i) ==
    /\ item[i] = "queued" /\ fanout = "running"
    /\ Cardinality(Active) < ItemLimit
    /\ Goto(i, IF i \in briefs THEN "persisted" ELSE "fetching")
    /\ UNCHANGED <<llmVars, todo, regens, briefs, fanout, status>>

(* Evidence is fetched; there may be none, or the fetch may raise.         *)
Fetch(i) ==
    /\ item[i] = "fetching"
    /\ \/ Goto(i, "extracting") /\ todo' = [todo EXCEPT ![i] = Chunks]
       \/ Goto(i, "skipped") /\ UNCHANGED todo
       \/ Goto(i, "failed") /\ UNCHANGED todo
    /\ UNCHANGED <<call, ledger, regens, briefs, fanout, status>>

-----------------------------------------------------------------------------
(* extract_sector_chunks: the chunk tasks, orphans included.               *)

ChunksAtWork(i) == {k \in Chunks : Busy(<<i, k>>)}

StartChunk(i, k) ==
    /\ k \in todo[i]
    /\ Cardinality(ChunksAtWork(i)) < ChunkLimit
    /\ todo' = [todo EXCEPT ![i] = @ \ {k}]
    /\ call' = [call EXCEPT ![<<i, k>>] = CallingFor("extraction")]
    /\ UNCHANGED <<ledger, item, regens, briefs, fanout, status>>

(* The result is valid, or an ExtractionError that becomes a warning.      *)
ChunkDone(i, k) ==
    /\ call[<<i, k>>].pc = "allowed"
    /\ call' = [call EXCEPT ![<<i, k>>] = NoCall]
    /\ UNCHANGED <<ledger, itemVars, fanout, status>>

(* The exception of the first chunk to raise is the one the gather passes  *)
(* on to the item's task.                                                  *)
Raise(i, pc) == IF item[i] \in {"extracting", "synth", "judge"}
                THEN Goto(i, pc) ELSE UNCHANGED item

(* Mutant of ChunkFails: the task ends and nobody hears of it.             *)
ChunkFailsSilently(i, k) ==
    /\ call[<<i, k>>].pc = "error"
    /\ UNCHANGED <<llmVars, itemVars, fanout, status>>

(* What OpenAI raised is no ExtractionError and goes through.              *)
ChunkFails(i, k) ==
    /\ call[<<i, k>>].pc = "error"
    /\ call' = [call EXCEPT ![<<i, k>>] = NoCall]
    /\ Raise(i, "failing")
    /\ UNCHANGED <<ledger, todo, regens, briefs, fanout, status>>

-----------------------------------------------------------------------------
(* A budget halt, of a chunk or of the item's own task.                    *)

(* Mutant of Halt: the exception is raised without the orchestrator.       *)
HaltUnrouted(i, k) ==
    /\ call[<<i, k>>].pc \in {"paused", "killed"}
    /\ call' = [call EXCEPT ![<<i, k>>] = NoCall]
    /\ Raise(i, "halting")
    /\ UNCHANGED <<ledger, todo, regens, briefs, fanout, status>>

(* orchestrator.pause raises on a run that is over, and then it is that    *)
(* exception which leaves the task; orchestrator.fail returns silently.    *)
Halt(i, k) ==
    /\ call[<<i, k>>].pc \in {"paused", "killed"}
    /\ call' = [call EXCEPT ![<<i, k>>] = NoCall]
    /\ IF call[<<i, k>>].pc = "paused"
       THEN IF status \in {"running", "paused"}
            THEN status' = "paused" /\ Raise(i, "halting")
            ELSE UNCHANGED status /\ Raise(i, "failing")
       ELSE /\ status' = IF status = "running" THEN "failed" ELSE status
            /\ Raise(i, "halting")
    /\ UNCHANGED <<ledger, todo, regens, briefs, fanout>>

-----------------------------------------------------------------------------
(* The rest of _run_one_sector.                                            *)

(* All chunks are done: candidates are persisted, synthesis begins.        *)
Synthesise(i) ==
    /\ item[i] = "extracting" /\ todo[i] = {} /\ ChunksAtWork(i) = {}
    /\ Goto(i, "synth")
    /\ call' = [call EXCEPT ![<<i, Main>>] = CallingFor("synthesis")]
    /\ UNCHANGED <<ledger, todo, regens, briefs, fanout, status>>

(* Mutant of Regenerate: without the limit.                                *)
RegenerateForever(i) ==
    /\ item[i] = "synth" /\ call[<<i, Main>>].pc = "allowed"
    /\ regens' = [regens EXCEPT ![i] = @ + 1]
    /\ call' = [call EXCEPT ![<<i, Main>>] = CallingFor("synthesis")]
    /\ UNCHANGED <<ledger, item, todo, briefs, fanout, status>>

(* The verifier rejects the brief.                                         *)
Regenerate(i) ==
    /\ item[i] = "synth" /\ call[<<i, Main>>].pc = "allowed"
    /\ regens[i] < MaxRegens
    /\ regens' = [regens EXCEPT ![i] = @ + 1]
    /\ call' = [call EXCEPT ![<<i, Main>>] = CallingFor("synthesis")]
    /\ UNCHANGED <<ledger, item, todo, briefs, fanout, status>>

(* It accepts it; or rejects it for the last time, and then the brief is   *)
(* kept as quote_unverified and not judged.                                *)
Verified(i) ==
    /\ item[i] = "synth" /\ call[<<i, Main>>].pc = "allowed"
    /\ \/ /\ Goto(i, "judge")
          /\ call' = [call EXCEPT ![<<i, Main>>] = CallingFor("judge")]
       \/ /\ regens[i] = MaxRegens
          /\ Goto(i, "saving")
          /\ call' = [call EXCEPT ![<<i, Main>>] = NoCall]
    /\ UNCHANGED <<ledger, todo, regens, briefs, fanout, status>>

(* The answer does not parse (FunnelResearchError), or OpenAI raised.      *)
SynthesisFails(i) ==
    /\ item[i] = "synth" /\ call[<<i, Main>>].pc \in {"allowed", "error"}
    /\ Goto(i, "failed")
    /\ call' = [call EXCEPT ![<<i, Main>>] = NoCall]
    /\ UNCHANGED <<ledger, todo, regens, briefs, fanout, status>>

(* The judge is advisory: its errors do not stop the item.                 *)
Judged(i) ==
    /\ item[i] = "judge" /\ call[<<i, Main>>].pc \in {"allowed", "error"}
    /\ Goto(i, "saving")
    /\ call' = [call EXCEPT ![<<i, Main>>] = NoCall]
    /\ UNCHANGED <<ledger, todo, regens, briefs, fanout, status>>

Save(i) ==
    /\ item[i] = "saving"
    /\ Goto(i, "persisted")
    /\ briefs' = briefs \cup {i}
    /\ UNCHANGED <<llmVars, todo, regens, fanout, status>>

(* An exception other than a halt leaves the task: a failed item, and its  *)
(* place is free while its orphans go on.                                  *)
ItemFails(i) ==
    /\ item[i] = "failing"
    /\ Goto(i, "failed")
    /\ UNCHANGED <<llmVars, todo, regens, briefs, fanout, status>>

-----------------------------------------------------------------------------
(* _await_with_halt_cancellation.                                          *)

(* What becomes of the pending items other than i: the commit of a brief   *)
(* may have got through; the chunk tasks of an item whose gather has       *)
(* already raised are no longer its children and are not cancelled.        *)
Stopped(j) ==
    CASE item[j] = "halting" -> "halted"
      [] item[j] = "failing" -> "failed"
      [] OTHER               -> "cancelled"
Children(i) ==
    {c \in ItemCallers : c[1] \in Pending \ {i} /\ Stopped(c[1]) = "cancelled"}

(* Mutant of ItemHalts: the other items are not cancelled.                 *)
ItemHaltsAlone(i) ==
    /\ item[i] = "halting" /\ fanout = "running"
    /\ fanout' = "halted"
    /\ Goto(i, "halted")
    /\ UNCHANGED <<llmVars, todo, regens, briefs, status>>

(* The halt leaves the task of i and the fan-out cancels the others, in    *)
(* one go: an item the semaphore lets in at that moment does not get past  *)
(* its first read.                                                         *)
ItemHalts(i) ==
    /\ item[i] = "halting" /\ fanout = "running"
    /\ fanout' = "halted"
    /\ item' = [j \in Items |-> IF j = i THEN "halted"
                                ELSE IF j \in Pending THEN Stopped(j) ELSE item[j]]
    /\ todo' = [j \in Items |-> IF j \in Pending \ {i} /\ Stopped(j) = "cancelled"
                                THEN {} ELSE todo[j]]
    /\ Cancelled(Children(i))
    /\ \E saved \in SUBSET {j \in Items : item[j] = "saving"} : briefs' = briefs \cup saved
    /\ UNCHANGED <<regens, status>>

FanoutDone ==
    /\ fanout = "running" /\ Pending = {}
    /\ fanout' = "done"
    /\ UNCHANGED <<llmVars, itemVars, status>>

(* The job is over, now or some stages later, and asyncio.run cancels what *)
(* is left of the chunk tasks.                                             *)
JobEnds ==
    /\ fanout \in {"done", "halted"}
    /\ fanout' = "ended"
    /\ todo' = [i \in Items |-> {}]
    /\ Cancelled(ItemCallers)
    /\ UNCHANGED <<item, regens, briefs, status>>

-----------------------------------------------------------------------------
(* A client cancels the run.                                               *)
UserCancel ==
    /\ status \in {"running", "paused"}
    /\ status' = "cancelled"
    /\ UNCHANGED <<llmVars, itemVars, fanout>>

-----------------------------------------------------------------------------
LlmStep(c) == CallStep(c) /\ UNCHANGED <<itemVars, fanout, status>>

ItemStep(i) ==
    \/ Start(i) \/ Fetch(i) \/ Synthesise(i) \/ Regenerate(i) \/ Verified(i)
    \/ SynthesisFails(i) \/ Judged(i) \/ Save(i) \/ ItemFails(i) \/ ItemHalts(i)
    \/ Halt(i, Main)
    \/ \E k \in Chunks :
          StartChunk(i, k) \/ ChunkDone(i, k) \/ ChunkFails(i, k) \/ Halt(i, k)

JobStep ==
    \/ \E c \in ItemCallers : LlmStep(c)
    \/ \E i \in Items : ItemStep(i)
    \/ FanoutDone
    \/ JobEnds

Next == JobStep \/ UserCancel

Spec == Init /\ [][Next]_vars

(* The event loop runs every task that can go on, and OpenAI answers or    *)
(* times out; clients owe nothing.                                         *)
FairSpec == Spec /\ WF_vars(JobStep)

-----------------------------------------------------------------------------
(* After a halt has stopped the fan-out only orphans still call OpenAI:    *)
(* chunk tasks of items that had raised by themselves (sector/runner.py:   *)
(* 160-161, "cancel the rest so we stop spending budget").                 *)
OnlyOrphansSpend ==
    fanout = "halted" =>
        \A i \in Items :
            /\ ~Busy(<<i, Main>>)
            /\ todo[i] # {} \/ ChunksAtWork(i) # {} => item[i] \in {"halted", "failed"}

(* What the docstring says of the halt, "the fan-out aborts so the run     *)
(* cannot spend further budget" (sector/extraction.py:68-69): no call to   *)
(* OpenAI begins after it.                                                 *)
HaltStopsSpending ==
    [][fanout = "halted" => \A c \in ItemCallers : Busy(c)' => Busy(c)]_vars

(* A run that has cost its hard cap does not stay running, unless a        *)
(* stopped call is still on its way to the orchestrator; so the next stage *)
(* boundary ends the job, also when all that is left is an orphan.         *)
CapReachesStatus ==
    fanout # "ended" /\ RunCost(Run) >= Caps.hard =>
        \/ status # "running"
        \/ \E c \in ItemCallers : call[c].pc \in {"paused", "killed"}

(* An item whose brief is there makes no call: a resumed run does not pay  *)
(* for it again.                                                           *)
NoRework ==
    \A i \in briefs : \A k \in Chunks \cup {Main} : ~Busy(<<i, k>>)

(* What holds of the money: the types, with the regenerations within their *)
(* limit, the sums of a call under the lock, and no brief paid for twice.  *)
FanoutInv == TypeOK /\ SumsCurrent /\ NoRework

(* The fan-out comes to an end: no task waits for a semaphore, for the     *)
(* lock or for a chunk for ever.                                           *)
FanoutEnds == <>(fanout # "running")

=============================================================================
