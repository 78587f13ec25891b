---------------------------- MODULE EventStream ----------------------------
(***************************************************************************)
(* GET /research-runs/{id}/events (_stream_run_events in                   *)
(* api/routes/research_runs.py): a polling loop over run_events while the  *)
(* tasks of the run write them.  An event gets its time when its session   *)
(* flushes and is seen when that session commits, so events may become     *)
(* visible out of the order of their times.                                *)
(***************************************************************************)
EXTENDS Naturals, FiniteSets

CONSTANTS
    Events,      \* run_events rows of the run
    Limit,       \* _SSE_EVENT_BATCH_LIMIT
    MaxClock     \* bound on the clock

ASSUME StreamAssumption ==
    /\ IsFiniteSet(Events) /\ Limit \in Nat \ {0} /\ MaxClock \in Nat \ {0}

VARIABLES
    clock,       \* the clock of the process that runs the job
    event,       \* each event's time and whether it is committed
    over,        \* the run is in a terminal status
    stream,      \* the loop: its place, cursor, and what it has sent
    behind,      \* events committed when a later one had been sent
    due          \* what was committed when the loop saw the run was over

streamVars == <<clock, event, over, stream, behind, due>>

-----------------------------------------------------------------------------
Committed == {e \in Events : event[e].state = "committed"}

(* full: the last batch had as many rows as a batch may have.              *)
Stream == [pc: {"run", "events", "ended"}, terminal: BOOLEAN, cursor: 0..MaxClock,
           seen: SUBSET Events, full: BOOLEAN]

StreamTypeOK ==
    /\ clock \in 1..MaxClock
    /\ event \in [Events -> [at: 0..MaxClock, state: {"none", "flushed", "committed"}]]
    /\ over \in BOOLEAN
    /\ stream \in Stream
    /\ behind \subseteq Committed /\ due \subseteq Committed

StreamInit ==
    /\ clock = 1
    /\ event = [e \in Events |-> [at |-> 0, state |-> "none"]]
    /\ over = FALSE
    /\ stream = [pc |-> "run", terminal |-> FALSE, cursor |-> 0, seen |-> {}, full |-> FALSE]
    /\ behind = {} /\ due = {}

-----------------------------------------------------------------------------
(* The tasks of the run.                                                   *)

(* emit_run_event and the flush.  That Limit events fall on one tick is    *)
(* excluded: a batch is 100 rows, a tick a microsecond.                    *)
Flush(e) ==
    /\ event[e].state = "none"
    /\ Cardinality({f \in Events : event[f].at = clock}) < Limit - 1
    /\ event' = [event EXCEPT ![e] = [at |-> clock, state |-> "flushed"]]
    /\ UNCHANGED <<clock, over, stream, behind, due>>

CommitEvent(e) ==
    /\ event[e].state = "flushed"
    /\ event' = [event EXCEPT ![e].state = "committed"]
    /\ behind' = IF event[e].at < stream.cursor THEN behind \cup {e} ELSE behind
    /\ UNCHANGED <<clock, over, stream, due>>

(* A terminal status is committed together with the event that reports it. *)
EndRun(e) ==
    /\ ~over /\ event[e].state = "flushed"
    /\ over' = TRUE
    /\ event' = [event EXCEPT ![e].state = "committed"]
    /\ behind' = IF event[e].at < stream.cursor THEN behind \cup {e} ELSE behind
    /\ UNCHANGED <<clock, stream, due>>

ClockTicks ==
    /\ clock < MaxClock
    /\ clock' = clock + 1
    /\ UNCHANGED <<event, over, stream, behind, due>>

-----------------------------------------------------------------------------
(* The loop.                                                               *)

(* The run is read first.                                                  *)
ReadRun ==
    /\ stream.pc = "run"
    /\ stream' = [stream EXCEPT !.pc = "events", !.terminal = over]
    /\ due' = IF over THEN Committed ELSE due
    /\ UNCHANGED <<clock, event, over, behind>>

(* Mutant of Matching: the cursor is exclusive.                            *)
MatchingAfter == {e \in Committed : event[e].at > stream.cursor}

(* at >= last_event_at: ties are told apart by the ids already sent.       *)
Matching == {e \in Committed : event[e].at >= stream.cursor}

(* Mutant of Batches: newest first.                                        *)
BatchesNewest ==
    {b \in SUBSET Matching :
        /\ Cardinality(b) = IF Cardinality(Matching) < Limit THEN Cardinality(Matching) ELSE Limit
        /\ \A e \in b, f \in Matching \ b : event[e].at >= event[f].at}

(* ORDER BY at LIMIT: the oldest of them, ties in any order.               *)
Batches ==
    {b \in SUBSET Matching :
        /\ Cardinality(b) = IF Cardinality(Matching) < Limit THEN Cardinality(Matching) ELSE Limit
        /\ \A e \in b, f \in Matching \ b : event[e].at <= event[f].at}

(* Then the events, in another snapshot (READ COMMITTED).  What is new is  *)
(* sent; a run that was over ends the stream, otherwise the loop sleeps.   *)
ReadEvents ==
    /\ stream.pc = "events"
    /\ \E b \in Batches :
          LET new == {e \in b : e \notin stream.seen} IN
          stream' = [pc |-> IF stream.terminal THEN "ended" ELSE "run",
                     terminal |-> stream.terminal,
                     cursor |-> IF new = {} THEN stream.cursor
                                ELSE CHOOSE t \in 0..MaxClock :
                                        /\ \E e \in new : event[e].at = t
                                        /\ \A e \in new : event[e].at <= t,
                     seen |-> stream.seen \cup new,
                     full |-> Cardinality(b) = Limit]
    /\ UNCHANGED <<clock, event, over, behind, due>>

Poll == ReadRun \/ ReadEvents

StreamNext ==
    \/ \E e \in Events : Flush(e) \/ CommitEvent(e) \/ EndRun(e)
    \/ ClockTicks
    \/ Poll

StreamSpec == StreamInit /\ [][StreamNext]_streamVars

-----------------------------------------------------------------------------
(* What the stream had not sent when it ended, of what was committed when  *)
(* the run was found to be over, had been committed behind the cursor, or  *)
(* did not fit into the last batch: the events of the transaction that     *)
(* ends the run are never lost to the order of the two reads.              *)
EndSendsAll ==
    stream.pc = "ended" /\ ~stream.full => due \subseteq stream.seen \cup behind

(* While the stream is open an event comes through in the end, unless it   *)
(* was committed behind the cursor: ties and full batches do not make the  *)
(* loop read the same rows for ever.                                       *)
EventSent(e) ==
    e \in Committed ~> e \in stream.seen \cup behind \/ stream.pc = "ended"

=============================================================================
