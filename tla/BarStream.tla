------------------------------ MODULE BarStream ------------------------------
(***************************************************************************)
(* The generator that hands a broker's live bars to the strategy runner,   *)
(* and its twin for order updates (brokers/alpaca.py): the connection's    *)
(* callback fills a bounded queue, a task takes from it, and the generator *)
(* waits for that task or for the end of the connection, whichever is      *)
(* first.  The runner is busy with a bar for as long as judge and approval *)
(* take, minutes of bars.  Bars are numbered as they arrive.               *)
(***************************************************************************)
EXTENDS Naturals, Sequences, SequencesExt

CONSTANTS
    MaxQueue,   \* 1024 in the code
    MaxBar

VARIABLES
    queue,      \* of bars
    arrived,    \* bars so far
    getter,     \* get_task: whether there is one, and the bar it got, or 0
    run,        \* run_task: "running", "returned", "raised"
    reader,     \* the generator: "loop", "waiting", "yielded", "draining", "ended", "raised"
    seen        \* bars the runner was given

barVars == <<queue, arrived, getter, run, reader, seen>>

-----------------------------------------------------------------------------
NoGetter == [task |-> FALSE, bar |-> 0]
Waiting == [task |-> TRUE, bar |-> 0]

BarInit ==
    /\ queue = <<>> /\ arrived = 0 /\ getter = NoGetter /\ run = "running"
    /\ reader = "loop" /\ seen = <<>>

(* Mutant of Queued: a full queue drops the newest bar.                     *)
QueuedUnlessFull(q, b) == IF Len(q) = MaxQueue THEN q ELSE Append(q, b)

(* _on_bar: a full queue loses its oldest bar.                             *)
Queued(q, b) == Append(IF Len(q) = MaxQueue THEN Tail(q) ELSE q, b)

OnBar ==
    /\ run = "running" /\ arrived < MaxBar
    /\ arrived' = arrived + 1
    /\ queue' = Queued(queue, arrived + 1)
    /\ UNCHANGED <<getter, run, reader, seen>>

(* The connection ends, with or without an error.                          *)
RunOver ==
    /\ run = "running"
    /\ run' \in {"returned", "raised"}
    /\ UNCHANGED <<queue, arrived, getter, reader, seen>>

(* The loop of the generator: a task that takes the next bar ...           *)
Wait ==
    /\ reader = "loop"
    /\ getter' = Waiting /\ reader' = "waiting"
    /\ UNCHANGED <<queue, arrived, run, seen>>

(* ... which takes it when it is scheduled, ...                            *)
Get ==
    /\ getter = Waiting /\ queue # <<>>
    /\ getter' = [task |-> TRUE, bar |-> Head(queue)] /\ queue' = Tail(queue)
    /\ UNCHANGED <<arrived, run, reader, seen>>

(* ... and whose bar comes before the end of the connection.               *)
Yield ==
    /\ reader = "waiting" /\ getter.bar # 0
    /\ seen' = Append(seen, getter.bar)
    /\ getter' = NoGetter /\ reader' = "yielded"
    /\ UNCHANGED <<queue, arrived, run>>

(* The runner is done with the bar.                                        *)
Proceed ==
    /\ reader = "yielded"
    /\ reader' = "loop"
    /\ UNCHANGED <<queue, arrived, getter, run, seen>>

(* Mutant of Cancel: the bar a cancelled reader was given is lost.          *)
CancelUnseen ==
    /\ reader = "waiting" /\ run # "running"
    /\ getter' = NoGetter /\ reader' = "draining"
    /\ UNCHANGED <<queue, arrived, run, seen>>

(* The connection is over and the task has nothing: it is cancelled, which *)
(* leaves the queue as it is.                                              *)
Cancel ==
    /\ reader = "waiting" /\ getter = Waiting /\ run # "running"
    /\ getter' = NoGetter /\ reader' = "draining"
    /\ UNCHANGED <<queue, arrived, run, seen>>

(* What is left in the queue is handed over before the end is told.        *)
Drain ==
    /\ reader = "draining" /\ queue # <<>>
    /\ seen' = Append(seen, Head(queue)) /\ queue' = Tail(queue)
    /\ UNCHANGED <<arrived, getter, run, reader>>

Over ==
    /\ reader = "draining" /\ queue = <<>>
    /\ reader' = IF run = "raised" THEN "raised" ELSE "ended"
    /\ UNCHANGED <<queue, arrived, getter, run, seen>>

BarNext == OnBar \/ RunOver \/ Wait \/ Get \/ Yield \/ Proceed \/ Cancel \/ Drain \/ Over

BarSpec == BarInit /\ [][BarNext]_barVars

-----------------------------------------------------------------------------
Pending == ToSet(queue) \cup {getter.bar}

(* Bars are handed over in order and once; a bar that is skipped was older *)
(* than a full queue of others, so the runner is never behind by more; and *)
(* when the stream ends or raises, nothing that waited is lost.            *)
BarsInOrder ==
    /\ \A m, n \in DOMAIN seen : m < n => seen[m] < seen[n]
    /\ \A b \in 1..arrived :
        b \notin ToSet(seen) \cup Pending => b + MaxQueue <= arrived
    /\ reader \in {"ended", "raised"} => Pending \subseteq {0}
    /\ reader = "ended" => run = "returned"
=============================================================================
