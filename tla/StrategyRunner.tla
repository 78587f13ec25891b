--------------------------- MODULE StrategyRunner ---------------------------
(***************************************************************************)
(* One strategy runner (services/strategy_runner.py) trading one ticker    *)
(* against a broker.  The runner is one asyncio task: it takes a bar,      *)
(* evaluates the strategy, moves the trail, and takes at most one order    *)
(* through tradability, risk caps, judge, approval, broker and the         *)
(* strategy_live_orders mirror.  Other parties move whenever the task      *)
(* awaits something they can change: the broker fills or drops working     *)
(* orders, people cancel, the process dies and is started again.           *)
(*                                                                         *)
(* The broker is external: an order it accepted is filled at once, works   *)
(* for a while, is partly filled, or is refused; the call may also raise.  *)
(* Outcomes says which of these happen.  Quantities are integers.          *)
(***************************************************************************)
EXTENDS Integers, Sequences, FiniteSetsExt

CONSTANTS
    Mode,          \* ctx.mode
    Sizes,         \* order quantities the strategy hints at
    MaxShares,     \* max_position_per_ticker_shares
    MaxPerMinute,  \* max_orders_per_minute_per_ticker
    RequiresRth,   \* strategy.requires_rth
    Outcomes,      \* what place_order may come back with
    Gates,         \* gates that may block: tradability, judge, approval
    Crashes,       \* may the process die, or a step raise?
    MaxBars, MaxOrders, MaxRuns   \* bounds on bars, orders and runs

AllOutcomes == {"filled", "submitted", "partial", "refused", "lost"}

ASSUME RunnerAssumption ==
    /\ Mode \in {"paper", "live"}
    /\ Sizes \subseteq Nat \ {0}
    /\ MaxShares \in Nat /\ MaxPerMinute \in Nat
    /\ RequiresRth \in BOOLEAN /\ Crashes \in BOOLEAN
    /\ Outcomes \subseteq AllOutcomes
    /\ Gates \subseteq {"tradability", "judge", "approval"}
    /\ MaxBars \in Nat /\ MaxOrders \in Nat /\ MaxRuns \in Nat

VARIABLES
    pc,         \* where the runner's task is
    status,     \* strategy_runs.status of the current run
    run,        \* number of the current run
    cancel,     \* ctx.cancel_event
    bar,        \* as_of of the bar in hand
    position,   \* ctx.current_position
    trail,      \* ctx.trail_state, only its mode: none, armed or stopped
    lastExit,   \* ctx.last_exit_bar_ts, 0 for None
    recent,     \* length of ctx.orders_in_last_minute
    order,      \* the order on its way through the gates
    answer,     \* what place_order came back with
    orders,     \* strategy_live_orders, with the broker's side of each
    shares      \* the broker's position

ctx == <<position, trail, lastExit, recent>>
vars == <<pc, status, run, cancel, bar, ctx, order, answer, orders, shares>>

-----------------------------------------------------------------------------
PC == {"off", "adopting", "waiting", "approval", "placing", "recording", "ended"}
Order == [delta: Int, closing: BOOLEAN]
NoOrder == [delta |-> 0, closing |-> FALSE]

(* row: the mirror row's status; left: what the broker still works on.     *)
LiveOrder == [delta: Int, closing: BOOLEAN, ts: Nat, run: Nat,
              row: {"pending", "submitted", "filled", "partially_filled", "rejected"},
              left: Int]

TypeOK ==
    /\ pc \in PC
    /\ status \in {"none", "running", "stopped", "errored"}
    /\ run \in Nat /\ cancel \in BOOLEAN /\ bar \in Nat
    /\ position \in Int /\ trail \in {"none", "armed", "stopped"}
    /\ lastExit \in Nat /\ recent \in Nat
    /\ order \in Order /\ answer \in AllOutcomes \cup {"none"}
    /\ orders \in Seq(LiveOrder)
    /\ shares \in Int

Sign(n) == IF n > 0 THEN 1 ELSE IF n < 0 THEN -1 ELSE 0
Size(n) == IF n < 0 THEN -n ELSE n

(* Signed quantity of the orders the broker is still working on.           *)
Outstanding == SumFunctionOnSet([i \in DOMAIN orders |-> orders[i].left], DOMAIN orders)

Init ==
    /\ pc = "off" /\ status = "none" /\ run = 0 /\ cancel = FALSE /\ bar = 0
    /\ position = 0 /\ trail = "none" /\ lastExit = 0 /\ recent = 0
    /\ order = NoOrder /\ answer = "none" /\ orders = <<>> /\ shares = 0

-----------------------------------------------------------------------------
(* run, before the bar loop.                                               *)

(* The service spawns a fresh context and run row; run marks it running.   *)
Start ==
    /\ pc \in {"off", "ended"} /\ run < MaxRuns
    /\ pc' = "adopting" /\ status' = "running" /\ run' = run + 1
    /\ cancel' = FALSE
    /\ position' = 0 /\ trail' = "none" /\ lastExit' = 0 /\ recent' = 0
    /\ order' = NoOrder /\ answer' = "none"
    /\ UNCHANGED <<bar, orders, shares>>

(* Mutant of Adopt: the context starts flat.                               *)
AdoptNothing ==
    /\ pc = "adopting"
    /\ pc' = "waiting"
    /\ UNCHANGED <<status, run, cancel, bar, ctx, order, answer, orders, shares>>

(* _adopt_existing_position: get_positions knows filled shares only.       *)
Adopt ==
    /\ pc = "adopting"
    /\ position' = shares
    /\ trail' = IF shares = 0 THEN "none" ELSE "armed"
    /\ pc' = "waiting"
    /\ UNCHANGED <<status, run, cancel, bar, lastExit, recent, order, answer, orders, shares>>

-----------------------------------------------------------------------------
(* _process_bar: what order, if any, does a bar call for?                  *)

(* _submit_close, and a target the position has to be closed for.          *)
CloseOrder == [delta |-> -position, closing |-> TRUE]

(* Mutant of Proposal: a flip goes straight through flat.                  *)
ProposalFlips(target, size) ==
    IF target = Sign(position) THEN NoOrder
    ELSE IF target = 0 THEN CloseOrder
    ELSE [delta |-> target * size - position, closing |-> FALSE]

(* _proposed_order: only flat -> long/short and long/short -> flat; a flip *)
(* is routed via flat.                                                     *)
Proposal(target, size) ==
    IF target = Sign(position) THEN NoOrder
    ELSE IF position # 0 THEN CloseOrder
    ELSE [delta |-> target * size, closing |-> FALSE]

(* Mutant of Reentry: the guard is gone.                                   *)
ReentryAllowed(target, ts) == FALSE

(* The same-bar re-entry guard.                                            *)
Reentry(target, ts) ==
    position = 0 /\ target # 0 /\ lastExit # 0 /\ ts = lastExit

(* The exits come before the bias change.                                  *)
WantedOrder(b, hit) ==
    IF hit THEN CloseOrder
    ELSE IF RequiresRth /\ position # 0 /\ b.eod THEN CloseOrder
    ELSE IF Reentry(b.target, b.ts) THEN NoOrder
    ELSE Proposal(b.target, b.size)

(* _submit_via_gates up to the approval request.                           *)

(* The tradability gate: a short entry needs a shortable asset.            *)
TradabilityPasses(o, g) ==
    \/ g.asset = "shortable"
    \/ g.asset = "long only" /\ (o.delta > 0 \/ o.closing)

(* Mutant of RiskPasses: the closing bypass is gone.                       *)
RiskBlocksClose(o, kept) ==
    Size(position + o.delta) <= MaxShares /\ kept < MaxPerMinute

(* check_pre_order: closing orders bypass the caps.  The halts never trip: *)
(* the snapshot's daily P&L and loss streak are always 0.                  *)
RiskPasses(o, kept) ==
    o.closing \/ (Size(position + o.delta) <= MaxShares /\ kept < MaxPerMinute)

(* A veto only counts in live mode, for closing orders too.                *)
JudgePasses(g) == ~(g.verdict = "veto" /\ Mode = "live")

(* approve_reduced scales opening orders down by a factor in (0, 1].       *)
FinalDelta(o, g) ==
    IF g.verdict = "reduced" /\ ~o.closing /\ Size(o.delta) > 1
    THEN {Sign(o.delta) * q : q \in 1..Size(o.delta)} ELSE {o.delta}

(* What a bar brings: its timestamp, the strategy's target and size hint,  *)
(* whether it pierces the stop of a strategy that asks for a trail, and    *)
(* whether it is the last minute of regular trading hours.                 *)
BarData ==
    [ts: {bar, bar + 1} \cap 1..MaxBars, target: {-1, 0, 1},
     size: IF position = 0 THEN Sizes ELSE {1},
     pierced: IF trail = "armed" THEN BOOLEAN ELSE {FALSE},
     eod: IF RequiresRth /\ position # 0 THEN BOOLEAN ELSE {FALSE}]

(* What the gates find.                                                    *)
GateData ==
    [asset: {"shortable"} \cup
            (IF "tradability" \in Gates THEN {"long only", "untradable"} ELSE {}),
     verdict: IF "judge" \in Gates THEN {"approve", "veto", "reduced"} ELSE {"approve"}]

(* One bar, up to the point where the task waits for the approval.  A bar  *)
(* may repeat the timestamp of the one before it.  kept is what is left of *)
(* orders_in_last_minute after pruning (it is only pruned when an order    *)
(* gets as far as the risk gate).  MaxOrders cuts runs that would place    *)
(* more orders than that.                                                  *)
ProcessBar(b, g, kept) ==
    LET hit == trail = "armed" /\ b.pierced
        want == WantedOrder(b, hit)
        risky == want # NoOrder /\ TradabilityPasses(want, g)
        passed == risky /\ RiskPasses(want, kept) /\ JudgePasses(g)
    IN
    /\ pc = "waiting" /\ ~cancel
    /\ trail' = IF hit THEN "stopped" ELSE trail
    /\ bar' = b.ts
    /\ recent' = IF risky THEN kept ELSE recent
    /\ passed => Len(orders) < MaxOrders
    /\ IF passed
       THEN /\ pc' = "approval"
            /\ \E d \in FinalDelta(want, g) : order' = [want EXCEPT !.delta = d]
       ELSE UNCHANGED <<pc, order>>
    /\ UNCHANGED <<status, run, cancel, position, lastExit, answer, orders, shares>>

TakeBar ==
    \E b \in BarData, g \in GateData, kept \in 0..recent : ProcessBar(b, g, kept)

(* The loop looks at the cancel event when a bar arrives, or the stream    *)
(* ends.                                                                   *)
Stop ==
    /\ pc = "waiting"
    /\ pc' = "ended" /\ status' = "stopped"
    /\ UNCHANGED <<run, cancel, bar, ctx, order, answer, orders, shares>>

-----------------------------------------------------------------------------
(* _submit_via_gates from the approval on.                                 *)

(* Approved: the mirror row is inserted as pending.                        *)
Approved ==
    /\ pc = "approval"
    /\ orders' = Append(orders,
           [delta |-> order.delta, closing |-> order.closing, ts |-> bar,
            run |-> run, row |-> "pending", left |-> 0])
    /\ pc' = "placing"
    /\ UNCHANGED <<status, run, cancel, bar, ctx, order, answer, shares>>

(* Rejected or expired: the order is dropped.                              *)
NotApproved ==
    /\ pc = "approval" /\ "approval" \in Gates
    /\ pc' = "waiting" /\ order' = NoOrder
    /\ UNCHANGED <<status, run, cancel, bar, ctx, answer, orders, shares>>

Last == Len(orders)

(* place_order: what the broker does with the order.  "refused" stands for *)
(* a response with a rejected, canceled or expired status, "lost" for an   *)
(* exception without the broker having the order.                          *)
PlaceOrder(outcome) ==
    /\ pc = "placing" /\ outcome \in Outcomes
    /\ \E got \in CASE outcome = "filled" -> {Size(order.delta)}
                    [] outcome = "partial" -> 1 .. (Size(order.delta) - 1)
                    [] OTHER -> {0} :
          /\ shares' = shares + Sign(order.delta) * got
          /\ orders' = [orders EXCEPT ![Last].left =
                 IF outcome \in {"submitted", "partial"}
                 THEN order.delta - Sign(order.delta) * got ELSE 0]
    /\ pc' = "recording" /\ answer' = outcome
    /\ UNCHANGED <<status, run, cancel, bar, ctx, order>>

(* Mutant of RowStatus: the broker's word is written as it is.             *)
RowStatusRaw(a) == a

(* _map_broker_status, and the exception path ("rejected" stands for the   *)
(* row status "canceled" too).                                             *)
RowStatus(a) ==
    CASE a \in {"lost", "refused"} -> "rejected"
      [] a = "partial" -> "partially_filled"
      [] OTHER -> a

(* Mutant of MovesPosition: only a confirmed fill moves the position.      *)
MovesOnFill(a) == a = "filled"

(* is_filled or is_optimistically_filled                                   *)
MovesPosition(a) == a \in {"filled", "submitted"}

(* Mutant of Record: the trail is kept after the close.                    *)
RecordKeepsTrail ==
    /\ pc = "recording"
    /\ orders' = [orders EXCEPT ![Last].row = RowStatus(answer)]
    /\ recent' = IF answer = "lost" THEN recent ELSE recent + 1
    /\ position' = IF MovesPosition(answer) THEN position + order.delta ELSE position
    /\ trail' = IF answer = "filled" /\ trail = "none" THEN "armed" ELSE trail
    /\ lastExit' = IF MovesPosition(answer) /\ order.closing THEN bar ELSE lastExit
    /\ pc' = "waiting" /\ order' = NoOrder /\ answer' = "none"
    /\ UNCHANGED <<status, run, cancel, bar, shares>>

(* The response, or the exception, is written to the mirror row and taken  *)
(* over into the context: the position moves on "filled" and, for market   *)
(* orders, on "submitted"; a trail is seeded on a confirmed entry only; a  *)
(* close drops it and stamps the exit bar.                                 *)
Record ==
    /\ pc = "recording"
    /\ orders' = [orders EXCEPT ![Last].row =
           RowStatus(answer)]
    /\ recent' = IF answer = "lost" THEN recent ELSE recent + 1
    /\ position' = IF MovesPosition(answer) THEN position + order.delta ELSE position
    /\ trail' = IF MovesPosition(answer) /\ order.closing THEN "none"
                ELSE IF answer = "filled" /\ trail = "none" THEN "armed"
                ELSE trail
    /\ lastExit' = IF MovesPosition(answer) /\ order.closing THEN bar ELSE lastExit
    /\ pc' = "waiting" /\ order' = NoOrder /\ answer' = "none"
    /\ UNCHANGED <<status, run, cancel, bar, shares>>

-----------------------------------------------------------------------------
(* The surroundings.                                                       *)

(* The broker fills the rest of a working order.                           *)
BrokerFill(i) ==
    /\ i \in DOMAIN orders /\ orders[i].left # 0
    /\ shares' = shares + orders[i].left
    /\ orders' = [orders EXCEPT ![i].left = 0]
    /\ UNCHANGED <<pc, status, run, cancel, bar, ctx, order, answer>>

(* SIGINT or SIGTERM sets the cancel event.                                *)
Cancel ==
    /\ pc \notin {"off", "ended"} /\ ~cancel
    /\ cancel' = TRUE
    /\ UNCHANGED <<pc, status, run, bar, ctx, order, answer, orders, shares>>

(* get_positions, a gate, a database write raises: run marks the run       *)
(* errored and re-raises.  place_order itself is guarded.                  *)
StepRaises ==
    /\ Crashes /\ pc \in {"adopting", "waiting", "approval", "recording"}
    /\ pc' = "ended" /\ status' = "errored"
    /\ UNCHANGED <<run, cancel, bar, ctx, order, answer, orders, shares>>

(* The process dies.                                                       *)
Crash ==
    /\ Crashes /\ pc \notin {"off", "ended"}
    /\ pc' = "off"
    /\ UNCHANGED <<status, run, cancel, bar, ctx, order, answer, orders, shares>>

Next ==
    \/ Start \/ Adopt \/ TakeBar \/ Stop
    \/ Approved \/ NotApproved
    \/ \E outcome \in Outcomes : PlaceOrder(outcome)
    \/ Record
    \/ \E i \in DOMAIN orders : BrokerFill(i)
    \/ Cancel \/ StepRaises \/ Crash

Spec == Init /\ [][Next]_vars

(* Once an order is out of the approval the task finishes it, and somebody *)
(* answers the approval.                                                   *)
Fairness ==
    /\ WF_vars(Approved \/ NotApproved)
    /\ WF_vars(\E outcome \in Outcomes : PlaceOrder(outcome))
    /\ WF_vars(Record)

-----------------------------------------------------------------------------
(* ctx.current_position is "the runner's authoritative view of the open    *)
(* share count" (strategy_runner.py:92): between bars it is what the       *)
(* broker holds, plus what the broker is still working on.                 *)
PositionAgrees ==
    pc = "waiting" => position = shares + Outstanding

(* The per-ticker share cap holds for what the broker actually holds or    *)
(* is about to, whatever was cancelled, restarted or adopted.              *)
ExposureBounded == Size(shares + Outstanding) <= MaxShares

(* An order never carries the broker's position through zero: long and     *)
(* short are only ever reached from flat.                                  *)
NeverFlips == [][shares * shares' >= 0]_vars

(* Within a run no position is opened on the bar that closed one, even if  *)
(* the stream delivers that bar twice.                                     *)
NoSameBarReentry ==
    \A i, j \in DOMAIN orders :
        /\ i < j /\ orders[i].run = orders[j].run
        /\ orders[i].closing /\ orders[i].row \in {"filled", "submitted"}
        /\ ~orders[j].closing
        => orders[i].ts # orders[j].ts

(* With confirmed fills a position is watched by a trail as long as it is  *)
(* open and no longer: no unprotected shares, and no stop firing while the *)
(* runner is flat (it would ask the broker for an order of quantity 0).    *)
TrailIffPosition ==
    pc = "waiting" /\ (\A i \in DOMAIN orders : orders[i].row # "submitted") =>
        (trail # "none" <=> shares # 0)

(* All that holds of a runner between and within its bars.                 *)
RunnerInv ==
    TypeOK /\ PositionAgrees /\ ExposureBounded /\ TrailIffPosition /\ NoSameBarReentry

(* A stop that was hit closes the position, or has the broker closing it:  *)
(* update_trail reports a stop once, so the close it asks for has to go    *)
(* through ("closing reduces risk and must never be blocked by gates       *)
(* designed to bound entry", risk_caps.py:10).                             *)
StopFlattens == (trail = "stopped") ~> (shares + Outstanding = 0)

=============================================================================
