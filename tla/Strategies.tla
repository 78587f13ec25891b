----------------------------- MODULE Strategies -----------------------------
(***************************************************************************)
(* The six strategies (strategies/), each asked for a target at every bar  *)
(* the runner gets.  What they see of the past is a window of the last     *)
(* bars (services/strategy_indicator_window.py), empty after a restart     *)
(* although the position is adopted; a back-test shows them all bars.      *)
(*                                                                         *)
(* A bar has one price; prices are compared by orb_safe and gap_fill only, *)
(* and what indicators, sweeps and gaps between bars say is any choice.    *)
(* Minutes count from the open of regular trading hours (RTH).  An order is*)
(* filled before the next bar, except that an opening one may be refused.  *)
(***************************************************************************)
EXTENDS Integers, Sequences, SequencesExt, FiniteSetsExt

CONSTANTS
    Strategy,     \* the strategies in question
    Levels,       \* the prices
    WindowBars,   \* bars kept; INDICATOR_WINDOW_BARS
    WarmupBars,   \* bars the indicators need
    Restarts,     \* BOOLEAN: the runner may be restarted
    RangeEnd,     \* or_end of orb_safe
    Morning,      \* cutoff of orb_safe
    FlatAt,       \* flat_at of orb_safe
    WaitEnd,      \* end of gap_fill's wait
    GapCutoff,    \* cutoff of gap_fill
    MinGap,
    Hour,         \* what the UTC hours of macd_rsi_adx are off in winter
    RthClose,     \* end of RTH
    Skip,         \* bars that may be missing in a row
    MaxDay        \* bound on the days

(* The defaults of the strategies: orb_safe is flat at 15:30 (orb_safe.py: *)
(* 38), gap_fill at 14:00 (gap_fill.py:35), which is before the close.     *)
ASSUME StrategyAssumption ==
    /\ Levels # {} /\ Levels \subseteq Int
    /\ WindowBars \in Nat \ {0} /\ MaxDay \in Nat
    /\ {RangeEnd, Morning, FlatAt, WaitEnd, GapCutoff, RthClose, Skip, Hour} \subseteq Nat
    /\ FlatAt < RthClose /\ GapCutoff < RthClose

VARIABLES
    strategy, winter,
    bars,       \* the window, oldest first
    last,       \* day and minute of the last bar
    isOver,     \* the bar of that day's last minute has come
    sign,       \* the sign of the position
    entered     \* day and minute of the bar it was entered at

strategyVars == <<strategy, winter, bars, last, isOver, sign, entered>>

-----------------------------------------------------------------------------
RequiresRth == {"orb_safe", "gap_fill", "ict", "macd_rsi_adx"}
Rth == 0..(RthClose - 1)
(* There may be bars before the open and after the close.                  *)
Minutes == (-1)..RthClose
Nowhere == [day |-> 0, minute |-> 0]

StrategyTypeOK ==
    /\ strategy \in Strategy /\ winter \in BOOLEAN
    /\ bars \in Seq([day: 1..MaxDay, minute: Minutes, price: Levels]) /\ Len(bars) <= WindowBars
    /\ {last, entered} \subseteq [day: 0..MaxDay, minute: Minutes]
    /\ isOver \in BOOLEAN
    /\ sign \in {-1, 0, 1}

StrategyInit ==
    /\ strategy \in Strategy
    /\ winter \in IF strategy = "macd_rsi_adx" THEN BOOLEAN ELSE {FALSE}
    /\ bars = <<>> /\ last = [day |-> 0, minute |-> RthClose] /\ isOver = FALSE
    /\ sign = 0 /\ entered = Nowhere

-----------------------------------------------------------------------------
(* orb_safe: the range is that of today's bars in the window.              *)
OpeningRange(seen) ==
    {seen[i].price : i \in {j \in DOMAIN seen :
        seen[j].day = Last(seen).day /\ seen[j].minute \in 0..(RangeEnd - 1)}}

(* Mutant of OrbSafe: the morning's cutoff also ends a position.           *)
OrbSafeCutoff(seen) ==
    LET now == Last(seen)
        range == OpeningRange(seen)
    IN IF \/ now.minute >= FlatAt \/ now.minute < RangeEnd \/ range = {}
          \/ now.minute >= Morning THEN {0}
       ELSE IF sign # 0 THEN {sign}
       ELSE IF now.price > Max(range) THEN {0, 1}
       ELSE IF now.price < Min(range) THEN {0, -1}
       ELSE {0}

(* The VWAP may forbid a breakout.                                         *)
OrbSafe(seen) ==
    LET now == Last(seen)
        range == OpeningRange(seen)
    IN IF \/ now.minute >= FlatAt \/ now.minute < RangeEnd \/ range = {}
          \/ now.minute >= Morning /\ sign = 0 THEN {0}
       ELSE IF sign # 0 THEN {sign}
       ELSE IF now.price > Max(range) THEN {0, 1}
       ELSE IF now.price < Min(range) THEN {0, -1}
       ELSE {0}

(* gap_fill: today's first bar and the last one of the day before, both of *)
(* RTH and in the window.                                                  *)
TodaysBars(seen) == {i \in DOMAIN seen : seen[i].day = Last(seen).day /\ seen[i].minute >= 0}
EarlierBars(seen) == {i \in DOMAIN seen : seen[i].day # Last(seen).day /\ seen[i].minute \in Rth}
GapKnown(seen) == TodaysBars(seen) # {} /\ EarlierBars(seen) # {}
TodayOpen(seen) == seen[Min(TodaysBars(seen))].price
PriorClose(seen) == seen[Max(EarlierBars(seen))].price

(* A position faces the gap: short after a gap up, long after a gap down.  *)
GapFilled(seen) ==
    IF sign > 0 THEN Last(seen).price >= PriorClose(seen)
    ELSE Last(seen).price <= PriorClose(seen)

GapFill(seen) ==
    LET now == Last(seen)
        gap == TodayOpen(seen) - PriorClose(seen)
    IN IF Len(seen) < WarmupBars THEN {sign}
       ELSE IF ~GapKnown(seen) \/ now.minute >= GapCutoff THEN {0}
       ELSE IF now.minute < WaitEnd THEN {sign}
       ELSE IF sign # 0 THEN {IF GapFilled(seen) THEN 0 ELSE sign}
       ELSE IF gap >= MinGap /\ now.price < TodayOpen(seen) THEN {-1}
       ELSE IF gap <= -MinGap /\ now.price > TodayOpen(seen) THEN {1}
       ELSE {0}

(* ict holds whatever it has until the hours are over.                     *)
Ict(seen) ==
    IF Len(seen) < WarmupBars THEN {sign}
    ELSE IF Last(seen).minute \notin Rth THEN {0}
    ELSE IF sign # 0 THEN {sign}
    ELSE {-1, 0, 1}

(* macd_rsi_adx: a cross turns a position around at any time; entries are  *)
(* for 13:30 to 20:00 UTC, the hours of summer.                            *)
MacdRsiAdx(seen) ==
    LET shifted == IF winter THEN Last(seen).minute + Hour ELSE Last(seen).minute
    IN IF Len(seen) < WarmupBars THEN {sign}
       ELSE IF sign = 0 /\ shifted \notin Rth THEN {0}
       ELSE {-1, sign, 1}

(* bb_rsi: back to the middle band ends a position.                        *)
BbRsi(seen) ==
    IF Len(seen) < WarmupBars THEN {sign}
    ELSE IF sign = 0 THEN {-1, 0, 1}
    ELSE {sign, 0}

(* confluence_long never asks for an exit.                                 *)
ConfluenceLong(seen) ==
    IF Len(seen) < WarmupBars \/ sign # 0 THEN {sign} ELSE {0, 1}

Targets(seen) ==
    CASE strategy = "orb_safe"        -> OrbSafe(seen)
      [] strategy = "gap_fill"        -> GapFill(seen)
      [] strategy = "ict"             -> Ict(seen)
      [] strategy = "macd_rsi_adx"    -> MacdRsiAdx(seen)
      [] strategy = "bb_rsi"          -> BbRsi(seen)
      [] strategy = "confluence_long" -> ConfluenceLong(seen)

-----------------------------------------------------------------------------
(* BoundedBarBuffer.append                                                 *)
Appended(bar) ==
    LET all == Append(bars, bar)
    IN IF Len(all) > WindowBars THEN Tail(all) ELSE all

(* Mutant of Flattened: the last minute is nothing special.                *)
FlattenedNever(bar) == FALSE

(* Only an open position is flattened at the last minute.                  *)
Flattened(bar) == strategy \in RequiresRth /\ sign # 0 /\ bar.minute = RthClose - 1

(* What becomes of the position: the other side is reached by way of flat, *)
(* one bar for each order (_proposed_order).                               *)
Towards(target) == IF sign # 0 /\ target # sign THEN 0 ELSE target

(* A bar of today or of the next day; the stop of confluence_long's trail  *)
(* may be hit.                                                             *)
BarArrives(day, minute, price) ==
    LET bar == [day |-> day, minute |-> minute, price |-> price]
        dropped == sign = 0 \/ strategy = "confluence_long"
    IN
    /\ \/ day = last.day /\ minute \in last.minute + 1 .. last.minute + 1 + Skip
       \/ day = last.day + 1 /\ minute \in -1 .. Skip /\ last.minute + Skip >= RthClose - 1
    /\ bars' = Appended(bar)
    /\ last' = [day |-> day, minute |-> minute]
    /\ isOver' = (minute = RthClose - 1 \/ (day = last.day /\ isOver))
    /\ sign' \in IF Flattened(bar) THEN {0}
                 ELSE {Towards(t) : t \in Targets(bars')} \cup (IF dropped THEN {0} ELSE {})
    /\ entered' = IF sign' = 0 THEN Nowhere
                  ELSE IF sign' = sign THEN entered ELSE last'
    /\ UNCHANGED <<strategy, winter>>

(* A new run of the runner adopts the position.                            *)
Restart ==
    /\ Restarts
    /\ bars' = <<>>
    /\ UNCHANGED <<strategy, winter, last, isOver, sign, entered>>

(* The targets of the other strategies do not look at the price here.      *)
PricesSeen == IF strategy \in {"orb_safe", "gap_fill"} THEN Levels ELSE {Min(Levels)}

StrategyNext ==
    \/ \E day \in 1..MaxDay, minute \in Minutes, price \in PricesSeen : BarArrives(day, minute, price)
    \/ Restart

StrategySpec == StrategyInit /\ [][StrategyNext]_strategyVars

-----------------------------------------------------------------------------
(* No position of a strategy for RTH survives its day, if the bar of the   *)
(* last minute comes: except that ict and macd_rsi_adx may enter at that   *)
(* very bar.                                                               *)
NoOvernight ==
    sign # 0 /\ strategy \in RequiresRth /\ last'.day # last.day /\ isOver =>
        /\ strategy \in {"ict", "macd_rsi_adx"}
        /\ entered = [day |-> last.day, minute |-> RthClose - 1]

(* orb_safe and gap_fill leave a position for what it was entered for: the *)
(* hours are over, the day is over, the gap has filled; or the window has  *)
(* lost the bars that say so.                                              *)
ExitForCause ==
    sign # 0 /\ sign' = 0 /\ last'.day = entered.day /\ last'.minute < FlatAt =>
        /\ strategy = "orb_safe" => OpeningRange(bars') = {}
        /\ strategy = "gap_fill" =>
              \/ last'.minute >= GapCutoff \/ EarlierBars(bars') = {} \/ GapFilled(bars')

(* Both, of every step: nothing is held overnight by oversight, nothing is *)
(* closed early without a cause.                                           *)
SignalsSound == [][NoOvernight /\ ExitForCause]_strategyVars

(* orb_safe carries a position until it forces it flat (orb_safe.py:11-15, *)
(* "Force flat at flat_at", "Carry: while in position (any time), return   *)
(* current bias").                                                         *)
CarriesToFlatAt ==
    [][strategy = "orb_safe" /\ sign # 0 /\ sign' = 0 =>
          last'.minute >= FlatAt \/ last'.day # entered.day]_strategyVars

=============================================================================
