------------------------------ MODULE Backtest ------------------------------
(***************************************************************************)
(* The back-test engine (services/backtest_engine.py): simulate, a step    *)
(* per bar, and persist_backtest_result.  The strategy may ask for any     *)
(* target at any bar.  Money is in whole units; profit_factor and the win  *)
(* and loss counts, which nothing else uses, are left out.                 *)
(***************************************************************************)
EXTENDS Integers, Sequences, FiniteSetsExt, Functions

CONSTANTS
    BarPrices,     \* open and close prices
    Slippage,      \* SlippageModel.per_share_cents
    Commission,    \* CommissionModel.per_trade_usd
    Shares,        \* position_size_shares
    BarCount,      \* bars loaded
    BarsPerDay     \* bars of one UTC day

(* A back-test without bars is refused (run_backtest).                     *)
ASSUME BacktestAssumption ==
    /\ BarPrices \subseteq Int
    /\ Slippage \in Nat /\ Commission \in Nat /\ Shares \in Nat
    /\ BarCount \in Nat \ {0} /\ BarsPerDay \in Nat \ {0}

VARIABLES
    position,  \* open_positions: the open trade, or Flat
    pending,   \* pending_target
    trades,    \* completed trades
    equity,    \* equity_per_bar
    report,    \* what is persisted
    lastClose, \* close of the last bar
    cash,      \* what the fills have cost and brought so far
    asked      \* the target asked for at each bar

backtestVars == <<position, pending, trades, equity, report, lastClose, cash, asked>>

-----------------------------------------------------------------------------
NoTarget == 2
NoReport == [net |-> 0, drawdown |-> -1, days |-> <<>>]
Flat == [side |-> 0, entry |-> 0, bar |-> 0, pnl |-> 0]

(* apply_to_fill: a buy is filled above the reference price, a sale below. *)
Fill(reference, side) == reference + side * Slippage

(* _open_trade and _close_trade; the opening commission waits in pnl.      *)
Opened(i, price, side) ==
    [side |-> side, entry |-> Fill(price, side), bar |-> i, pnl |-> -Commission]
Closed(i, price, reason) ==
    [side |-> position.side, from |-> position.bar, to |-> i, reason |-> reason,
     pnl |-> position.pnl - Commission
             + (Fill(price, -position.side) - position.entry) * position.side * Shares]

Pnl(ts) == SumFunctionOnSet([n \in DOMAIN ts |-> ts[n].pnl], DOMAIN ts)

(* Mutant of Mark: the opening commission is not counted.                  *)
MarkGross(p, close) == (close - p.entry) * p.side * Shares

(* The open trade at the close of the bar; 0 if there is none.             *)
Mark(p, close) == (close - p.entry) * p.side * Shares + p.pnl

-----------------------------------------------------------------------------
BacktestInit ==
    /\ position = Flat /\ pending = NoTarget
    /\ trades = <<>> /\ equity = <<>> /\ asked = <<>>
    /\ report = NoReport
    /\ cash = 0 /\ lastClose = 0

(* Mutant of Wanted: filled at the bar that asks for it.                   *)
WantedAtOnce(target) == target

(* The target to be filled at this bar: what the last one asked for.       *)
Wanted(target) == pending

(* One bar: the pending target is filled at its open, the strategy asks    *)
(* for a target, and what differs from the position is put off to the next *)
(* bar, if there is one.                                                   *)
Bar(open, close, target) ==
    LET i == Len(equity)
        due == Wanted(target) # NoTarget /\ Wanted(target) # position.side
        closes == due /\ position.side # 0
        opens == due /\ Wanted(target) # 0
        held == IF opens THEN Opened(i, open, Wanted(target)) ELSE IF closes THEN Flat ELSE position
    IN /\ Len(equity) < BarCount
       /\ position' = held
       /\ trades' = IF closes THEN Append(trades, Closed(i, open, "signal")) ELSE trades
       /\ pending' = IF i < BarCount - 1 /\ target # held.side THEN target ELSE NoTarget
       /\ equity' = Append(equity, Pnl(trades') + Mark(held, close))
       /\ lastClose' = close
       /\ asked' = Append(asked, target)
       /\ cash' = cash + (IF closes THEN position.side * Shares * Fill(open, -position.side) - Commission ELSE 0)
                       - (IF opens THEN held.side * Shares * Fill(open, held.side) + Commission ELSE 0)
       /\ UNCHANGED report

-----------------------------------------------------------------------------
(* The deepest fall from the running peak, which starts at 0.              *)
Drawdown(eq) ==
    LET run[n \in 0..Len(eq)] ==
            IF n = 0 THEN [peak |-> 0, fall |-> 0]
            ELSE LET peak == IF eq[n] > run[n - 1].peak THEN eq[n] ELSE run[n - 1].peak
                     fall == peak - eq[n]
                 IN [peak |-> peak,
                     fall |-> IF fall > run[n - 1].fall THEN fall ELSE run[n - 1].fall]
    IN run[Len(eq)].fall

(* The equity at the end of each day.                                      *)
Daily(eq) ==
    LET days == (Len(eq) + BarsPerDay - 1) \div BarsPerDay
    IN [d \in 1..days |-> eq[IF d * BarsPerDay > Len(eq) THEN Len(eq) ELSE d * BarsPerDay]]

(* Mutant of Finish: the last bar keeps the mark of the forced trade.      *)
FinishMarked ==
    /\ Len(equity) = BarCount /\ report = NoReport
    /\ LET forced == position.side # 0 IN
       /\ trades' = IF forced THEN Append(trades, Closed(BarCount - 1, lastClose, "final-bar")) ELSE trades
       /\ cash' = IF forced THEN cash + position.side * Shares * Fill(lastClose, -position.side) - Commission
                  ELSE cash
    /\ position' = Flat
    /\ report' = [net |-> equity[BarCount], drawdown |-> Drawdown(equity), days |-> Daily(equity)]
    /\ UNCHANGED <<pending, equity, lastClose, asked>>

(* What is open is closed at the last close, the last equity is what has   *)
(* been realised, and the result is summed up and persisted.               *)
Finish ==
    /\ Len(equity) = BarCount /\ report = NoReport
    /\ LET forced == position.side # 0 IN
       /\ trades' = IF forced THEN Append(trades, Closed(BarCount - 1, lastClose, "final-bar")) ELSE trades
       /\ equity' = IF forced THEN [equity EXCEPT ![BarCount] = Pnl(trades')] ELSE equity
       /\ cash' = IF forced THEN cash + position.side * Shares * Fill(lastClose, -position.side) - Commission
                  ELSE cash
    /\ position' = Flat
    /\ report' = [net |-> equity'[BarCount], drawdown |-> Drawdown(equity'), days |-> Daily(equity')]
    /\ UNCHANGED <<pending, lastClose, asked>>

BacktestNext ==
    \/ \E open, close \in BarPrices, target \in {-1, 0, 1} : Bar(open, close, target)
    \/ Finish

BacktestSpec == BacktestInit /\ [][BacktestNext]_backtestVars

-----------------------------------------------------------------------------
(* The equity of the last bar is the cash the fills have left and the open *)
(* position at the close: slippage and commissions are paid once per fill, *)
(* through entries, reversals and exits.                                   *)
EquityIsCash ==
    equity # <<>> => equity[Len(equity)] = cash + position.side * Shares * lastClose

(* No trade is entered or left on a bar that had not been asked for at the *)
(* bar before, and none is entered at the first one (backtest_engine.py:   *)
(* 132-136, "no peeking").                                                 *)
NoPeeking ==
    \A n \in 1..Len(trades) :
        LET t == trades[n] IN
        /\ t.from \in 1..t.to /\ asked[t.from] = t.side
        /\ t.reason = "signal" => asked[t.to] # t.side
        /\ n > 1 => trades[n - 1].to <= t.from

(* How far an equity is below the start, or below an earlier one.          *)
Falls(eq) ==
    {0} \cup {-eq[j] : j \in DOMAIN eq}
        \cup {eq[p[1]] - eq[p[2]] : p \in {jk \in (DOMAIN eq) \X (DOMAIN eq) : jk[1] < jk[2]}}

(* The report agrees with itself: the net result is the sum of the trades  *)
(* and what the last day ends with; the drawdown is the largest fall from  *)
(* an earlier equity, or from the start, to a later one; and a day's       *)
(* drawdown is not more.                                                   *)
ReportAddsUp ==
    report # NoReport =>
        /\ report.net = Pnl(trades) /\ report.net = cash
        /\ report.days[Len(report.days)] = report.net
        /\ report.drawdown = Max(Falls(equity))
        /\ Max(Falls(report.days)) <= report.drawdown

(* All three: what a back-test shows of a strategy is what its fills would *)
(* have brought, without a look ahead.                                     *)
TestHonest == EquityIsCash /\ NoPeeking /\ ReportAddsUp

=============================================================================
