------------------------------ MODULE Dataset ------------------------------
(***************************************************************************)
(* The data sets of the machine-learning side (ml/): five-minute bars are  *)
(* joined with news, insider filings, recommendations and FRED values as   *)
(* of the bar, and labelled with the first barrier a later bar of the same *)
(* session touches.  A build at any moment sees the bars and events so     *)
(* far; the question is whether a row it gives can be different in a later *)
(* build, which is what learning from the future would look like.          *)
(*                                                                         *)
(* Time counts bars, PerDay of them a session.  The columns computed from  *)
(* the bars themselves (rolling windows that end at the bar) are left out, *)
(* except that a row needs a finite ATR, which takes Warmup bars.          *)
(***************************************************************************)
EXTENDS Integers, Sequences, FiniteSetsExt

CONSTANTS
    Shapes,      \* what bars look like, [close, high, low]
    PerDay,      \* bars of a session
    LastTime,    \* bound on time
    MaxEvents,   \* bound on the events
    Warmup,      \* bars before the ATR is finite; it is 1 from there
    Horizon,     \* horizon_bars of the barriers
    Window,      \* window of the counts and sums, in days
    Lag,         \* fred_lag_days and insider_lag_days
    MonthDays    \* days of a month

ASSUME DatasetAssumption ==
    /\ Shapes \subseteq [close: Int, high: Int, low: Int]
    /\ {PerDay, Lag, MonthDays} \subseteq Nat \ {0}
    /\ {Warmup, Horizon, Window} \subseteq Nat

VARIABLES
    time,        \* the bar that forms now
    history,     \* the bars so far, [at, close, high, low]
    news         \* what was published so far, [kind, at, value]

datasetVars == <<time, history, news>>

-----------------------------------------------------------------------------
Kinds == {"news", "insider", "recommendation", "fred"}
DayOf(t) == t \div PerDay

DatasetInit == time = 0 /\ history = <<>> /\ news = {}

(* Mutant of Available: values dated today are used today.                 *)
AvailableAtOnce(e) ==
    CASE e.kind = "news" -> e.at
      [] e.kind \in {"insider", "fred"} -> DayOf(e.at) * PerDay
      [] e.kind = "recommendation" ->
             (DayOf(e.at) \div MonthDays + 1) * MonthDays * PerDay

(* The first instant at which an event may enter a row: news when it was   *)
(* published, filings and FRED values after the lag in days, since only    *)
(* their date is known, and recommendations with the next month.           *)
Available(e) ==
    CASE e.kind = "news" -> e.at
      [] e.kind \in {"insider", "fred"} -> (DayOf(e.at) + Lag) * PerDay
      [] e.kind = "recommendation" ->
             (DayOf(e.at) \div MonthDays + 1) * MonthDays * PerDay

(* searchsorted(side="right"): the events of a kind as of a bar, and those *)
(* of them that are in the window.                                         *)
AsOf(kind, t) == {e \in news : e.kind = kind /\ Available(e) <= t}
InWindow(kind, t) ==
    {e \in AsOf(kind, t) : Available(e) > t - Window * PerDay}

Total(es) == MapThenSumSet(LAMBDA e : e.value, es)
Latest(es) == {e \in es : \A f \in es : Available(f) <= Available(e)}
Before(es) == es \ Latest(es)

(* The context columns of a bar: counts, sums, recency, last score, level  *)
(* and change.                                                             *)
Features(t) ==
    [news    |-> Cardinality(InWindow("news", t)),
     insider |-> Total(InWindow("insider", t)),
     since   |-> {t - Available(e) : e \in Latest(AsOf("insider", t))},
     score   |-> {e.value : e \in Latest(AsOf("recommendation", t))},
     level   |-> {e.value : e \in Latest(AsOf("fred", t))},
     change  |-> {e.value : e \in Latest(Before(AsOf("fred", t)))}]

-----------------------------------------------------------------------------
(* The bars that may decide the label of bar i.                            *)
Scanned(i) ==
    {j \in 1..Len(history) : i < j /\ j <= i + Horizon
                          /\ DayOf(history[j].at) = DayOf(history[i].at)}

Upper(i, j) == history[j].high >= history[i].close + 2
Lower(i, j) == history[j].low <= history[i].close - 1
Touches(i) == {j \in Scanned(i) : Upper(i, j) \/ Lower(i, j)}

Unlabelled == [label |-> "none", touch |-> "none", end |-> -1]
Labelled(touch, j) ==
    [label |-> IF touch = "upper" THEN "1" ELSE "0", touch |-> touch,
     end |-> history[j].at]

(* Mutant of Label: what was not touched so far is vertical.               *)
LabelEager(i) ==
    IF i < Warmup \/ Scanned(i) = {} THEN Unlabelled
    ELSE IF Touches(i) # {}
    THEN LET j == Min(Touches(i))
         IN  Labelled(IF Lower(i, j) THEN "lower" ELSE "upper", j)
    ELSE Labelled("vertical", Max(Scanned(i)))

(* The first touch, the lower barrier first within a bar; the vertical one *)
(* only when the whole horizon lies in the session and has been seen.      *)
Label(i) ==
    IF i < Warmup THEN Unlabelled
    ELSE IF Touches(i) # {}
    THEN LET j == Min(Touches(i))
         IN  Labelled(IF Lower(i, j) THEN "lower" ELSE "upper", j)
    ELSE IF i + Horizon \in Scanned(i) THEN Labelled("vertical", i + Horizon)
    ELSE Unlabelled

(* What a build gives now.                                                 *)
BuildRows ==
    {[entry |-> history[i].at, features |-> Features(history[i].at), label |-> Label(i)] :
        i \in {k \in 1..Len(history) : Label(k) # Unlabelled}}

-----------------------------------------------------------------------------
(* The bar of now; it ends when the next one begins.                       *)
NextBar(shape) ==
    /\ time < LastTime
    /\ history' = Append(history, [at |-> time, close |-> shape.close,
                                   high |-> shape.high, low |-> shape.low])
    /\ time' = time + 1
    /\ UNCHANGED news

(* No trade in these five minutes: no bar.                                 *)
NoBar == time < LastTime /\ time' = time + 1 /\ UNCHANGED <<history, news>>

(* An event is published before the bar of now begins.  A source gives one *)
(* value a day of each dated kind.                                         *)
Disclose(kind, value) ==
    /\ Cardinality(news) < MaxEvents /\ time < LastTime
    /\ kind # "news" => \A e \in news :
           e.kind = kind => DayOf(e.at) # DayOf(time)
    /\ news' = news \cup {[kind |-> kind, at |-> time, value |-> value]}
    /\ UNCHANGED <<time, history>>

DatasetNext ==
    \/ \E shape \in Shapes : NextBar(shape)
    \/ NoBar
    \/ \E kind \in Kinds, value \in {1, 2} : Disclose(kind, value)

DatasetSpec == DatasetInit /\ [][DatasetNext]_datasetVars

(* A row of a build, its features and its label, is a row of every later   *)
(* build: neither bars nor events that come after it change it.            *)
RowsStable == [][BuildRows \subseteq BuildRows']_datasetVars
=============================================================================
