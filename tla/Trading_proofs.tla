--------------------------- MODULE Trading_proofs ---------------------------
(***************************************************************************)
(* Proofs about the parts around the strategy runner that share no state:  *)
(* the trailing stop of a position, the stream of bars, the judge of an    *)
(* order, the lists of tickers the runs are spawned from, the back-test of *)
(* a strategy, the data sets models are trained on, and the six strategies.*)
(***************************************************************************)
EXTENDS TrailManager, BarStream, Judge, Watchlists, Backtest, Dataset, Strategies,
        SumTheorems, FiniteSetTheorems, TLAPS

-----------------------------------------------------------------------------
(***************************************************************************)
(* TrailManager: the stop of a position only tightens and a promoted stop  *)
(* locks in the entry, for all prices, initial stops and thresholds with   *)
(* distance <= trigger.                                                    *)
(***************************************************************************)

(* An initial stop is on the losing side of the entry, a break-even stop   *)
(* is the entry, a trailing stop has locked it in.                         *)
StopSide ==
    /\ trail.mode = "initial" => AtLeastAsTight(trail, trail.entry, trail.stop)
    /\ trail.mode = "break_even" => trail.stop = trail.entry
    /\ trail.mode = "trailing" => AtLeastAsTight(trail, trail.stop, trail.entry)

TrailIInv == TypeOK /\ StopSide /\ ExitReasonHonest

(* What one bar does to a state, field by field.                           *)
LEMMA MovedFields ==
  ASSUME TrailAssumption, NEW s \in TrailState, NEW m \in Thresholds,
         s.mode # "stopped",
         s.mode = "initial" => AtLeastAsTight(s, s.entry, s.stop),
         s.mode = "break_even" => s.stop = s.entry,
         s.mode = "trailing" => AtLeastAsTight(s, s.stop, s.entry)
  PROVE  LET t == Moved(s, m) IN
         /\ t \in TrailState
         /\ t.side = s.side /\ t.entry = s.entry /\ t.mode # "stopped"
         /\ AtLeastAsTight(s, t.stop, s.stop)
         /\ t.mode = "initial" => AtLeastAsTight(s, t.entry, t.stop)
         /\ t.mode = "break_even" => t.stop = t.entry
         /\ t.mode = "trailing" => AtLeastAsTight(s, t.stop, t.entry)
<1> DEFINE t == Moved(s, m)
<1>1. /\ m.distance \in Nat /\ m.trigger \in Nat /\ m.distance <= m.trigger
      /\ m.break_even \in Nat
  BY DEF TrailAssumption
<1>2. /\ s.entry \in Int /\ s.high \in Int /\ s.low \in Int /\ s.stop \in Int
      /\ s.mode \in TrailMode /\ s.side \in {"long", "short"}
      /\ Trailed(s, m.distance) \in Int
  BY <1>1 DEF TrailState, Trailed
<1>3. CASE s.mode = "initial" /\ Excursion(s) >= m.break_even
  <2>1. t = [s EXCEPT !.mode = "break_even", !.stop = s.entry]
    BY <1>3 DEF Moved
  <2>2. /\ t \in TrailState /\ t.side = s.side /\ t.entry = s.entry
        /\ t.mode = "break_even" /\ t.stop = s.entry
    BY <1>2, <2>1 DEF TrailState, TrailMode
  <2> HIDE DEF t
  <2> QED BY <1>3, <2>2 DEF t
<1>4. CASE s.mode = "break_even" /\ Excursion(s) >= m.trigger
  <2>1. t = [s EXCEPT !.mode = "trailing", !.stop = Trailed(s, m.distance)]
    BY <1>4 DEF Moved
  <2>2. /\ t \in TrailState /\ t.side = s.side /\ t.entry = s.entry
        /\ t.mode = "trailing" /\ t.stop = Trailed(s, m.distance)
    BY <1>2, <2>1 DEF TrailState, TrailMode
  <2>3. AtLeastAsTight(s, Trailed(s, m.distance), s.entry)
    BY <1>1, <1>2, <1>4 DEF AtLeastAsTight, Trailed, Excursion
  <2>4. s.stop = s.entry
    BY <1>4
  <2> HIDE DEF t
  <2> QED BY <2>2, <2>3, <2>4 DEF t
<1>5. CASE s.mode = "trailing"
  <2>1. t = Tightened(s, m.distance)
    BY <1>5 DEF Moved
  <2>2. /\ t \in TrailState /\ t.side = s.side /\ t.entry = s.entry
        /\ t.mode = "trailing"
        /\ t.stop = IF AtLeastAsTight(s, Trailed(s, m.distance), s.stop)
                    THEN Trailed(s, m.distance) ELSE s.stop
    BY <1>2, <1>5, <2>1 DEF TrailState, Tightened
  <2>3. AtLeastAsTight(s, t.stop, s.stop) /\ AtLeastAsTight(s, t.stop, s.entry)
    BY <1>2, <1>5, <2>2 DEF AtLeastAsTight
  <2> HIDE DEF t
  <2> QED BY <2>2, <2>3 DEF t
<1>6. CASE t = s
  BY <1>2, <1>6 DEF AtLeastAsTight
<1> QED BY <1>3, <1>4, <1>5, <1>6 DEF Moved

(* Taking a bar into the watermarks touches nothing else.                  *)
LEMMA WatermarkedFields ==
  ASSUME NEW s \in TrailState, NEW high \in Int, NEW low \in Int
  PROVE  LET w == Watermarked(s, high, low) IN
         /\ w \in TrailState /\ w.side = s.side /\ w.entry = s.entry
         /\ w.stop = s.stop /\ w.mode = s.mode
         /\ [w EXCEPT !.mode = "stopped"] \in TrailState
         /\ [w EXCEPT !.mode = "stopped"].side = s.side
         /\ [w EXCEPT !.mode = "stopped"].entry = s.entry
         /\ [w EXCEPT !.mode = "stopped"].stop = s.stop
         /\ [w EXCEPT !.mode = "stopped"].mode = "stopped"
  BY DEF Watermarked, TrailState, TrailMode

LEMMA TrailInitHolds == ASSUME TrailAssumption PROVE Init => TrailIInv
<1> SUFFICES ASSUME Init PROVE TrailIInv
  OBVIOUS
<1>1. PICK side \in {"long", "short"}, entry \in Prices, pts \in StopPts :
        trail = Seed(side, entry, pts)
  BY DEF Init
<1>2. entry \in Int /\ pts \in Nat
  BY DEF TrailAssumption
<1> QED BY <1>1, <1>2 DEF Init, TrailIInv, TypeOK, StopSide, ExitReasonHonest, NoExit,
           Seed, TrailState, TrailMode, AtLeastAsTight

(* Every bar keeps the invariant and does not loosen the stop.             *)
LEMMA BarKeepsTrail ==
  ASSUME TrailAssumption, TrailIInv, [Next]_vars
  PROVE  TrailIInv' /\ AtLeastAsTight(trail, trail'.stop, trail.stop)
<1>0. /\ trail \in TrailState /\ trail.stop \in Int
      /\ AtLeastAsTight(trail, trail.stop, trail.stop)
  BY DEF TrailIInv, TypeOK, TrailState, AtLeastAsTight
<1>1. CASE UNCHANGED vars
  BY <1>0, <1>1 DEF TrailIInv, TypeOK, StopSide, ExitReasonHonest, AtLeastAsTight, vars
<1>2. ASSUME NEW high \in Prices, NEW low \in Prices, UpdateTrail(high, low)
      PROVE  TrailIInv' /\ AtLeastAsTight(trail, trail'.stop, trail.stop)
  <2> DEFINE w == Watermarked(trail, high, low)
  <2>0. /\ w \in TrailState /\ w.side = trail.side /\ w.entry = trail.entry
        /\ w.stop = trail.stop /\ w.mode = trail.mode
        /\ [w EXCEPT !.mode = "stopped"] \in TrailState
        /\ [w EXCEPT !.mode = "stopped"].side = trail.side
        /\ [w EXCEPT !.mode = "stopped"].entry = trail.entry
        /\ [w EXCEPT !.mode = "stopped"].stop = trail.stop
        /\ [w EXCEPT !.mode = "stopped"].mode = "stopped"
    BY <1>0, WatermarkedFields DEF TrailAssumption
  <2>1. CASE StayStopped(high, low)
    BY <1>0, <2>1 DEF TrailIInv, TypeOK, StopSide, ExitReasonHonest, AtLeastAsTight,
                      StayStopped, NoExit
  <2>2. CASE HitStop(high, low)
    <3>1. /\ trail' = [w EXCEPT !.mode = "stopped"]
          /\ exit' = [reason |-> ExitReason(trail.mode), price |-> trail.stop]
          /\ trail.mode # "stopped"
      BY <2>2 DEF HitStop
    <3>2. /\ trail' \in TrailState /\ trail'.side = trail.side
          /\ trail'.entry = trail.entry /\ trail'.stop = trail.stop
          /\ trail'.mode = "stopped"
      BY <2>0, <3>1
    <3> HIDE DEF w
    <3>3. /\ ExitReason(trail.mode) \in {"stop", "break_even", "trail"}
          /\ ExitReason(trail.mode) = "break_even" => trail.mode = "break_even"
          /\ ExitReason(trail.mode) = "trail" => trail.mode = "trailing"
      BY DEF ExitReason
    <3>4. exit'.price = trail.stop /\ exit'.reason = ExitReason(trail.mode)
      BY <3>1
    <3>5. TypeOK'
      BY <1>0, <3>1, <3>2, <3>3 DEF TypeOK
    <3>6. StopSide'
      BY <3>2 DEF StopSide
    <3>7. ExitReasonHonest'
      BY <3>2, <3>3, <3>4 DEF TrailIInv, StopSide, ExitReasonHonest, AtLeastAsTight
    <3> QED BY <1>0, <3>2, <3>5, <3>6, <3>7 DEF TrailIInv, AtLeastAsTight
  <2>3. ASSUME NEW t \in TrailState, trail' = t, exit' = NoExit,
               t.side = trail.side, AtLeastAsTight(trail, t.stop, trail.stop),
               t.mode = "initial" => AtLeastAsTight(trail, t.entry, t.stop),
               t.mode = "break_even" => t.stop = t.entry,
               t.mode = "trailing" => AtLeastAsTight(trail, t.stop, t.entry)
        PROVE  TrailIInv' /\ AtLeastAsTight(trail, trail'.stop, trail.stop)
    BY <2>3 DEF TrailIInv, TypeOK, StopSide, ExitReasonHonest, AtLeastAsTight, NoExit
  <2>4. CASE CarryPlain(high, low)
    <3>1. trail' = w /\ exit' = NoExit
      BY <2>4 DEF CarryPlain
    <3> HIDE DEF w
    <3> QED BY <1>0, <2>0, <2>3, <3>1 DEF TrailIInv, StopSide, AtLeastAsTight
  <2>5. ASSUME NEW m \in Thresholds, CarryMoved(high, low, m)
        PROVE  TrailIInv' /\ AtLeastAsTight(trail, trail'.stop, trail.stop)
    <3> DEFINE t == Moved(w, m)
    <3>1. trail' = t /\ exit' = NoExit /\ w.mode # "stopped"
      BY <2>0, <2>5 DEF CarryMoved
    <3> HIDE DEF w
    <3>2. /\ t \in TrailState
          /\ t.side = w.side /\ t.entry = w.entry
          /\ AtLeastAsTight(w, t.stop, w.stop)
          /\ t.mode = "initial" => AtLeastAsTight(w, t.entry, t.stop)
          /\ t.mode = "break_even" => t.stop = t.entry
          /\ t.mode = "trailing" => AtLeastAsTight(w, t.stop, t.entry)
      <4>1. /\ w.mode = "initial" => AtLeastAsTight(w, w.entry, w.stop)
            /\ w.mode = "break_even" => w.stop = w.entry
            /\ w.mode = "trailing" => AtLeastAsTight(w, w.stop, w.entry)
        BY <2>0 DEF TrailIInv, StopSide, AtLeastAsTight
      <4> QED BY <2>0, <3>1, <4>1, MovedFields
    <3> HIDE DEF t
    <3> QED BY <2>0, <2>3, <3>1, <3>2 DEF AtLeastAsTight
  <2> QED BY <1>2, <2>1, <2>2, <2>4, <2>5 DEF UpdateTrail
<1> QED BY <1>1, <1>2 DEF Next

THEOREM TrailInvariance == ASSUME TrailAssumption PROVE Spec => []TrailIInv
<1>1. Init => TrailIInv
  BY TrailInitHolds
<1>2. TrailIInv /\ [Next]_vars => TrailIInv'
  BY BarKeepsTrail
<1> QED BY <1>1, <1>2, PTL DEF Spec

(* The stop of a position never loosens, whatever the bars and thresholds. *)
THEOREM StopTightens == ASSUME TrailAssumption PROVE Spec => StopNeverLoosens
<1>1. TrailIInv /\ [Next]_vars => [AtLeastAsTight(trail, trail'.stop, trail.stop)]_vars
  BY BarKeepsTrail
<1> QED BY <1>1, TrailInvariance, PTL DEF Spec, StopNeverLoosens

(* What update_trail leaves behind is well typed, a promoted position is   *)
(* never stopped out at a price worse than its entry, and the exit's reason*)
(* tells so.                                                               *)
THEOREM TrailSafe == ASSUME TrailAssumption PROVE Spec => []TrailInv
<1>1. TrailIInv => PromotedLocksEntry
  BY DEF TrailIInv, TypeOK, TrailState, StopSide, PromotedLocksEntry, AtLeastAsTight
<1>2. TrailIInv => TrailInv
  BY <1>1 DEF TrailIInv, TrailInv
<1> QED BY <1>2, TrailInvariance, PTL

-----------------------------------------------------------------------------
(***************************************************************************)
(* BarStream: for a queue of any size and any number of bars, a skipped    *)
(* bar is older than a full queue of others: the queue always holds the    *)
(* latest bars without a gap, so its length says which.                    *)
(***************************************************************************)

(* The newest bar that has left the queue, by either end.                  *)
LastLeft == arrived - Len(queue)

(* The queue holds the latest bars.                                        *)
Consecutive ==
    /\ arrived \in Nat /\ queue \in Seq(Nat)
    /\ Len(queue) <= MaxQueue /\ Len(queue) <= arrived
    /\ \A i \in DOMAIN queue : queue[i] = LastLeft + i

(* What was handed over is in order, older than what the task holds, and   *)
(* that is older than the queue.                                           *)
InOrder ==
    /\ seen \in Seq(Nat) /\ getter \in [task: BOOLEAN, bar: Nat]
    /\ getter.bar <= LastLeft
    /\ \A n \in DOMAIN seen : seen[n] <= LastLeft /\ (getter.bar # 0 => seen[n] < getter.bar)
    /\ \A m, n \in DOMAIN seen : m < n => seen[m] < seen[n]

(* A bar that is nowhere was dropped at the front of a full queue.         *)
NoneLost ==
    \A b \in 1..arrived : b \notin ToSet(seen) \cup Pending => b + MaxQueue <= arrived

(* The generator's life.                                                   *)
ReaderPhases ==
    /\ reader # "waiting" => getter = NoGetter
    /\ reader \in {"draining", "ended", "raised"} => run # "running"
    /\ run \in {"running", "returned", "raised"}
    /\ reader \in {"ended", "raised"} => queue = <<>>
    /\ reader = "ended" => run = "returned"

BarIInv == Consecutive /\ InOrder /\ NoneLost /\ ReaderPhases

-----------------------------------------------------------------------------
LEMMA BarInitHolds == ASSUME MaxQueue \in Nat \ {0} PROVE BarInit => BarIInv
<1> SUFFICES ASSUME BarInit PROVE BarIInv
  OBVIOUS
<1>1. getter \in [task: BOOLEAN, bar: Nat] /\ getter.bar = 0
  BY DEF BarInit, NoGetter
<1>2. arrived = 0 /\ queue = <<>> /\ seen = <<>>
  BY DEF BarInit
<1>3. LastLeft = 0
  <2>1. Len(queue) = 0
    BY <1>2
  <2>2. arrived = 0
    BY <1>2
  <2> QED BY <2>1, <2>2 DEF LastLeft
<1>4. Consecutive /\ InOrder
  BY <1>1, <1>2, <1>3 DEF Consecutive, InOrder
<1>5. NoneLost /\ ReaderPhases
  BY <1>2 DEF BarInit, NoneLost, ReaderPhases
<1> QED BY <1>4, <1>5 DEF BarIInv

(* The queue gives its first bar away.                                     *)
LEMMA HeadTaken ==
  ASSUME MaxQueue \in Nat \ {0}, Consecutive, queue # <<>>, queue' = Tail(queue),
         arrived' = arrived
  PROVE  /\ Consecutive' /\ LastLeft' = LastLeft + 1 /\ Head(queue) = LastLeft + 1
         /\ LastLeft \in Nat
         /\ ToSet(queue) \subseteq ToSet(queue') \cup {Head(queue)}
<1>1. /\ queue \in Seq(Nat) /\ Len(queue) \in Nat /\ Len(queue) > 0
      /\ queue' \in Seq(Nat) /\ Len(queue') = Len(queue) - 1
      /\ DOMAIN queue = 1..Len(queue) /\ DOMAIN queue' = 1..(Len(queue) - 1)
      /\ Head(queue) = queue[1]
      /\ \A i \in DOMAIN queue' : queue'[i] = queue[i + 1]
  BY DEF Consecutive
<1>2. LastLeft' = LastLeft + 1 /\ Head(queue) = LastLeft + 1 /\ LastLeft \in Nat
  BY <1>1 DEF Consecutive, LastLeft
<1>3. ASSUME NEW i \in DOMAIN queue' PROVE queue'[i] = LastLeft' + i
  <2>1. i + 1 \in DOMAIN queue /\ i \in Nat
    BY <1>1
  <2>2. queue[i + 1] = LastLeft + (i + 1)
    BY <2>1 DEF Consecutive
  <2> QED BY <1>1, <1>2, <2>1, <2>2
<1>4. Consecutive'
  BY <1>1, <1>3 DEF Consecutive
<1>5. ASSUME NEW i \in DOMAIN queue PROVE queue[i] \in ToSet(queue') \cup {Head(queue)}
  <2>1. CASE i = 1
    BY <1>1, <2>1
  <2>2. CASE i # 1
    <3>1. i - 1 \in DOMAIN queue' /\ queue'[i - 1] = queue[i]
      BY <1>1, <2>2
    <3> QED BY <3>1 DEF ToSet
  <2> QED BY <2>1, <2>2
<1> QED BY <1>2, <1>4, <1>5 DEF ToSet

(* A bar arrives; a full queue drops its first.                            *)
LEMMA OnBarKeeps ==
  ASSUME MaxQueue \in Nat \ {0}, BarIInv, OnBar
  PROVE  BarIInv'
<1> DEFINE q == IF Len(queue) = MaxQueue THEN Tail(queue) ELSE queue
<1>1. /\ arrived \in Nat /\ arrived' = arrived + 1 /\ queue' = Append(q, arrived + 1)
      /\ UNCHANGED <<getter, run, reader, seen>> /\ run = "running"
  BY DEF OnBar, Queued, BarIInv, Consecutive
<1>2. /\ q \in Seq(Nat) /\ Len(q) \in Nat /\ Len(q) < MaxQueue /\ Len(q) <= arrived
      /\ \A i \in DOMAIN q : q[i] = arrived - Len(q) + i
      /\ LastLeft <= arrived - Len(q)
  <2>1. CASE Len(queue) = MaxQueue
    <3>1. queue # <<>> /\ q = Tail(queue) /\ queue \in Seq(Nat)
      BY <2>1 DEF BarIInv, Consecutive
    <3>2. /\ Len(q) = Len(queue) - 1 /\ q \in Seq(Nat) /\ Len(queue) \in Nat
          /\ \A i \in DOMAIN q : i \in 1..(Len(queue) - 1) /\ q[i] = queue[i + 1]
      BY <2>1, <3>1
    <3> HIDE DEF q
    <3>3. ASSUME NEW i \in DOMAIN q PROVE q[i] = arrived - Len(q) + i
      <4>1. i + 1 \in DOMAIN queue /\ i \in Nat
        BY <3>1, <3>2
      <4>2. queue[i + 1] = LastLeft + (i + 1)
        BY <4>1 DEF BarIInv, Consecutive
      <4> QED BY <1>1, <3>2, <4>1, <4>2 DEF LastLeft
    <3>4. Len(queue) <= arrived
      BY DEF BarIInv, Consecutive
    <3>5. Len(q) \in Nat /\ Len(q) < MaxQueue /\ Len(q) <= arrived
      BY <1>1, <2>1, <3>2, <3>4
    <3>6. LastLeft <= arrived - Len(q)
      BY <1>1, <3>2 DEF LastLeft
    <3> QED BY <3>2, <3>3, <3>5, <3>6
  <2>2. CASE Len(queue) # MaxQueue
    BY <2>2 DEF BarIInv, Consecutive, LastLeft
  <2> QED BY <2>1, <2>2
<1>3. ASSUME NEW b \in ToSet(queue), b \notin ToSet(q)
      PROVE  b + MaxQueue <= arrived + 1
  <2>1. Len(queue) = MaxQueue /\ queue # <<>> /\ queue \in Seq(Nat)
    BY <1>3 DEF BarIInv, Consecutive
  <2>2. PICK i \in DOMAIN queue : b = queue[i]
    BY DEF ToSet
  <2>3. i = 1
    <3>1. SUFFICES ASSUME i # 1 PROVE FALSE
      OBVIOUS
    <3>2. i - 1 \in DOMAIN q /\ q[i - 1] = queue[i]
      BY <2>1, <3>1
    <3> QED BY <1>3, <2>2, <3>2 DEF ToSet
  <2> QED BY <2>1, <2>2, <2>3 DEF BarIInv, Consecutive, LastLeft
<1> HIDE DEF q
<1>4. /\ queue' \in Seq(Nat) /\ Len(queue') = Len(q) + 1
      /\ DOMAIN q = 1..Len(q) /\ DOMAIN queue' = 1..(Len(q) + 1)
      /\ queue'[Len(q) + 1] = arrived + 1 /\ \A i \in DOMAIN q : queue'[i] = q[i]
  BY <1>1, <1>2
<1>5. LastLeft' = arrived - Len(q) /\ LastLeft <= LastLeft' /\ LastLeft' \in Int /\ LastLeft \in Int
  BY <1>1, <1>2, <1>4 DEF LastLeft, BarIInv, Consecutive
<1>6. Consecutive'
  <2>1. \A i \in DOMAIN queue' : queue'[i] = LastLeft' + i
    BY <1>1, <1>2, <1>4, <1>5
  <2> QED BY <1>1, <1>2, <1>4, <2>1 DEF Consecutive
<1>7. InOrder'
  BY <1>1, <1>5 DEF BarIInv, InOrder
<1>8. NoneLost'
  <2> SUFFICES ASSUME NEW b \in 1..(arrived + 1), b \notin ToSet(seen),
                      b \notin ToSet(queue'), b # getter.bar
               PROVE  b + MaxQueue <= arrived + 1
    BY <1>1 DEF NoneLost, Pending
  <2>1. b # arrived + 1
    BY <1>2, <1>4 DEF ToSet
  <2>2. b \notin ToSet(q)
    BY <1>4 DEF ToSet
  <2>3. CASE b \in ToSet(queue)
    BY <1>3, <2>2, <2>3
  <2>4. CASE b \notin ToSet(queue)
    BY <1>1, <2>1, <2>4 DEF BarIInv, NoneLost, Pending
  <2> QED BY <2>3, <2>4
<1>9. ReaderPhases'
  BY <1>1 DEF BarIInv, ReaderPhases
<1> QED BY <1>6, <1>7, <1>8, <1>9 DEF BarIInv

(* The task takes the first bar of the queue.                              *)
LEMMA GetKeeps ==
  ASSUME MaxQueue \in Nat \ {0}, BarIInv, Get
  PROVE  BarIInv'
<1>1. /\ queue # <<>> /\ queue' = Tail(queue) /\ getter = Waiting
      /\ getter' = [task |-> TRUE, bar |-> Head(queue)]
      /\ UNCHANGED <<arrived, run, reader, seen>>
  BY DEF Get
<1>2. /\ Consecutive' /\ LastLeft' = LastLeft + 1 /\ Head(queue) = LastLeft + 1 /\ LastLeft \in Nat
      /\ ToSet(queue) \subseteq ToSet(queue') \cup {Head(queue)}
  BY <1>1, HeadTaken DEF BarIInv
<1>3. getter'.bar = LastLeft + 1 /\ getter' \in [task: BOOLEAN, bar: Nat]
  BY <1>1, <1>2
<1>4. seen \in Seq(Nat) /\ \A n \in DOMAIN seen : seen[n] \in Nat /\ seen[n] <= LastLeft
  BY DEF BarIInv, InOrder
<1>5. InOrder'
  BY <1>1, <1>2, <1>3, <1>4 DEF BarIInv, InOrder
<1>6. NoneLost'
  <2>1. getter.bar = 0
    BY <1>1 DEF Waiting
  <2> SUFFICES ASSUME NEW b \in 1..arrived, b \notin ToSet(seen),
                      b \notin ToSet(queue'), b # Head(queue)
               PROVE  b + MaxQueue <= arrived
    BY <1>1, <1>2, <1>3 DEF NoneLost, Pending
  <2> QED BY <1>2, <2>1 DEF BarIInv, NoneLost, Pending
<1>7. ReaderPhases'
  <2>1. reader = "waiting"
    BY <1>1 DEF BarIInv, ReaderPhases, NoGetter, Waiting
  <2> QED BY <1>1, <2>1 DEF BarIInv, ReaderPhases
<1> QED BY <1>2, <1>5, <1>6, <1>7 DEF BarIInv

(* The runner is handed a bar.                                             *)
LEMMA SeenAppended ==
  ASSUME InOrder, NEW b \in Nat, seen' = Append(seen, b),
         \A n \in DOMAIN seen : seen[n] < b
  PROVE  /\ seen' \in Seq(Nat) /\ ToSet(seen') = ToSet(seen) \cup {b}
         /\ \A n \in DOMAIN seen' : seen'[n] <= b
         /\ \A m, n \in DOMAIN seen' : m < n => seen'[m] < seen'[n]
<1>1. /\ seen \in Seq(Nat) /\ Len(seen) \in Nat /\ Len(seen') = Len(seen) + 1
      /\ DOMAIN seen = 1..Len(seen) /\ DOMAIN seen' = 1..(Len(seen) + 1)
      /\ seen' \in Seq(Nat) /\ seen'[Len(seen) + 1] = b
      /\ \A n \in DOMAIN seen : seen'[n] = seen[n] /\ seen[n] \in Nat
  BY DEF InOrder
<1>2. ToSet(seen') = ToSet(seen) \cup {b}
  BY <1>1 DEF ToSet
<1>3. \A n \in DOMAIN seen' : seen'[n] <= b
  BY <1>1
<1>4. \A m, n \in DOMAIN seen' : m < n => seen'[m] < seen'[n]
  <2> SUFFICES ASSUME NEW m \in DOMAIN seen', NEW n \in DOMAIN seen', m < n
               PROVE  seen'[m] < seen'[n]
    OBVIOUS
  <2>1. m \in DOMAIN seen
    BY <1>1
  <2>2. CASE n \in DOMAIN seen
    BY <1>1, <2>1, <2>2 DEF InOrder
  <2>3. CASE n \notin DOMAIN seen
    BY <1>1, <2>1, <2>3
  <2> QED BY <2>2, <2>3
<1> QED BY <1>1, <1>2, <1>3, <1>4

LEMMA YieldKeeps ==
  ASSUME BarIInv, Yield
  PROVE  BarIInv'
<1>1. /\ reader = "waiting" /\ reader' = "yielded" /\ getter.bar # 0
      /\ seen' = Append(seen, getter.bar) /\ getter' = NoGetter
      /\ UNCHANGED <<queue, arrived, run>>
  BY DEF Yield
<1>2. getter.bar \in Nat /\ getter.bar <= LastLeft /\ LastLeft \in Int
  BY DEF BarIInv, InOrder, Consecutive, LastLeft
<1>3. /\ seen' \in Seq(Nat) /\ ToSet(seen') = ToSet(seen) \cup {getter.bar}
      /\ \A n \in DOMAIN seen' : seen'[n] <= getter.bar
      /\ \A m, n \in DOMAIN seen' : m < n => seen'[m] < seen'[n]
  BY <1>1, <1>2, SeenAppended DEF BarIInv, InOrder
<1>4. LastLeft' = LastLeft /\ Consecutive'
  BY <1>1 DEF LastLeft, BarIInv, Consecutive
<1>5. getter' \in [task: BOOLEAN, bar: Nat] /\ getter'.bar = 0
  BY <1>1 DEF NoGetter
<1>6. 0 <= LastLeft
  BY DEF BarIInv, Consecutive, LastLeft
<1>7. \A n \in DOMAIN seen' : seen'[n] <= LastLeft
  <2>1. \A n \in DOMAIN seen' : seen'[n] \in Nat
    BY <1>3
  <2> QED BY <1>2, <1>3, <2>1
<1>8. InOrder'
  BY <1>3, <1>4, <1>5, <1>6, <1>7 DEF InOrder
<1>9. NoneLost'
  BY <1>1, <1>3 DEF BarIInv, NoneLost, Pending
<1>10. ReaderPhases'
  BY <1>1 DEF BarIInv, ReaderPhases
<1> QED BY <1>4, <1>8, <1>9, <1>10 DEF BarIInv

LEMMA DrainKeeps ==
  ASSUME MaxQueue \in Nat \ {0}, BarIInv, Drain
  PROVE  BarIInv'
<1>1. /\ queue # <<>> /\ queue' = Tail(queue) /\ reader = "draining"
      /\ seen' = Append(seen, Head(queue))
      /\ UNCHANGED <<arrived, getter, run, reader>>
  BY DEF Drain
<1>2. /\ Consecutive' /\ LastLeft' = LastLeft + 1 /\ Head(queue) = LastLeft + 1 /\ LastLeft \in Nat
      /\ ToSet(queue) \subseteq ToSet(queue') \cup {Head(queue)}
  BY <1>1, HeadTaken DEF BarIInv
<1>3. \A n \in DOMAIN seen : seen[n] \in Nat /\ seen[n] < Head(queue)
  BY <1>2 DEF BarIInv, InOrder
<1>4. /\ seen' \in Seq(Nat) /\ ToSet(seen') = ToSet(seen) \cup {Head(queue)}
      /\ \A n \in DOMAIN seen' : seen'[n] <= Head(queue)
      /\ \A m, n \in DOMAIN seen' : m < n => seen'[m] < seen'[n]
  BY <1>1, <1>2, <1>3, SeenAppended DEF BarIInv
<1>5. getter = NoGetter /\ getter.bar = 0
  BY <1>1 DEF BarIInv, ReaderPhases, NoGetter
<1>6. InOrder'
  BY <1>1, <1>2, <1>4, <1>5 DEF BarIInv, InOrder
<1>7. NoneLost'
  <2> SUFFICES ASSUME NEW b \in 1..arrived, b \notin ToSet(seen),
                      b \notin ToSet(queue'), b # Head(queue), b # getter.bar
               PROVE  b + MaxQueue <= arrived
    BY <1>1, <1>4 DEF NoneLost, Pending
  <2> QED BY <1>2 DEF BarIInv, NoneLost, Pending
<1>8. ReaderPhases'
  BY <1>1 DEF BarIInv, ReaderPhases
<1> QED BY <1>2, <1>6, <1>7, <1>8 DEF BarIInv

(* The steps that move no bar.                                             *)
LEMMA OthersKeep ==
  ASSUME BarIInv, RunOver \/ Wait \/ Proceed \/ Cancel \/ Over \/ UNCHANGED barVars
  PROVE  BarIInv'
<1>1. UNCHANGED <<queue, arrived, seen>>
  BY DEF RunOver, Wait, Proceed, Cancel, Over, barVars
<1>2. getter' = getter \/ (getter.bar = 0 /\ getter' \in {Waiting, NoGetter})
  BY DEF RunOver, Wait, Proceed, Cancel, Over, barVars, BarIInv, ReaderPhases, Waiting, NoGetter
<1>3. getter'.bar = getter.bar /\ getter' \in [task: BOOLEAN, bar: Nat]
  <2>1. Waiting.bar = 0 /\ Waiting \in [task: BOOLEAN, bar: Nat]
    BY DEF Waiting
  <2>2. NoGetter.bar = 0 /\ NoGetter \in [task: BOOLEAN, bar: Nat]
    BY DEF NoGetter
  <2> QED BY <1>2, <2>1, <2>2 DEF BarIInv, InOrder
<1>4. LastLeft' = LastLeft /\ Consecutive'
  BY <1>1 DEF LastLeft, BarIInv, Consecutive
<1>5. InOrder' /\ NoneLost'
  BY <1>1, <1>3, <1>4 DEF BarIInv, InOrder, NoneLost, Pending
<1>6. ReaderPhases'
  BY DEF RunOver, Wait, Proceed, Cancel, Over, barVars, BarIInv, ReaderPhases
<1> QED BY <1>4, <1>5, <1>6 DEF BarIInv

(* Bars are handed over in order and once, a skipped bar is older than a   *)
(* full queue of others, and nothing waits when the stream has ended.      *)
THEOREM BarsStayInOrder ==
  ASSUME MaxQueue \in Nat \ {0}
  PROVE  BarSpec => []BarsInOrder
<1>1. BarIInv /\ [BarNext]_barVars => BarIInv'
  BY OnBarKeeps, GetKeeps, YieldKeeps, DrainKeeps, OthersKeep DEF BarNext
<1>2. BarIInv => BarsInOrder
  <2> SUFFICES ASSUME BarIInv PROVE BarsInOrder
    OBVIOUS
  <2>1. reader \in {"ended", "raised"} => Pending \subseteq {0}
    BY DEF BarIInv, ReaderPhases, Pending, NoGetter, ToSet
  <2> QED BY <2>1 DEF BarIInv, InOrder, NoneLost, ReaderPhases, BarsInOrder
<1> QED BY <1>1, <1>2, BarInitHolds, PTL DEF BarSpec

-----------------------------------------------------------------------------
(***************************************************************************)
(* Judge: no order goes on blindly, for any number of companies under a    *)
(* ticker and whatever research writes while the judge reads: what has     *)
(* been decided is sound for the context it was decided on, and the saved  *)
(* row repeats the decision the runner sees.                               *)
(***************************************************************************)

(* A decision that is not a veto comes from an answer of the right form on *)
(* a context that is not sparse.                                           *)
Sound(v, c) ==
    /\ v.decision \in {"approve", "veto", "approve_reduced"}
    /\ v.decision # "veto" =>
        /\ v.called /\ ~IsSparse(c)
        /\ v.size = "part" <=> v.decision = "approve_reduced"

(* The sector brief is read through the thesis only.                       *)
ContextInv ==
    /\ context = [entity |-> context.entity, hypotheses |-> context.hypotheses,
                  thesis |-> context.thesis, brief |-> context.brief]
    /\ context.brief => context.thesis
    /\ step \in {"entity", "hypotheses", "thesis", "sector"} => ~context.brief

(* How far the judge has come.                                             *)
Reading == {"entity", "hypotheses", "thesis", "sector", "decide"}
StepsInv ==
    /\ step \in Reading \cup {"persist", "verdict", "done", "errored"}
    /\ step \in Reading \cup {"persist", "errored"} => ruling = NoRuling
    /\ step \in {"verdict", "done"} => ruling = [verdict |-> verdict, context |-> context]
    /\ step \in {"persist", "verdict", "done"} => Sound(verdict, context)
    /\ order => step = "done" /\ ~Blocks(verdict)

JudgeIInv == ContextInv /\ StepsInv

-----------------------------------------------------------------------------
LEMMA JudgeInitHolds == JudgeInit => JudgeIInv
BY DEF JudgeInit, JudgeIInv, ContextInv, StepsInv, NoContext, Reading

(* What is read is added to the context, before anything is decided.       *)
LEMMA ReadHolds ==
    ASSUME JudgeIInv, FindEntity \/ GatherHypotheses \/ LatestThesis \/ LatestSectorBrief
    PROVE  JudgeIInv'
<1> USE DEF JudgeIInv, Reads
<1>1. StepsInv'
  BY DEF FindEntity, GatherHypotheses, LatestThesis, LatestSectorBrief, StepsInv, Reading
<1>2. CASE FindEntity
  <2>1. ContextInv'
    BY <1>2 DEF FindEntity, ContextInv
  <2> QED BY <1>1, <2>1
<1>3. CASE GatherHypotheses
  <2>1. ContextInv'
    BY <1>3 DEF GatherHypotheses, ContextInv
  <2> QED BY <1>1, <2>1
<1>4. CASE LatestThesis
  <2>1. ContextInv'
    BY <1>4 DEF LatestThesis, ContextInv
  <2> QED BY <1>1, <2>1
<1>5. CASE LatestSectorBrief
  <2>1. ContextInv'
    BY <1>5 DEF LatestSectorBrief, ContextInv
  <2> QED BY <1>1, <2>1
<1> QED BY <1>2, <1>3, <1>4, <1>5

(* Every branch of evaluate decides soundly.                               *)
LEMMA DecisionSound ==
    ASSUME JudgeIInv, VetoSparse \/ VetoFailed \/ CallAnswers
    PROVE  JudgeIInv'
<1>1. PICK v : Decides(v) /\ Sound(v, context)
  <2>1. Sound(Veto(FALSE), context) /\ Sound(Veto(TRUE), context)
    BY DEF Sound, Veto
  <2>2. CASE VetoSparse \/ VetoFailed
    BY <2>1, <2>2 DEF VetoSparse, VetoFailed
  <2>3. CASE CallAnswers
    <3>1. PICK r \in Responses : Decides(Answered(r))
      BY <2>3 DEF CallAnswers
    <3>2. ~IsSparse(context)
      BY <2>3 DEF CallAnswers
    <3>3. CASE Parses(r)
      <4>1. Answered(r) = [decision |-> r.decision, size |-> r.size, called |-> TRUE]
        BY <3>3 DEF Answered
      <4>2. Sound(Answered(r), context)
        BY <3>2, <3>3, <4>1 DEF Sound, Parses
      <4> QED BY <3>1, <4>2
    <3>4. CASE ~Parses(r)
      BY <2>1, <3>1, <3>4 DEF Answered
    <3> QED BY <3>3, <3>4
  <2> QED BY <2>2, <2>3
<1> QED BY <1>1 DEF Decides, JudgeIInv, ContextInv, StepsInv, Reading, Sound, Blocks

LEMMA JudgeStepHolds == JudgeIInv /\ [JudgeNext]_judgeVars => JudgeIInv'
<1> SUFFICES ASSUME JudgeIInv, [JudgeNext]_judgeVars PROVE JudgeIInv'
  OBVIOUS
<1>1. CASE UNCHANGED judgeVars
  BY <1>1 DEF judgeVars, JudgeIInv, ContextInv, StepsInv, Sound, Blocks, IsSparse
<1>2. CASE Research
  BY <1>2 DEF Research, JudgeIInv, ContextInv, StepsInv, Sound, Blocks, IsSparse
<1>3. CASE FindEntity \/ GatherHypotheses \/ LatestThesis \/ LatestSectorBrief
  BY <1>3, ReadHolds
<1>4. CASE VetoSparse \/ VetoFailed \/ CallAnswers
  BY <1>4, DecisionSound
<1>5. CASE PersistVerdict
  BY <1>5 DEF PersistVerdict, JudgeIInv, ContextInv, StepsInv, Reading, Sound, Blocks, IsSparse
<1>6. CASE ActOnVerdict
  BY <1>6 DEF ActOnVerdict, JudgeIInv, ContextInv, StepsInv, Reading, Sound, Blocks, IsSparse
<1>7. CASE AnswerRaises
  BY <1>7 DEF AnswerRaises, JudgeIInv, ContextInv, StepsInv, Reading, Sound, Blocks, IsSparse
<1> QED BY <1>1, <1>2, <1>3, <1>4, <1>5, <1>6, <1>7 DEF JudgeNext

THEOREM JudgeInvariance == JudgeSpec => []JudgeIInv
BY JudgeInitHolds, JudgeStepHolds, PTL DEF JudgeSpec

(* For any number of companies and any interleaving with research: an order*)
(* goes on only with its verdict on record, a live one only with a verdict *)
(* that the model gave, in the right form, on research about the company.  *)
THEOREM NoOrderIsBlind == JudgeSpec => []NoBlindOrder
<1>1. JudgeIInv => NoBlindOrder
  <2> SUFFICES ASSUME JudgeIInv PROVE NoBlindOrder
    OBVIOUS
  <2>1. CASE ruling = NoRuling
    <3>1. ~order
      BY <2>1 DEF JudgeIInv, StepsInv, NoRuling, NoVerdict, Sound
    <3> QED BY <2>1, <3>1 DEF NoBlindOrder
  <2>2. CASE ruling # NoRuling
    <3>1. /\ ruling = [verdict |-> verdict, context |-> context]
          /\ Sound(verdict, context)
          /\ order => ~Blocks(verdict)
      BY <2>2 DEF JudgeIInv, StepsInv, Reading
    <3>2. ruling.verdict = verdict /\ ruling.context = context
      BY <3>1
    <3> QED BY <2>2, <3>1, <3>2 DEF NoBlindOrder, Sound, Blocks, IsSparse, JudgeIInv, ContextInv
  <2> QED BY <2>1, <2>2
<1> QED BY <1>1, JudgeInvariance, PTL

-----------------------------------------------------------------------------
(***************************************************************************)
(* Watchlists: what is single, is so unless sessions overlapped, for any   *)
(* number of them.  Cardinalities are kept out of the invariant: two rows  *)
(* for one list and ticker are the same row.                               *)
(***************************************************************************)

(* The lists are numbered as they come, and rows belong to lists.          *)
ListsInv ==
    /\ \E n \in Nat : lists = 1..n /\ lists \cap OtherLists = {}
    /\ IsFiniteSet(rows) /\ lastId \in Nat
    /\ \A r \in rows : r.list \in lists \cup OtherLists
    /\ byUser \subseteq lists /\ research \subseteq byUser \cup OtherLists

(* What a session remembers of the lists.                                  *)
SessionInv ==
    /\ DOMAIN session = Sessions
    /\ \A s \in Sessions :
        /\ session[s].pc = "adding" => session[s].list \in lists \cup OtherLists
        /\ session[s].pc = "rebuilding" =>
              /\ session[s].list \in research
              /\ \A r \in session[s].seen : r.list = session[s].list
        /\ session[s].pc \in {"spawning", "spawned"} => session[s].list \in lists

(* A member is there once unless its insertion raced.                      *)
OnceInv ==
    \A a, b \in rows :
        a.list = b.list /\ a.ticker = b.ticker /\ <<a.list, a.ticker>> \notin raced => a = b

(* Unless starts of the service overlapped there is one of them at a time, *)
(* and it creates a list only if there is none but a user's.               *)
OneInv ==
    ~doubled =>
        /\ \A s, q \in Starting : s = q
        /\ \A s \in Sessions : session[s].pc = "creating" => lists \subseteq byUser
        /\ \A l, k \in lists \ byUser : l = k

(* A list of the service that nobody edited has the service's own ticker,  *)
(* and so has what was spawned from it.                                    *)
MineInv ==
    /\ \A l \in lists \ (edited \cup byUser) : \E r \in rows : r.list = l /\ r.ticker = Mine
    /\ \A s \in Sessions : session[s].pc = "spawned" =>
        /\ IsFiniteSet(session[s].seen)
        /\ \A job \in session[s].seen :
              /\ job = [id |-> job.id, row |-> job.row, status |-> "pending"]
              /\ job.row.list = session[s].list
        /\ session[s].list \notin edited \cup byUser =>
              \E job \in session[s].seen : job.row.ticker = Mine
    /\ RunsMine

UniverseIInv == ListsInv /\ SessionInv /\ OnceInv /\ OneInv /\ MineInv

-----------------------------------------------------------------------------
(* The rows of an insertion: one for each ticker.                          *)
LEMMA FreshRows ==
  ASSUME lastId \in Nat, NEW l, NEW ts, IsFiniteSet(ts)
  PROVE  /\ IsFiniteSet(Fresh(l, ts))
         /\ \A r \in Fresh(l, ts) : r.list = l /\ r.ticker \in ts
         /\ \A t \in ts : \E r \in Fresh(l, ts) : r.ticker = t
         /\ \A a, b \in Fresh(l, ts) : a.ticker = b.ticker => a = b
<1> DEFINE n == Cardinality(ts)
           rec == [id: lastId + 1 .. lastId + n, list: {l}, ticker: ts]
           Good(new) == /\ {r.ticker : r \in new} = ts
                        /\ Cardinality(new) = n
                        /\ {r.id : r \in new} = lastId + 1 .. lastId + n
<1>1. n \in Nat /\ ExistsBijection(1..n, ts)
  BY FS_CardinalityType
<1>2. PICK f \in Bijection(1..n, ts) : TRUE
  BY <1>1 DEF ExistsBijection
<1>3. /\ f \in [1..n -> ts] /\ \A t \in ts : \E i \in 1..n : f[i] = t
      /\ \A i, j \in 1..n : f[i] = f[j] => i = j
  BY <1>2 DEF Bijection, Injection, Surjection, IsInjective
<1>4. \E new \in SUBSET rec : Good(new)
  <2> DEFINE g == [i \in 1..n |-> [id |-> lastId + i, list |-> l, ticker |-> f[i]]]
             new == {g[i] : i \in 1..n}
  <2>0. \A i \in 1..n : g[i] = [id |-> lastId + i, list |-> l, ticker |-> f[i]]
    OBVIOUS
  <2>1. new \in SUBSET rec
    <3> SUFFICES ASSUME NEW i \in 1..n PROVE g[i] \in rec
      OBVIOUS
    <3>1. lastId + i \in lastId + 1 .. lastId + n /\ f[i] \in ts
      BY <1>1, <1>3
    <3> QED BY <2>0, <3>1
  <2>2. {r.ticker : r \in new} = ts
    <3>1. ASSUME NEW t \in ts PROVE \E r \in new : r.ticker = t
      <4>1. PICK i \in 1..n : f[i] = t
        BY <1>3
      <4>2. g[i] \in new /\ g[i].ticker = t
        BY <2>0, <4>1
      <4> QED BY <4>2
    <3>2. \A r \in new : r.ticker \in ts
      BY <2>1
    <3> HIDE DEF new
    <3> QED BY <3>1, <3>2
  <2>3. {r.id : r \in new} = lastId + 1 .. lastId + n
    <3>1. ASSUME NEW k \in lastId + 1 .. lastId + n PROVE \E r \in new : r.id = k
      <4>1. k - lastId \in 1..n /\ lastId + (k - lastId) = k
        BY <1>1
      <4>2. g[k - lastId] \in new /\ g[k - lastId].id = k
        BY <4>1
      <4> QED BY <4>2
    <3> QED BY <1>1, <3>1
  <2>4. Cardinality(new) = n
    <3>1. g \in Bijection(1..n, new)
      <4>1. g \in [1..n -> new] /\ \A r \in new : \E i \in 1..n : g[i] = r
        OBVIOUS
      <4>2. \A i, j \in 1..n : g[i] = g[j] => i = j
        <5> SUFFICES ASSUME NEW i \in 1..n, NEW j \in 1..n, g[i] = g[j] PROVE i = j
          OBVIOUS
        <5>1. lastId + i = lastId + j
          BY <2>0
        <5> QED BY <1>1, <5>1
      <4> QED BY <4>1, <4>2 DEF Bijection, Injection, Surjection, IsInjective
    <3>2. IsFiniteSet(1..n) /\ Cardinality(1..n) = n
      BY <1>1, FS_Interval
    <3> QED BY <3>1, <3>2, FS_Bijection DEF ExistsBijection
  <2> HIDE DEF new, rec
  <2> QED BY <2>1, <2>2, <2>3, <2>4
<1> DEFINE new == Fresh(l, ts)
<1>5. new \in SUBSET rec /\ Good(new)
  BY <1>4 DEF Fresh
<1> HIDE DEF new
<1>6. IsFiniteSet(rec)
  <2>1. IsFiniteSet(lastId + 1 .. lastId + n)
    BY <1>1, FS_Interval
  <2>2. IsFiniteSet((lastId + 1 .. lastId + n) \X ts)
    BY <2>1, FS_Product
  <2> DEFINE D == (lastId + 1 .. lastId + n) \X ts
             h == [p \in D |-> [id |-> p[1], list |-> l, ticker |-> p[2]]]
  <2>3. h \in Surjection(D, rec)
    <3>1. \A p \in D : h[p] \in rec
      OBVIOUS
    <3>2. ASSUME NEW r \in rec PROVE \E p \in D : h[p] = r
      <4>1. <<r.id, r.ticker>> \in D /\ h[<<r.id, r.ticker>>] = r
        OBVIOUS
      <4> QED BY <4>1
    <3> QED BY <3>1, <3>2 DEF Surjection
  <2> QED BY <2>2, <2>3, FS_Surjection
<1>7. IsFiniteSet(new)
  BY <1>5, <1>6, FS_Subset
<1>8. \A a, b \in new : a.ticker = b.ticker => a = b
  <2> DEFINE h == [r \in new |-> r.ticker]
  <2>1. h \in Surjection(new, ts)
    BY <1>5 DEF Surjection
  <2>2. h \in Injection(new, ts)
    BY <1>5, <1>7, <2>1, FS_SurjSameCardinalityImpliesInj
  <2> QED BY <2>2 DEF Injection, IsInjective
<1>9. \A t \in ts : \E r \in new : r.ticker = t
  <2> HIDE DEF rec
  <2> SUFFICES ASSUME NEW t \in ts PROVE \E r \in new : r.ticker = t
    OBVIOUS
  <2>1. t \in {r.ticker : r \in new}
    BY <1>5
  <2> QED BY <2>1
<1>10. \A r \in new : r.list = l /\ r.ticker \in ts
  BY <1>5
<1> QED BY <1>7, <1>8, <1>9, <1>10 DEF new

LEMMA UniverseInitHolds == WatchlistInit => UniverseIInv
<1> SUFFICES ASSUME WatchlistInit PROVE UniverseIInv
  OBVIOUS
<1>1. lists = 1..0 /\ 0 \in Nat
  BY DEF WatchlistInit
<1>2. ListsInv
  BY <1>1, FS_EmptySet DEF WatchlistInit, ListsInv
<1>3. SessionInv /\ OnceInv /\ OneInv
  BY DEF WatchlistInit, SessionInv, OnceInv, OneInv, Idle, Starting
<1>4. MineInv
  BY DEF WatchlistInit, MineInv, Idle, RunsMine
<1> QED BY <1>2, <1>3, <1>4 DEF UniverseIInv

(* A session that only looked.                                             *)
LEMMA LookKeeps ==
  ASSUME UniverseIInv, NEW s \in Sessions, NEW l, NEW t,
         Look(s, l, t) \/ Delete(s, l) \/ Dies(s)
  PROVE  UniverseIInv'
<1>0. PICK rec :
        /\ session' = [session EXCEPT ![s] = rec]
        /\ rec.pc \in {"adding", "rebuilding", "idle"}
        /\ rec.pc = "adding" => rec.list \in lists \cup OtherLists
        /\ rec.pc = "rebuilding" => rec.list \in research /\ \A r \in rec.seen : r.list = rec.list
  <2>1. CASE Look(s, l, t)
    <3> DEFINE rec == [pc |-> "adding", list |-> l, ticker |-> t, seen |-> {}]
    <3>1. rec.pc = "adding" /\ rec.list = l
      OBVIOUS
    <3>2. session' = [session EXCEPT ![s] = rec] /\ l \in lists \cup OtherLists
      BY <2>1 DEF Look, Goto
    <3> HIDE DEF rec
    <3> QED BY <3>1, <3>2
  <2>2. CASE Delete(s, l)
    <3> DEFINE rec == [Idle EXCEPT !.pc = "rebuilding", !.list = l, !.seen = Members(l)]
    <3>1. rec.pc = "rebuilding" /\ rec.list = l /\ rec.seen = Members(l)
      BY DEF Idle
    <3>2. session' = [session EXCEPT ![s] = rec] /\ l \in research
      BY <2>2 DEF Delete, Goto
    <3> HIDE DEF rec
    <3> QED BY <3>1, <3>2 DEF Members
  <2>3. CASE Dies(s)
    <3>1. session' = [session EXCEPT ![s] = Idle] /\ Idle.pc = "idle"
      BY <2>3 DEF Dies, Goto, Idle
    <3> QED BY <3>1
  <2> QED BY <2>1, <2>2, <2>3
<1>1. /\ UNCHANGED <<lists, byUser, research, rows, lastId, runs, raced, doubled, edited>>
      /\ \A q \in Sessions \ {s} : session'[q] = session[q]
      /\ DOMAIN session' = Sessions /\ session'[s] = rec
  BY <1>0 DEF Look, Delete, Dies, Stays, UniverseIInv, SessionInv
<1>2. SessionInv'
  BY <1>0, <1>1 DEF UniverseIInv, SessionInv
<1>3. ListsInv' /\ OnceInv'
  BY <1>1 DEF UniverseIInv, ListsInv, OnceInv
<1>4. OneInv'
  BY <1>0, <1>1 DEF UniverseIInv, OneInv, Starting
<1>5. MineInv'
  BY <1>0, <1>1 DEF UniverseIInv, MineInv, RunsMine
<1> QED BY <1>2, <1>3, <1>4, <1>5 DEF UniverseIInv

(* A user creates a list: the service did not.                             *)
LEMMA UserKeeps ==
  ASSUME UniverseIInv, NEW s \in Sessions, CreateByUser(s)
  PROVE  UniverseIInv'
<1> DEFINE l == Cardinality(lists) + 1
<1>1. /\ lists' = lists \cup {l} /\ byUser' = byUser \cup {l}
      /\ research' \subseteq research \cup {l}
      /\ research \subseteq research'
      /\ UNCHANGED <<rows, lastId, session, runs, raced, doubled, edited>>
  BY DEF CreateByUser
<1>2. PICK n \in Nat : lists = 1..n
  BY DEF UniverseIInv, ListsInv
<1>3. n + 1 \in Nat /\ lists' = 1..(n + 1) /\ l \notin OtherLists
  <2>1. Cardinality(lists) = n
    BY <1>2, FS_Interval
  <2>2. l \in 1..MaxLists
    BY <2>1, WatchlistAssumption DEF CreateByUser
  <2> QED BY <1>1, <1>2, <2>1, <2>2, WatchlistAssumption
<1> HIDE DEF l
<1>4. ListsInv'
  BY <1>1, <1>3 DEF UniverseIInv, ListsInv
<1>5. SessionInv' /\ OnceInv' /\ OneInv'
  BY <1>1 DEF UniverseIInv, SessionInv, OnceInv, OneInv, Starting
<1>6. MineInv'
  BY <1>1 DEF UniverseIInv, MineInv, RunsMine
<1> QED BY <1>4, <1>5, <1>6 DEF UniverseIInv

(* A member is added, or taken out by a user.                              *)
LEMMA AddKeeps ==
  ASSUME UniverseIInv, NEW s \in Sessions, Add(s)
  PROVE  UniverseIInv'
<1> DEFINE l == session[s].list
           t == session[s].ticker
           new == Fresh(l, {t})
<1>0. lastId \in Nat /\ IsFiniteSet({t})
  BY FS_Singleton DEF UniverseIInv, ListsInv
<1>1. /\ IsFiniteSet(new) /\ \A r \in new : r.list = l /\ r.ticker = t
      /\ \A a, b \in new : a = b
  <2> HIDE DEF l, t
  <2> QED BY <1>0, FreshRows
<1>2. /\ rows' = rows \cup new /\ lastId' = lastId + 1
      /\ raced' = IF Rows(l, t) = {} THEN raced ELSE raced \cup {<<l, t>>}
      /\ UNCHANGED <<lists, byUser, research, runs, doubled, edited>>
      /\ l \in lists \cup OtherLists
      /\ session' = [session EXCEPT ![s] = Idle]
  BY DEF Add, Goto, UniverseIInv, SessionInv
<1> HIDE DEF new, l, t
<1>3. ListsInv'
  <2>1. IsFiniteSet(rows')
    BY <1>1, <1>2, FS_Union DEF UniverseIInv, ListsInv
  <2> QED BY <1>0, <1>1, <1>2, <2>1 DEF UniverseIInv, ListsInv
<1>4. SessionInv'
  BY <1>2 DEF UniverseIInv, SessionInv, Idle
<1>5. OnceInv'
  <2> SUFFICES ASSUME NEW a \in rows', NEW b \in rows', a.list = b.list,
                      a.ticker = b.ticker, <<a.list, a.ticker>> \notin raced'
               PROVE  a = b
    BY DEF OnceInv
  <2>1. CASE a \in rows /\ b \in rows
    BY <1>2, <2>1 DEF UniverseIInv, OnceInv
  <2>2. CASE a \in new \/ b \in new
    <3>1. a.list = l /\ a.ticker = t /\ Rows(l, t) = {}
      BY <1>1, <1>2, <2>2
    <3>2. a \notin rows /\ b \notin rows
      BY <3>1 DEF Rows
    <3> QED BY <1>1, <1>2, <3>2
  <2> QED BY <1>2, <2>1, <2>2
<1>6. OneInv'
  BY <1>2 DEF UniverseIInv, SessionInv, OneInv, Starting, Idle
<1>7. MineInv'
  BY <1>2 DEF UniverseIInv, SessionInv, MineInv, RunsMine, Idle
<1> QED BY <1>3, <1>4, <1>5, <1>6, <1>7 DEF UniverseIInv

LEMMA RemoveKeeps ==
  ASSUME UniverseIInv, NEW s \in Sessions, NEW l, NEW t,
         RemoveByApi(s, l, t) \/ RemoveByCommand(s, l, t)
  PROVE  UniverseIInv'
<1>1. /\ rows' \subseteq rows /\ edited' = edited \cup {l}
      /\ \A r \in rows \ rows' : r.list = l
      /\ UNCHANGED <<lists, byUser, research, lastId, session, runs, raced, doubled>>
  BY DEF RemoveByApi, RemoveByCommand, Rows
<1>2. ListsInv'
  BY <1>1, FS_Subset DEF UniverseIInv, ListsInv
<1>3. SessionInv' /\ OnceInv' /\ OneInv'
  BY <1>1 DEF UniverseIInv, SessionInv, OnceInv, OneInv, Starting
<1>4. MineInv'
  BY <1>1 DEF UniverseIInv, MineInv, RunsMine
<1> QED BY <1>2, <1>3, <1>4 DEF UniverseIInv

(* A research list is rebuilt: none that the service created.              *)
LEMMA ReplaceKeeps ==
  ASSUME UniverseIInv, NEW s \in Sessions, NEW ts \in SUBSET Tickers, Replace(s, ts)
  PROVE  UniverseIInv'
<1> DEFINE l == session[s].list
           new == Fresh(l, ts)
           before == session[s].seen
<1>0. lastId \in Nat /\ IsFiniteSet(ts)
  BY WatchlistAssumption, FS_Subset DEF UniverseIInv, ListsInv
<1>1. /\ IsFiniteSet(new) /\ \A r \in new : r.list = l /\ r.ticker \in ts
      /\ \A a, b \in new : a.ticker = b.ticker => a = b
  <2> HIDE DEF l
  <2> QED BY <1>0, FreshRows
<1>2. /\ rows' = (rows \ before) \cup new /\ lastId' = lastId + Cardinality(ts)
      /\ raced' = raced \cup {<<l, t>> : t \in {u \in ts : Rows(l, u) \ before # {}}}
      /\ UNCHANGED <<lists, byUser, research, runs, doubled, edited>>
      /\ \A r \in before : r.list = l
      /\ l \in byUser \cup OtherLists /\ l \in lists \cup OtherLists
      /\ session' = [session EXCEPT ![s] = Idle]
  BY DEF Replace, Goto, UniverseIInv, SessionInv, ListsInv
<1> HIDE DEF new, before, l
<1>3. ListsInv'
  <2>1. Cardinality(ts) \in Nat
    BY <1>0, FS_CardinalityType
  <2>2. IsFiniteSet(rows \ before)
    BY FS_Difference DEF UniverseIInv, ListsInv
  <2>3. IsFiniteSet(rows')
    BY <1>1, <1>2, <2>2, FS_Union
  <2> QED BY <1>0, <1>1, <1>2, <2>1, <2>3 DEF UniverseIInv, ListsInv
<1>4. SessionInv'
  BY <1>2 DEF UniverseIInv, SessionInv, Idle
<1>5. OnceInv'
  <2> SUFFICES ASSUME NEW a \in rows', NEW b \in rows', a.list = b.list,
                      a.ticker = b.ticker, <<a.list, a.ticker>> \notin raced'
               PROVE  a = b
    BY DEF OnceInv
  <2>1. CASE a \in rows /\ b \in rows
    BY <1>2, <2>1 DEF UniverseIInv, OnceInv
  <2>2. CASE a \in new \/ b \in new
    <3>1. a.list = l /\ a.ticker \in ts
      BY <1>1, <2>2
    <3>2. Rows(l, a.ticker) \ before = {}
      BY <1>2, <3>1
    <3>3. a \notin rows \ before /\ b \notin rows \ before
      BY <3>1, <3>2 DEF Rows
    <3> QED BY <1>1, <1>2, <3>3
  <2> QED BY <1>2, <2>1, <2>2
<1>6. OneInv'
  BY <1>2 DEF UniverseIInv, SessionInv, OneInv, Starting, Idle
<1>7. MineInv'
  <2>1. ASSUME NEW k \in lists \ (edited \cup byUser)
        PROVE  \E r \in rows' : r.list = k /\ r.ticker = Mine
    <3>1. k # l
      BY <1>2 DEF UniverseIInv, ListsInv
    <3>2. PICK r \in rows : r.list = k /\ r.ticker = Mine
      BY DEF UniverseIInv, MineInv
    <3> QED BY <1>2, <3>1, <3>2
  <2> QED BY <1>2, <2>1 DEF UniverseIInv, SessionInv, MineInv, RunsMine, Idle
<1> QED BY <1>3, <1>4, <1>5, <1>6, <1>7 DEF UniverseIInv

-----------------------------------------------------------------------------
(* The start of the service.                                               *)
LEMMA FindKeeps ==
  ASSUME UniverseIInv, NEW s \in Sessions, Find(s)
  PROVE  UniverseIInv'
<1>1. /\ UNCHANGED <<lists, byUser, research, rows, lastId, runs, raced, edited>>
      /\ doubled' = (doubled \/ Starting # {})
      /\ session[s].pc = "idle" /\ DOMAIN session = Sessions
      /\ session' = [session EXCEPT ![s] =
            IF lists = {} THEN [Idle EXCEPT !.pc = "creating"]
            ELSE [Idle EXCEPT !.pc = "spawning", !.list = Max(lists)]]
  BY DEF Find, Goto, UniverseIInv, SessionInv
<1>2. /\ session'[s].pc \in {"creating", "spawning"}
      /\ session'[s].pc = "creating" => lists = {}
      /\ session'[s].pc = "spawning" => lists # {} /\ session'[s].list = Max(lists)
      /\ \A q \in Sessions \ {s} : session'[q] = session[q]
      /\ DOMAIN session' = Sessions
  BY <1>1 DEF Idle
<1>3. lists # {} => Max(lists) \in lists
  <2> SUFFICES ASSUME lists # {} PROVE Max(lists) \in lists
    OBVIOUS
  <2>1. PICK n \in Nat : lists = 1..n
    BY DEF UniverseIInv, ListsInv
  <2>2. n \in lists /\ \A k \in lists : n >= k
    BY <2>1
  <2> QED BY <2>2 DEF Max
<1>4. ListsInv' /\ OnceInv'
  BY <1>1 DEF UniverseIInv, ListsInv, OnceInv
<1>5. SessionInv'
  BY <1>1, <1>2, <1>3 DEF UniverseIInv, SessionInv
<1>6. OneInv'
  <2> SUFFICES ASSUME ~doubled' PROVE OneInv'
    BY DEF OneInv
  <2>1. ~doubled /\ Starting = {}
    BY <1>1
  <2>2. \A q \in Starting' : q = s
    BY <1>2, <2>1 DEF Starting
  <2> QED BY <1>1, <1>2, <2>1, <2>2 DEF UniverseIInv, OneInv, Starting
<1>7. MineInv'
  BY <1>1, <1>2 DEF UniverseIInv, MineInv, RunsMine
<1> QED BY <1>4, <1>5, <1>6, <1>7 DEF UniverseIInv

LEMMA CreateKeeps ==
  ASSUME UniverseIInv, NEW s \in Sessions, Create(s)
  PROVE  UniverseIInv'
<1> DEFINE l == Cardinality(lists) + 1
           new == Fresh(l, {Mine})
<1>0. lastId \in Nat /\ IsFiniteSet({Mine})
  BY FS_Singleton DEF UniverseIInv, ListsInv
<1>1. /\ IsFiniteSet(new) /\ \A r \in new : r.list = l /\ r.ticker = Mine
      /\ \E r \in new : r.ticker = Mine
      /\ \A a, b \in new : a = b
  <2> HIDE DEF l
  <2> DEFINE ts == {Mine}
  <2>0. IsFiniteSet(ts) /\ new = Fresh(l, ts)
    BY <1>0
  <2> HIDE DEF ts, new
  <2>1. /\ IsFiniteSet(new)
        /\ \A r \in new : r.list = l /\ r.ticker \in ts
        /\ \A t \in ts : \E r \in new : r.ticker = t
        /\ \A a, b \in new : a.ticker = b.ticker => a = b
    BY <1>0, <2>0, FreshRows
  <2> USE DEF ts
  <2> QED BY <2>1
<1>2. /\ rows' = rows \cup new /\ lastId' = lastId + 1 /\ lists' = lists \cup {l}
      /\ UNCHANGED <<byUser, research, runs, raced, doubled, edited>>
      /\ session[s].pc = "creating" /\ DOMAIN session = Sessions
      /\ session' = [session EXCEPT ![s] = [Idle EXCEPT !.pc = "spawning", !.list = l]]
  BY DEF Create, Goto, UniverseIInv, SessionInv
<1>3. PICK n \in Nat : lists = 1..n
  BY DEF UniverseIInv, ListsInv
<1>4. l = n + 1 /\ lists' = 1..(n + 1) /\ l \notin OtherLists
  <2>1. Cardinality(lists) = n
    BY <1>3, FS_Interval
  <2>2. l \in 1..MaxLists
    BY <2>1, WatchlistAssumption DEF Create
  <2> QED BY <1>2, <1>3, <2>1, <2>2, WatchlistAssumption
<1>5. /\ session'[s].pc = "spawning" /\ session'[s].list = l
      /\ \A q \in Sessions \ {s} : session'[q] = session[q]
      /\ DOMAIN session' = Sessions
  BY <1>2 DEF Idle
<1> HIDE DEF l, new
<1>6. ListsInv'
  <2>1. IsFiniteSet(rows')
    BY <1>1, <1>2, FS_Union DEF UniverseIInv, ListsInv
  <2>2. lastId' \in Nat /\ n + 1 \in Nat
    BY <1>0, <1>2
  <2>3. \A r \in rows' : r.list \in lists' \cup OtherLists
    BY <1>1, <1>2 DEF UniverseIInv, ListsInv
  <2>4. byUser' \subseteq lists' /\ research' \subseteq byUser' \cup OtherLists
    BY <1>2 DEF UniverseIInv, ListsInv
  <2>5. lists' \cap OtherLists = {}
    BY <1>2, <1>4 DEF UniverseIInv, ListsInv
  <2> QED BY <1>4, <2>1, <2>2, <2>3, <2>4, <2>5 DEF ListsInv
<1>7. SessionInv'
  BY <1>2, <1>5 DEF UniverseIInv, SessionInv
<1>8. OnceInv'
  <2>1. \A r \in rows : r.list # l
    BY <1>3, <1>4 DEF UniverseIInv, ListsInv
  <2> QED BY <1>1, <1>2, <2>1 DEF UniverseIInv, OnceInv
<1>9. OneInv'
  <2> SUFFICES ASSUME ~doubled PROVE OneInv'
    BY <1>2 DEF OneInv
  <2>1. lists \subseteq byUser /\ s \in Starting
    BY <1>2 DEF UniverseIInv, OneInv, Starting
  <2>2. Starting' = Starting /\ \A q \in Starting : q = s
    BY <1>2, <1>5, <2>1 DEF UniverseIInv, OneInv, Starting
  <2>3. \A q \in Sessions : session'[q].pc # "creating"
    BY <1>5, <2>2 DEF Starting
  <2>4. \A k \in lists' \ byUser' : k = l
    BY <1>2, <2>1
  <2> QED BY <2>2, <2>3, <2>4 DEF OneInv
<1>10. MineInv'
  BY <1>1, <1>2, <1>5 DEF UniverseIInv, MineInv, RunsMine
<1> QED BY <1>6, <1>7, <1>8, <1>9, <1>10 DEF UniverseIInv

LEMMA SpawnKeeps ==
  ASSUME UniverseIInv, NEW s \in Sessions, Spawn(s)
  PROVE  UniverseIInv'
<1> DEFINE l == session[s].list
           found == Members(l)
           new == {[id |-> Cardinality(runs) + r.id, row |-> r, status |-> "pending"]
                      : r \in found}
<1>1. /\ UNCHANGED <<lists, byUser, research, rows, lastId, raced, doubled, edited>>
      /\ session[s].pc = "spawning" /\ DOMAIN session = Sessions /\ l \in lists
  BY DEF Spawn, UniverseIInv, SessionInv
<1>2. CASE found = {}
  <2>1. session' = [session EXCEPT ![s] = Idle] /\ UNCHANGED runs
    BY <1>2 DEF Spawn, Goto
  <2>2. ListsInv' /\ SessionInv' /\ OnceInv'
    BY <1>1, <2>1 DEF UniverseIInv, ListsInv, SessionInv, OnceInv, Idle
  <2>3. OneInv'
    BY <1>1, <2>1 DEF UniverseIInv, OneInv, Starting, Idle
  <2>4. MineInv'
    BY <1>1, <2>1 DEF UniverseIInv, MineInv, RunsMine, Idle
  <2> QED BY <2>2, <2>3, <2>4 DEF UniverseIInv
<1>3. CASE found # {}
  <2>1. /\ runs' = runs \cup new
        /\ session' = [session EXCEPT ![s] =
                         [session[s] EXCEPT !.pc = "spawned", !.seen = new]]
    BY <1>3 DEF Spawn, Goto
  <2>2. /\ IsFiniteSet(new)
        /\ \A job \in new :
             /\ job = [id |-> job.id, row |-> job.row, status |-> "pending"]
             /\ job.row.list = l
        /\ l \notin edited \cup byUser => \E job \in new : job.row.ticker = Mine
    <3>1. \A r \in found : r.list = l
      BY DEF Members
    <3>2. l \notin edited \cup byUser => \E r \in found : r.ticker = Mine
      BY <1>1 DEF Members, UniverseIInv, MineInv
    <3>3. ASSUME NEW job \in new
          PROVE  /\ job = [id |-> job.id, row |-> job.row, status |-> "pending"]
                 /\ job.row.list = l
      <4>1. PICK r \in found :
              job = [id |-> Cardinality(runs) + r.id, row |-> r, status |-> "pending"]
        OBVIOUS
      <4>2. job.row = r
        BY <4>1
      <4> QED BY <3>1, <4>1, <4>2
    <3>4. ASSUME NEW r \in found, r.ticker = Mine PROVE \E job \in new : job.row.ticker = Mine
      <4> DEFINE job == [id |-> Cardinality(runs) + r.id, row |-> r, status |-> "pending"]
      <4>1. job \in new /\ job.row.ticker = Mine
        BY <3>4
      <4> QED BY <4>1
    <3>5. IsFiniteSet(new)
      <4>1. IsFiniteSet(found)
        BY FS_Subset DEF Members, UniverseIInv, ListsInv
      <4> DEFINE g == [r \in found |->
                         [id |-> Cardinality(runs) + r.id, row |-> r, status |-> "pending"]]
      <4>2. g \in Surjection(found, new)
        BY DEF Surjection
      <4> QED BY <4>1, <4>2, FS_Surjection
    <3> QED BY <3>2, <3>3, <3>4, <3>5
  <2> HIDE DEF new
  <2>3. /\ session'[s].pc = "spawned" /\ session'[s].seen = new /\ session'[s].list = l
        /\ \A q \in Sessions \ {s} : session'[q] = session[q]
        /\ DOMAIN session' = Sessions
    BY <1>1, <2>1
  <2> HIDE DEF l
  <2>4. ListsInv' /\ SessionInv' /\ OnceInv'
    BY <1>1, <2>1, <2>3 DEF UniverseIInv, ListsInv, SessionInv, OnceInv
  <2>5. OneInv'
    BY <1>1, <2>3 DEF UniverseIInv, OneInv, Starting
  <2>6. MineInv'
    <3>1. \A job \in new : job.status = "pending"
      BY <2>2
    <3>2. RunsMine'
      BY <1>1, <2>1, <3>1 DEF UniverseIInv, MineInv, RunsMine
    <3> QED BY <1>1, <2>2, <2>3, <3>2 DEF UniverseIInv, MineInv
  <2> QED BY <2>4, <2>5, <2>6 DEF UniverseIInv
<1> QED BY <1>2, <1>3

LEMMA RunKeeps ==
  ASSUME UniverseIInv, NEW s \in Sessions, Run(s)
  PROVE  UniverseIInv'
<1> DEFINE new == session[s].seen
<1>1. /\ UNCHANGED <<lists, byUser, research, rows, lastId, raced, doubled, edited>>
      /\ session[s].pc = "spawned" /\ DOMAIN session = Sessions
      /\ session' = [session EXCEPT ![s] = Idle]
  BY DEF Run, Goto, UniverseIInv, SessionInv
<1>2. ListsInv' /\ SessionInv' /\ OnceInv'
  BY <1>1 DEF UniverseIInv, ListsInv, SessionInv, OnceInv, Idle
<1>3. OneInv'
  BY <1>1 DEF UniverseIInv, OneInv, Starting, Idle
<1>4. RunsMine'
  <2>1. CASE UNCHANGED runs
    BY <1>1, <2>1 DEF UniverseIInv, MineInv, RunsMine
  <2>2. CASE Cardinality(new) = 1
    <3>1. PICK job \in new :
            runs' = (runs \ {job}) \cup {[job EXCEPT !.status = "running"]}
      BY <2>2 DEF Run
    <3>2. /\ job = [id |-> job.id, row |-> job.row, status |-> "pending"]
          /\ job.row.list = session[s].list
      BY <1>1, <3>1 DEF UniverseIInv, MineInv
    <3>3. job.row.list \notin edited \cup byUser => job.row.ticker = Mine
      <4> SUFFICES ASSUME job.row.list \notin edited \cup byUser PROVE job.row.ticker = Mine
        OBVIOUS
      <4>1. PICK own \in new : own.row.ticker = Mine
        BY <1>1, <3>2 DEF UniverseIInv, MineInv
      <4>2. own = job
        <5>1. IsFiniteSet(new)
          BY <1>1 DEF UniverseIInv, MineInv
        <5>2. PICK x : new = {x}
          BY <2>2, <5>1, FS_Singleton
        <5> QED BY <3>1, <4>1, <5>2
      <4> QED BY <4>1, <4>2
    <3>4. [job EXCEPT !.status = "running"].row = job.row
      BY <3>2
    <3> QED BY <1>1, <3>1, <3>3, <3>4 DEF UniverseIInv, MineInv, RunsMine
  <2> QED BY <2>1, <2>2 DEF Run
<1>5. MineInv'
  BY <1>1, <1>4 DEF UniverseIInv, MineInv, Idle
<1> QED BY <1>2, <1>3, <1>5 DEF UniverseIInv

LEMMA UniverseStepHolds == UniverseIInv /\ [WatchlistNext]_watchlistVars => UniverseIInv'
<1> SUFFICES ASSUME UniverseIInv, [WatchlistNext]_watchlistVars PROVE UniverseIInv'
  OBVIOUS
<1>1. CASE UNCHANGED watchlistVars
  <2>1. ListsInv' /\ SessionInv' /\ OnceInv'
    BY <1>1 DEF watchlistVars, UniverseIInv, ListsInv, SessionInv, OnceInv
  <2>2. OneInv' /\ MineInv'
    BY <1>1 DEF watchlistVars, UniverseIInv, OneInv, Starting, MineInv, RunsMine
  <2> QED BY <2>1, <2>2 DEF UniverseIInv
<1>2. CASE WatchlistNext
  BY <1>2, LookKeeps, UserKeeps, AddKeeps, RemoveKeeps, ReplaceKeeps, FindKeeps, CreateKeeps,
     SpawnKeeps, RunKeeps DEF WatchlistNext
<1> QED BY <1>1, <1>2

(* For any number of lists, tickers, sessions and rows, and whatever lists *)
(* users create under the service's name: a member is in a list twice only *)
(* if its insertions overlapped, the service creates two lists only if two *)
(* of its starts overlapped, and it runs a foreign ticker only from a list *)
(* that a user created or took a member out of.                            *)
THEOREM UniverseIsSound == WatchlistSpec => []UniverseSound
<1>1. UniverseIInv => UniverseSound
  <2> SUFFICES ASSUME UniverseIInv PROVE UniverseSound
    OBVIOUS
  <2>1. MemberOnce
    <3> SUFFICES ASSUME NEW l, NEW t, <<l, t>> \notin raced
                 PROVE  ~(Cardinality(Rows(l, t)) > 1)
      BY DEF MemberOnce
    <3>1. IsFiniteSet(Rows(l, t))
      BY FS_Subset DEF UniverseIInv, ListsInv, Rows
    <3>2. \A a, b \in Rows(l, t) : a = b
      BY DEF UniverseIInv, OnceInv, Rows
    <3>3. Rows(l, t) = {} \/ \E a : Rows(l, t) = {a}
      BY <3>2
    <3> QED BY <3>1, <3>3, FS_EmptySet, FS_Singleton
  <2>2. OneList
    <3> SUFFICES ASSUME ~doubled PROVE ~(Cardinality(lists \ byUser) > 1)
      BY DEF OneList
    <3>1. \A l, k \in lists \ byUser : l = k
      BY DEF UniverseIInv, OneInv
    <3>2. lists \ byUser = {} \/ \E l : lists \ byUser = {l}
      BY <3>1
    <3>3. Cardinality(lists \ byUser) \in {0, 1}
      BY <3>2, FS_EmptySet, FS_Singleton
    <3> QED BY <3>3
  <2> QED BY <2>1, <2>2 DEF UniverseIInv, MineInv, UniverseSound
<1>2. WatchlistInit => UniverseIInv
  BY UniverseInitHolds
<1>3. UniverseIInv /\ [WatchlistNext]_watchlistVars => UniverseIInv'
  BY UniverseStepHolds
<1> QED BY <1>1, <1>2, <1>3, PTL DEF WatchlistSpec

-----------------------------------------------------------------------------
(***************************************************************************)
(* Back-test: the equity curve, the trades and the report agree with the   *)
(* fills, for any prices, costs and number of bars.  The invariant keeps   *)
(* the books (what the open position has cost is not in the sum of the     *)
(* trades yet), and that what is held or due has been asked for.           *)
(***************************************************************************)

(* One more equity is looked at.                                           *)
Step(acc, e) ==
    LET peak == IF e > acc.peak THEN e ELSE acc.peak
        fall == peak - e
    IN [peak |-> peak, fall |-> IF fall > acc.fall THEN fall ELSE acc.fall]
Start == [peak |-> 0, fall |-> 0]

(* r is what simulate has after each of the first k equities.              *)
Running(r, eq, k) ==
    r = [n \in 0..k |-> IF n = 0 THEN Start ELSE Step(r[n - 1], eq[n])]

LEMMA DrawdownUnfolded ==
  ASSUME NEW eq
  PROVE  Drawdown(eq) = (CHOOSE r : Running(r, eq, Len(eq)))[Len(eq)].fall
  BY DEF Drawdown, Running, Step, Start

LEMMA RunningExists ==
  ASSUME NEW eq, NEW k \in Nat
  PROVE  \E r : Running(r, eq, k)
<1> DEFINE T == {j \in Nat : ~ \E r : Running(r, eq, j)}
<1> SUFFICES ASSUME T # {} PROVE FALSE
  OBVIOUS
<1>1. PICK m \in T : \A n \in T : m <= n
  <2>1. T \subseteq Nat
    OBVIOUS
  <2> HIDE DEF T
  <2> QED BY <2>1, LeastNatural
<1>2. CASE m = 0
  <2> DEFINE r == [n \in 0..0 |-> Start]
  <2>1. Running(r, eq, 0)
    BY DEF Running
  <2> QED BY <1>2, <2>1
<1>3. CASE m # 0
  <2>1. m - 1 \in Nat /\ m - 1 \notin T
    BY <1>1, <1>3
  <2>2. PICK r : Running(r, eq, m - 1)
    BY <2>1
  <2> DEFINE q == [n \in 0..m |-> IF n = m THEN Step(r[m - 1], eq[m]) ELSE r[n]]
  <2>3. ASSUME NEW n \in 0..m
        PROVE  q[n] = IF n = 0 THEN Start ELSE Step(q[n - 1], eq[n])
    <3>1. CASE n = m
      <4>1. q[n - 1] = r[m - 1] /\ n # 0 /\ q[n] = Step(r[m - 1], eq[m])
        BY <1>3, <3>1
      <4> QED BY <3>1, <4>1
    <3>2. CASE n # m
      <4>1. n \in 0..(m - 1) /\ q[n] = r[n]
        BY <3>2
      <4>2. r[n] = IF n = 0 THEN Start ELSE Step(r[n - 1], eq[n])
        BY <2>2, <4>1 DEF Running
      <4>3. n # 0 => q[n - 1] = r[n - 1]
        BY <4>1
      <4> QED BY <4>1, <4>2, <4>3
    <3> QED BY <3>1, <3>2
  <2>4. q = [n \in 0..m |-> q[n]]
    OBVIOUS
  <2> HIDE DEF q
  <2>5. q = [n \in 0..m |-> IF n = 0 THEN Start ELSE Step(q[n - 1], eq[n])]
    BY <2>3, <2>4
  <2> QED BY <2>5 DEF Running
<1> QED BY <1>2, <1>3

(* The peak and the deepest fall of the first n equities.                  *)
PeakAndFall(acc, eq, n) ==
    /\ acc.peak \in Int /\ acc.fall \in Int /\ acc.peak >= 0 /\ acc.fall >= 0
    /\ \A j \in 1..n : acc.peak >= eq[j] /\ acc.fall >= -eq[j]
    /\ \A i, j \in 1..n : i < j => acc.fall >= eq[i] - eq[j]
    /\ acc.peak = 0 \/ \E j \in 1..n : acc.peak = eq[j]
    /\ \/ acc.fall = 0
       \/ \E j \in 1..n : acc.fall = -eq[j]
       \/ \E i, j \in 1..n : i < j /\ acc.fall = eq[i] - eq[j]

LEMMA StepLooks ==
  ASSUME NEW eq, NEW n \in Nat, \A j \in 1..(n + 1) : eq[j] \in Int, NEW acc,
         PeakAndFall(acc, eq, n)
  PROVE  PeakAndFall(Step(acc, eq[n + 1]), eq, n + 1)
<1> DEFINE e == eq[n + 1]
           new == Step(acc, e)
<1>1. e \in Int /\ acc.peak \in Int /\ acc.fall \in Int /\ acc.peak >= 0 /\ acc.fall >= 0
  BY DEF PeakAndFall
<1>2. \A j \in 1..n : eq[j] \in Int /\ acc.peak >= eq[j] /\ acc.fall >= -eq[j]
  BY DEF PeakAndFall
<1>3. /\ new.peak = IF e > acc.peak THEN e ELSE acc.peak
      /\ new.fall = IF new.peak - e > acc.fall THEN new.peak - e ELSE acc.fall
  BY DEF Step
<1> HIDE DEF new
<1>4. /\ new.peak \in Int /\ new.fall \in Int /\ new.peak >= acc.peak /\ new.peak >= e
      /\ new.fall >= acc.fall /\ new.fall >= new.peak - e
  BY <1>1, <1>3
<1>5. \A j \in 1..(n + 1) : j \in 1..n \/ j = n + 1
  OBVIOUS
<1>6. \A j \in 1..(n + 1) : new.peak >= eq[j] /\ new.fall >= -eq[j]
  <2> SUFFICES ASSUME NEW j \in 1..(n + 1) PROVE new.peak >= eq[j] /\ new.fall >= -eq[j]
    OBVIOUS
  <2>1. CASE j \in 1..n
    BY <1>1, <1>2, <1>4, <2>1
  <2>2. CASE j = n + 1
    BY <1>1, <1>4, <2>2
  <2> QED BY <1>5, <2>1, <2>2
<1>7. \A i, j \in 1..(n + 1) : i < j => new.fall >= eq[i] - eq[j]
  <2> SUFFICES ASSUME NEW i \in 1..(n + 1), NEW j \in 1..(n + 1), i < j
               PROVE  new.fall >= eq[i] - eq[j]
    OBVIOUS
  <2>1. i \in 1..n /\ eq[i] \in Int /\ acc.peak >= eq[i]
    BY <1>2
  <2>2. CASE j \in 1..n
    <3>1. acc.fall >= eq[i] - eq[j]
      BY <2>1, <2>2 DEF PeakAndFall
    <3>2. eq[j] \in Int
      BY <1>2, <2>2
    <3> QED BY <1>1, <1>4, <2>1, <3>1, <3>2
  <2>3. CASE j = n + 1
    BY <1>1, <1>4, <2>1, <2>3
  <2> QED BY <1>5, <2>2, <2>3
<1>8. new.peak = 0 \/ \E j \in 1..(n + 1) : new.peak = eq[j]
  <2>1. CASE e > acc.peak
    BY <1>3, <2>1
  <2>2. CASE ~(e > acc.peak)
    <3>1. new.peak = acc.peak /\ 1..n \subseteq 1..(n + 1)
      BY <1>3, <2>2
    <3> QED BY <3>1 DEF PeakAndFall
  <2> QED BY <2>1, <2>2
<1>9. \/ new.fall = 0
      \/ \E j \in 1..(n + 1) : new.fall = -eq[j]
      \/ \E i, j \in 1..(n + 1) : i < j /\ new.fall = eq[i] - eq[j]
  <2>1. CASE new.fall = acc.fall
    <3>1. 1..n \subseteq 1..(n + 1)
      OBVIOUS
    <3> QED BY <2>1, <3>1 DEF PeakAndFall
  <2>2. CASE new.fall = new.peak - e
    <3>1. CASE new.peak = 0
      BY <1>1, <2>2, <3>1
    <3>2. CASE \E j \in 1..(n + 1) : new.peak = eq[j]
      <4>1. PICK j \in 1..(n + 1) : new.peak = eq[j]
        BY <3>2
      <4>2. CASE j \in 1..n
        <5>1. j \in 1..(n + 1) /\ n + 1 \in 1..(n + 1) /\ j < n + 1 /\ new.fall = eq[j] - eq[n + 1]
          BY <2>2, <4>1, <4>2
        <5> QED BY <5>1
      <4>3. CASE j = n + 1
        BY <1>1, <2>2, <4>1, <4>3
      <4> QED BY <1>5, <4>2, <4>3
    <3> QED BY <1>8, <3>1, <3>2
  <2> QED BY <1>3, <2>1, <2>2
<1>10. new.peak >= 0 /\ new.fall >= 0
  BY <1>1, <1>4
<1>11. PeakAndFall(new, eq, n + 1)
  BY <1>4, <1>6, <1>7, <1>8, <1>9, <1>10 DEF PeakAndFall
<1> QED BY <1>11 DEF new

(* simulate's drawdown is the largest fall.                                *)
LEMMA DrawdownIsFall ==
  ASSUME NEW eq \in Seq(Int)
  PROVE  /\ Drawdown(eq) \in Int /\ Drawdown(eq) >= 0
         /\ Drawdown(eq) \in Falls(eq)
         /\ \A f \in Falls(eq) : f \in Int /\ f <= Drawdown(eq)
<1> DEFINE k == Len(eq)
           r == CHOOSE r : Running(r, eq, k)
<1>0. k \in Nat /\ DOMAIN eq = 1..k /\ \A j \in 1..k : eq[j] \in Int
  OBVIOUS
<1>1. Running(r, eq, k)
  BY <1>0, RunningExists
<1>2. Drawdown(eq) = r[k].fall
  BY DrawdownUnfolded
<1> HIDE DEF k, r
<1>3. r[0] = Start /\ \A n \in 1..k : r[n] = Step(r[n - 1], eq[n])
  <2>1. \A n \in 0..k : r[n] = IF n = 0 THEN Start ELSE Step(r[n - 1], eq[n])
    BY <1>1 DEF Running
  <2>2. 0 \in 0..k /\ \A n \in 1..k : n \in 0..k /\ n # 0
    BY <1>0
  <2> QED BY <2>1, <2>2
<1> DEFINE T == {n \in 0..k : ~PeakAndFall(r[n], eq, n)}
<1>4. T = {}
  <2> SUFFICES ASSUME T # {} PROVE FALSE
    OBVIOUS
  <2>1. PICK m \in T : \A n \in T : m <= n
    <3>1. T \subseteq Nat
      BY <1>0
    <3> HIDE DEF T
    <3> QED BY <3>1, LeastNatural
  <2>2. CASE m = 0
    <3>1. PeakAndFall(Start, eq, 0)
      BY DEF PeakAndFall, Start
    <3> QED BY <1>3, <2>1, <2>2, <3>1
  <2>3. CASE m # 0
    <3>1. m - 1 \in Nat /\ m \in 1..k /\ m - 1 \in 0..k /\ (m - 1) + 1 = m
      BY <1>0, <2>1, <2>3
    <3>2. PeakAndFall(r[m - 1], eq, m - 1)
      BY <2>1, <3>1
    <3>3. \A j \in 1..((m - 1) + 1) : eq[j] \in Int
      BY <1>0, <3>1
    <3> HIDE DEF T
    <3>4. PeakAndFall(Step(r[m - 1], eq[(m - 1) + 1]), eq, (m - 1) + 1)
      BY <3>1, <3>2, <3>3, StepLooks
    <3>5. PeakAndFall(r[m], eq, m)
      BY <1>3, <3>1, <3>4
    <3> QED BY <2>1, <3>5 DEF T
  <2> QED BY <2>2, <2>3
<1>5. PeakAndFall(r[k], eq, k)
  BY <1>0, <1>4
<1>6. Drawdown(eq) \in Int /\ Drawdown(eq) >= 0
  BY <1>2, <1>5 DEF PeakAndFall
<1>7. Drawdown(eq) \in Falls(eq)
  <2>1. \/ Drawdown(eq) = 0
        \/ \E j \in 1..k : Drawdown(eq) = -eq[j]
        \/ \E i, j \in 1..k : i < j /\ Drawdown(eq) = eq[i] - eq[j]
    BY <1>2, <1>5 DEF PeakAndFall
  <2>2. ASSUME NEW i \in 1..k, NEW j \in 1..k, i < j, Drawdown(eq) = eq[i] - eq[j]
        PROVE  Drawdown(eq) \in Falls(eq)
    <3>1. <<i, j>> \in {jk \in (DOMAIN eq) \X (DOMAIN eq) : jk[1] < jk[2]}
      BY <1>0, <2>2
    <3>2. Drawdown(eq) = eq[<<i, j>>[1]] - eq[<<i, j>>[2]]
      BY <2>2
    <3> QED BY <3>1, <3>2 DEF Falls
  <2> QED BY <1>0, <2>1, <2>2 DEF Falls
<1>8. ASSUME NEW f \in Falls(eq) PROVE f \in Int /\ f <= Drawdown(eq)
  <2>1. CASE f = 0
    BY <1>6, <2>1
  <2>2. CASE f \in {-eq[j] : j \in DOMAIN eq}
    <3>1. PICK j \in 1..k : f = -eq[j]
      BY <1>0, <2>2
    <3> QED BY <1>0, <1>2, <1>5, <3>1 DEF PeakAndFall
  <2>3. CASE f \in {eq[p[1]] - eq[p[2]] : p \in {jk \in (DOMAIN eq) \X (DOMAIN eq) : jk[1] < jk[2]}}
    <3>1. PICK i \in 1..k, j \in 1..k : i < j /\ f = eq[i] - eq[j]
      BY <1>0, <2>3
    <3> QED BY <1>0, <1>2, <1>5, <3>1 DEF PeakAndFall
  <2> QED BY <2>1, <2>2, <2>3 DEF Falls
<1> QED BY <1>6, <1>7, <1>8

-----------------------------------------------------------------------------
Trade == [side: {-1, 0, 1}, from: Nat, to: Nat, reason: {"signal", "final-bar"}, pnl: Int]

LEMMA PnlAppended ==
  ASSUME NEW ts \in Seq(Trade)
  PROVE  /\ Pnl(ts) \in Int
         /\ \A t \in Trade : Pnl(Append(ts, t)) = Pnl(ts) + t.pnl
<1> DEFINE f == [n \in DOMAIN ts |-> ts[n].pnl]
           S == 1..Len(ts)
<1>1. /\ Len(ts) \in Nat /\ IsFiniteSet(S) /\ DOMAIN ts = S
      /\ \A n \in S : f[n] \in Int
  <2>1. Len(ts) \in Nat /\ DOMAIN ts = 1..Len(ts) /\ \A n \in 1..Len(ts) : ts[n] \in Trade
    OBVIOUS
  <2>2. IsFiniteSet(1..Len(ts))
    BY <2>1, FS_Interval
  <2> QED BY <2>1, <2>2 DEF Trade
<1>2. Pnl(ts) = SumFunctionOnSet(f, S)
  BY <1>1 DEF Pnl
<1>3. Pnl(ts) \in Int
  <2> HIDE DEF f, S
  <2> QED BY <1>1, <1>2, SumType
<1>4. ASSUME NEW t \in Trade PROVE Pnl(Append(ts, t)) = Pnl(ts) + t.pnl
  <2> DEFINE g == [n \in DOMAIN Append(ts, t) |-> Append(ts, t)[n].pnl]
             e == Len(ts) + 1
  <2>1. /\ DOMAIN Append(ts, t) = S \cup {e} /\ e \notin S
        /\ \A n \in S : Append(ts, t)[n] = ts[n]
        /\ Append(ts, t)[e] = t
    BY <1>1
  <2>2. t.pnl \in Int
    BY DEF Trade
  <2>3. /\ \A n \in S : f[n] = g[n] /\ g[n] \in Int
        /\ g[e] = t.pnl /\ g[e] \in Int
    BY <1>1, <2>1, <2>2
  <2>4. Pnl(Append(ts, t)) = SumFunctionOnSet(g, S \cup {e})
    BY <2>1 DEF Pnl
  <2> HIDE DEF f, g, S, e
  <2>5. SumFunctionOnSet(g, S \cup {e}) = SumFunctionOnSet(f, S) + g[e]
    BY <1>1, <2>1, <2>3, SumAdded
  <2> QED BY <1>2, <2>3, <2>4, <2>5
<1> QED BY <1>3, <1>4

LEMMA PnlOfNone == Pnl(<<>>) = 0
<1> DEFINE f == [n \in DOMAIN <<>> |-> <<>>[n].pnl]
<1>1. IsFiniteSet({}) /\ DOMAIN <<>> = {} /\ \A x \in {} : f[x] = 0
  BY FS_EmptySet
<1>2. Pnl(<<>>) = SumFunctionOnSet(f, {})
  BY <1>1 DEF Pnl
<1> HIDE DEF f
<1> QED BY <1>1, <1>2, SumZero

(* The arithmetic of a position that is marked or closed at a price.       *)
LEMMA AtPrice ==
  ASSUME NEW side \in {-1, 0, 1}, NEW entry \in Int, NEW price \in Int
  PROVE  /\ (price - entry) * side * Shares
                = side * Shares * price - side * Shares * entry
         /\ side * Shares * price \in Int /\ side * Shares * entry \in Int
  BY BacktestAssumption

-----------------------------------------------------------------------------
(* The books of a back-test: what was paid for the open position is not in *)
(* the sum of the trades yet.                                              *)
Books ==
    /\ position \in [side: {-1, 0, 1}, entry: Int, bar: Nat, pnl: Int]
    /\ position.side = 0 => position = Flat
    /\ trades \in Seq(Trade)
    /\ equity \in Seq(Int) /\ Len(equity) <= BarCount
    /\ lastClose \in Int
    /\ cash = Pnl(trades) + position.pnl - position.side * Shares * position.entry
    /\ EquityIsCash

(* What may be filled has been asked for.                                  *)
Asking ==
    /\ asked \in Seq({-1, 0, 1}) /\ Len(asked) = Len(equity)
    /\ pending = NoTarget \/ (asked # <<>> /\ pending = asked[Len(asked)])
    /\ position.side # 0 =>
          position.bar \in 1..(Len(asked) - 1) /\ asked[position.bar] = position.side
    /\ \A n \in 1..Len(trades) :
          /\ trades[n].to <= Len(asked) - 1
          /\ position.side # 0 => trades[n].to <= position.bar
    /\ NoPeeking

Reported ==
    report # NoReport =>
        /\ report = [net |-> equity[BarCount], drawdown |-> Drawdown(equity), days |-> Daily(equity)]
        /\ Len(equity) = BarCount /\ position = Flat

BacktestIInv == Books /\ Asking /\ Reported

LEMMA BacktestStarts == BacktestInit => BacktestIInv
<1> SUFFICES ASSUME BacktestInit PROVE BacktestIInv
  OBVIOUS
<1>1. Pnl(trades) = 0
  BY PnlOfNone DEF BacktestInit
<1>2. position.side * Shares * position.entry = 0
  BY BacktestAssumption DEF BacktestInit, Flat
<1>3. Books
  BY <1>1, <1>2, BacktestAssumption DEF BacktestInit, Books, Flat, EquityIsCash
<1>4. Asking
  BY DEF BacktestInit, Asking, Flat, NoPeeking
<1> QED BY <1>3, <1>4 DEF BacktestIInv, Reported, BacktestInit

(* A trade that is closed at bar i.                                        *)
LEMMA ClosedTrade ==
  ASSUME Books, Asking, position.side # 0, NEW i \in Nat, NEW price \in Int,
         NEW reason \in {"signal", "final-bar"}
  PROVE  /\ Closed(i, price, reason) \in Trade
         /\ Closed(i, price, reason).from = position.bar /\ Closed(i, price, reason).to = i
         /\ Closed(i, price, reason).side = position.side
         /\ Closed(i, price, reason).reason = reason
         /\ Pnl(Append(trades, Closed(i, price, reason)))
                = cash + position.side * Shares * Fill(price, -position.side) - Commission
         /\ Append(trades, Closed(i, price, reason)) \in Seq(Trade)
<1> DEFINE c == Closed(i, price, reason)
           fill == Fill(price, -position.side)
<1>1. /\ position.side \in {-1, 0, 1} /\ position.entry \in Int /\ position.bar \in Nat
      /\ position.pnl \in Int /\ Slippage \in Nat /\ Commission \in Nat
  BY BacktestAssumption DEF Books
<1>2. fill \in Int
  BY <1>1 DEF Fill
<1>3. c = [side |-> position.side, from |-> position.bar, to |-> i, reason |-> reason,
           pnl |-> position.pnl - Commission + (fill - position.entry) * position.side * Shares]
  BY DEF Closed
<1> HIDE DEF fill, c
<1>4. /\ (fill - position.entry) * position.side * Shares
            = position.side * Shares * fill - position.side * Shares * position.entry
      /\ position.side * Shares * fill \in Int /\ position.side * Shares * position.entry \in Int
  BY <1>1, <1>2, AtPrice
<1> DEFINE out == position.side * Shares * fill
           in == position.side * Shares * position.entry
           gain == (fill - position.entry) * position.side * Shares
<1>5. gain = out - in /\ out \in Int /\ in \in Int
  BY <1>4
<1>6. cash = Pnl(trades) + position.pnl - in /\ Pnl(trades) \in Int
  BY PnlAppended DEF Books
<1>7. c.pnl = position.pnl - Commission + gain
  BY <1>3
<1> HIDE DEF out, in, gain
<1>8. position.pnl - Commission + gain \in Int
  BY <1>1, <1>5
<1>9. c \in Trade
  BY <1>1, <1>3, <1>8 DEF Trade, gain
<1>10. Pnl(Append(trades, c)) = Pnl(trades) + c.pnl
  BY <1>9, PnlAppended DEF Books
<1>11. Pnl(Append(trades, c)) = cash + out - Commission
  BY <1>1, <1>5, <1>6, <1>7, <1>10
<1>12. Append(trades, c) \in Seq(Trade)
  BY <1>9 DEF Books
<1>13. c.from = position.bar /\ c.to = i /\ c.side = position.side /\ c.reason = reason
  BY <1>3
<1> QED BY <1>9, <1>11, <1>12, <1>13 DEF c, out, fill

-----------------------------------------------------------------------------
(* One bar: the fill at its open, the new target, the new equity.          *)
LEMMA BarKeeps ==
  ASSUME BacktestIInv, NEW open \in BarPrices, NEW close \in BarPrices,
         NEW target \in {-1, 0, 1}, Bar(open, close, target)
  PROVE  BacktestIInv'
<1> DEFINE i == Len(equity)
           due == pending # NoTarget /\ pending # position.side
           closes == due /\ position.side # 0
           opens == due /\ pending # 0
           closed == Closed(i, open, "signal")
<1>1. /\ open \in Int /\ close \in Int /\ i \in Nat /\ BarCount \in Nat /\ i < BarCount
      /\ Slippage \in Nat /\ Commission \in Nat
      /\ position.side \in {-1, 0, 1}
      /\ equity \in Seq(Int) /\ trades \in Seq(Trade) /\ asked \in Seq({-1, 0, 1})
      /\ Len(asked) = i /\ cash \in Int
  <2>1. position.side * Shares * position.entry \in Int
    BY AtPrice DEF BacktestIInv, Books
  <2>2. cash \in Int
    BY <2>1, PnlAppended DEF BacktestIInv, Books
  <2> QED BY <2>2, BacktestAssumption DEF BacktestIInv, Books, Asking, Bar
<1>2. /\ position' = IF opens THEN Opened(i, open, pending)
                     ELSE IF closes THEN Flat ELSE position
      /\ trades' = IF closes THEN Append(trades, closed) ELSE trades
      /\ pending' = IF i < BarCount - 1 /\ target # position'.side THEN target ELSE NoTarget
      /\ equity' = Append(equity, Pnl(trades') + Mark(position', close))
      /\ lastClose' = close /\ asked' = Append(asked, target) /\ report' = report
      /\ cash' = cash
                 + (IF closes THEN position.side * Shares * Fill(open, -position.side) - Commission
                    ELSE 0)
                 - (IF opens THEN position'.side * Shares * Fill(open, position'.side) + Commission
                    ELSE 0)
  BY DEF Bar, Wanted
<1>3. due => /\ i \in 1..i /\ pending = asked[i] /\ pending \in {-1, 0, 1}
             /\ position.side # pending
  <2> SUFFICES ASSUME due
               PROVE  /\ i \in 1..i /\ pending = asked[i] /\ pending \in {-1, 0, 1}
                      /\ position.side # pending
    OBVIOUS
  <2>1. asked # <<>> /\ pending = asked[Len(asked)]
    BY DEF BacktestIInv, Asking
  <2>2. i \in 1..i /\ asked[i] \in {-1, 0, 1}
    BY <1>1, <2>1
  <2> QED BY <1>1, <2>1, <2>2
<1>4. opens => /\ position' = [side |-> pending, entry |-> Fill(open, pending), bar |-> i,
                               pnl |-> -Commission]
               /\ Fill(open, pending) \in Int
  BY <1>1, <1>2, <1>3 DEF Opened, Fill
<1>5. /\ Len(equity') = i + 1 /\ Len(asked') = i + 1
      /\ asked' \in Seq({-1, 0, 1}) /\ asked'[i + 1] = target
      /\ \A n \in 1..i : asked'[n] = asked[n]
  BY <1>1, <1>2
<1>6. closes => /\ closed \in Trade /\ closed.from = position.bar /\ closed.to = i
                /\ closed.side = position.side /\ closed.reason = "signal"
                /\ Pnl(Append(trades, closed))
                     = cash + position.side * Shares * Fill(open, -position.side) - Commission
                /\ Append(trades, closed) \in Seq(Trade)
                /\ closed = Append(trades, closed)[Len(trades) + 1]
                /\ position.side * Shares * Fill(open, -position.side) \in Int
  <2> SUFFICES ASSUME closes
               PROVE  /\ closed \in Trade /\ closed.from = position.bar /\ closed.to = i
                      /\ closed.side = position.side /\ closed.reason = "signal"
                      /\ Pnl(Append(trades, closed))
                           = cash + position.side * Shares * Fill(open, -position.side) - Commission
                      /\ Append(trades, closed) \in Seq(Trade)
                      /\ closed = Append(trades, closed)[Len(trades) + 1]
                      /\ position.side * Shares * Fill(open, -position.side) \in Int
    OBVIOUS
  <2>1. Books /\ Asking /\ position.side # 0 /\ "signal" \in {"signal", "final-bar"}
    BY DEF BacktestIInv
  <2>2. /\ closed \in Trade /\ closed.from = position.bar /\ closed.to = i
        /\ closed.side = position.side /\ closed.reason = "signal"
        /\ Pnl(Append(trades, closed))
             = cash + position.side * Shares * Fill(open, -position.side) - Commission
        /\ Append(trades, closed) \in Seq(Trade)
    BY <1>1, <2>1, ClosedTrade
  <2>3. Fill(open, -position.side) \in Int
    BY <1>1 DEF Fill
  <2>4. position.side * Shares * Fill(open, -position.side) \in Int
    BY <1>1, <2>3, AtPrice
  <2> HIDE DEF closed
  <2>5. closed = Append(trades, closed)[Len(trades) + 1]
    BY <1>1
  <2> QED BY <2>2, <2>4, <2>5
<1> DEFINE after == IF closes THEN cash + position.side * Shares * Fill(open, -position.side) - Commission
                    ELSE cash
           left == IF closes THEN Flat ELSE position
<1>7. /\ trades' \in Seq(Trade) /\ after \in Int /\ Pnl(trades') \in Int
      /\ position.side * Shares * position.entry \in Int
      /\ Pnl(trades') = IF closes THEN after
                        ELSE cash - position.pnl + position.side * Shares * position.entry
  <2>1. trades' \in Seq(Trade)
    BY <1>1, <1>2, <1>6
  <2>2. position.side * Shares * position.entry \in Int /\ position.pnl \in Int
    BY AtPrice DEF BacktestIInv, Books
  <2>3. cash = Pnl(trades) + position.pnl - position.side * Shares * position.entry
    BY DEF BacktestIInv, Books
  <2>4. Pnl(trades) \in Int /\ Pnl(trades') \in Int
    BY <1>1, <2>1, PnlAppended
  <2> HIDE DEF closed
  <2>5. CASE closes
    BY <1>1, <1>2, <1>6, <2>1, <2>2, <2>4, <2>5
  <2>6. CASE ~closes
    <3>1. trades' = trades /\ after = cash
      BY <1>2, <2>6
    <3> HIDE DEF closes, after
    <3>2. Pnl(trades') = cash - position.pnl + position.side * Shares * position.entry
      BY <1>1, <2>2, <2>3, <2>4, <3>1
    <3> QED BY <1>1, <2>1, <2>2, <2>4, <2>6, <3>1, <3>2
  <2> QED BY <2>5, <2>6
<1> HIDE DEF closed, i
<1>8. /\ position' \in [side: {-1, 0, 1}, entry: Int, bar: Nat, pnl: Int]
      /\ position'.side = 0 => position' = Flat
      /\ opens => position'.side = pending /\ position'.side # 0 /\ position'.bar = i
      /\ ~opens /\ closes => position' = Flat /\ position'.side = 0
      /\ ~opens /\ ~closes => position' = position
  <2>1. CASE opens
    BY <1>1, <1>3, <1>4, <2>1
  <2>2. CASE ~opens /\ closes
    BY <1>2, <2>2 DEF Flat
  <2>3. CASE ~opens /\ ~closes
    BY <1>2, <2>3 DEF BacktestIInv, Books
  <2> QED BY <2>1, <2>2, <2>3
<1> DEFINE cost == position'.side * Shares * position'.entry
<1>9. cost \in Int /\ position'.pnl \in Int /\ cash' = Pnl(trades') + position'.pnl - cost
  <2>1. cost \in Int /\ position'.pnl \in Int
    BY <1>8, AtPrice
  <2> DEFINE paid == IF opens THEN position'.side * Shares * Fill(open, position'.side) + Commission
                     ELSE 0
             out == position.side * Shares * Fill(open, -position.side)
  <2>2. cash' = after - paid
    <3>1. paid \in Int
      <4>1. CASE opens
        <5>1. position'.side * Shares * Fill(open, position'.side) = cost
          BY <1>4, <1>8, <4>1
        <5>2. paid = cost + Commission
          BY <4>1, <5>1
        <5> HIDE DEF paid, cost
        <5> QED BY <1>1, <2>1, <5>2
      <4>2. CASE ~opens
        BY <4>2
      <4> QED BY <4>1, <4>2
    <3>2. cash' = cash + (IF closes THEN out - Commission ELSE 0) - paid
      BY <1>2
    <3>3. CASE closes
      <4>1. out \in Int
        BY <1>6, <3>3
      <4>2. after = cash + out - Commission /\ cash' = cash + (out - Commission) - paid
        BY <3>2, <3>3
      <4> HIDE DEF paid, out, after
      <4> QED BY <1>1, <3>1, <4>1, <4>2
    <3>4. CASE ~closes
      <4>1. after = cash /\ cash' = cash + 0 - paid
        BY <3>2, <3>4
      <4> HIDE DEF paid, out, after
      <4> QED BY <1>1, <3>1, <4>1
    <3> QED BY <3>3, <3>4
  <2>3. CASE opens
    <3>1. position'.side * Shares * Fill(open, position'.side) = cost /\ position'.pnl = -Commission
      BY <1>4, <1>8, <2>3
    <3>2. Pnl(trades') = after
      <4>1. CASE closes
        BY <1>7, <4>1
      <4>2. CASE ~closes
        <5>1. position = Flat
          BY <2>3, <4>2 DEF BacktestIInv, Books
        <5>2. position.side * Shares * position.entry = 0 /\ position.pnl = 0
          BY <5>1, BacktestAssumption DEF Flat
        <5>3. after = cash
          BY <4>2
        <5>4. Pnl(trades') = cash - position.pnl + position.side * Shares * position.entry
          BY <1>7, <4>2
        <5> HIDE DEF after, closes
        <5> QED BY <1>1, <5>2, <5>3, <5>4
      <4> QED BY <4>1, <4>2
    <3>3. cash' = after - (cost + Commission)
      BY <2>2, <2>3, <3>1 DEF paid
    <3> HIDE DEF cost, after
    <3> QED BY <1>1, <1>7, <2>1, <3>1, <3>2, <3>3
  <2>4. CASE ~opens /\ closes
    <3>1. cost = 0 /\ position'.pnl = 0
      BY <1>8, <2>4, BacktestAssumption DEF Flat
    <3>2. Pnl(trades') = after
      BY <1>7, <2>4
    <3>3. cash' = after - 0
      BY <2>2, <2>4 DEF paid
    <3> HIDE DEF cost, after
    <3> QED BY <1>7, <2>1, <3>1, <3>2, <3>3
  <2>5. CASE ~opens /\ ~closes
    <3>1. cost = position.side * Shares * position.entry /\ position'.pnl = position.pnl
      BY <1>8, <2>5
    <3>2. cash' = cash - 0
      BY <2>2, <2>5 DEF paid
    <3>3. Pnl(trades') = cash - position.pnl + position.side * Shares * position.entry
      BY <1>7, <2>5
    <3> HIDE DEF cost, after
    <3> QED BY <1>1, <1>7, <2>1, <3>1, <3>2, <3>3
  <2> QED BY <2>3, <2>4, <2>5
<1>10. /\ Mark(position', close) = position'.side * Shares * close - cost + position'.pnl
       /\ position'.side * Shares * close \in Int
  <2>1. /\ (close - position'.entry) * position'.side * Shares
             = position'.side * Shares * close - position'.side * Shares * position'.entry
        /\ position'.side * Shares * close \in Int
    <3> DEFINE side == position'.side
               entry == position'.entry
    <3>1. side \in {-1, 0, 1} /\ entry \in Int
      BY <1>8
    <3>2. close \in Int
      BY <1>1
    <3> HIDE DEF side, entry
    <3>3. /\ (close - entry) * side * Shares = side * Shares * close - side * Shares * entry
          /\ side * Shares * close \in Int
      BY <3>1, <3>2, AtPrice
    <3> QED BY <3>3 DEF side, entry
  <2> QED BY <2>1 DEF Mark
<1> HIDE DEF cost, after, left
<1>11. EquityIsCash' /\ equity' \in Seq(Int)
  <2> DEFINE value == position'.side * Shares * close
             sum == Pnl(trades') + Mark(position', close)
  <2>1. value \in Int /\ Mark(position', close) = value - cost + position'.pnl
    BY <1>10
  <2> HIDE DEF value
  <2>2. sum = cash' + value /\ sum \in Int
    BY <1>7, <1>9, <2>1
  <2> HIDE DEF sum
  <2>3. equity' = Append(equity, sum)
    BY <1>2 DEF sum
  <2>4. equity'[Len(equity')] = sum /\ equity' \in Seq(Int)
    BY <1>1, <2>2, <2>3
  <2> QED BY <1>2, <2>2, <2>4 DEF EquityIsCash, value
<1>12. Books'
  <2>1. Len(equity') <= BarCount
    BY <1>1, <1>5
  <2>2. lastClose' \in Int
    BY <1>1, <1>2
  <2>3. cash' = Pnl(trades') + position'.pnl - position'.side * Shares * position'.entry
    BY <1>9 DEF cost
  <2> QED BY <1>7, <1>8, <1>11, <2>1, <2>2, <2>3 DEF Books
<1>13. pending' = NoTarget \/ (asked' # <<>> /\ pending' = asked'[Len(asked')])
  <2>1. asked' # <<>>
    BY <1>1, <1>5
  <2> QED BY <1>1, <1>2, <1>5, <2>1
<1>14. position'.side # 0 =>
          position'.bar \in 1..(Len(asked') - 1) /\ asked'[position'.bar] = position'.side
  <2> SUFFICES ASSUME position'.side # 0
               PROVE  position'.bar \in 1..(Len(asked') - 1)
                      /\ asked'[position'.bar] = position'.side
    OBVIOUS
  <2>1. CASE opens
    BY <1>1, <1>3, <1>5, <1>8, <2>1
  <2>2. CASE ~opens /\ ~closes
    <3>1. position.bar \in 1..(Len(asked) - 1) /\ asked[position.bar] = position.side
      BY <1>8, <2>2 DEF BacktestIInv, Asking
    <3> QED BY <1>1, <1>5, <1>8, <2>2, <3>1
  <2> QED BY <1>8, <2>1, <2>2
<1>15. closes => position.bar \in 1..(i - 1) /\ asked[position.bar] = position.side
                 /\ \A n \in 1..Len(trades) : trades[n].to <= position.bar
  BY <1>1 DEF BacktestIInv, Asking
<1>16. /\ Len(trades) \in Nat
       /\ Len(trades') = Len(trades) + (IF closes THEN 1 ELSE 0)
       /\ \A n \in 1..Len(trades) : trades'[n] = trades[n] /\ trades[n] \in Trade
       /\ closes => trades'[Len(trades) + 1] = closed
  <2>1. CASE closes
    BY <1>1, <1>2, <1>6, <2>1
  <2>2. CASE ~closes
    BY <1>1, <1>2, <2>2
  <2> QED BY <2>1, <2>2
<1>17. ASSUME NEW n \in 1..Len(trades')
       PROVE  /\ trades'[n].to <= Len(asked') - 1
              /\ position'.side # 0 => trades'[n].to <= position'.bar
  <2>1. CASE n \in 1..Len(trades)
    <3>1. /\ trades'[n] = trades[n] /\ trades[n].to \in Nat /\ trades[n].to <= Len(asked) - 1
          /\ position.side # 0 => trades[n].to <= position.bar
      BY <1>16, <2>1 DEF BacktestIInv, Asking, Trade
    <3>2. CASE opens
      BY <1>1, <1>5, <1>8, <3>1, <3>2
    <3>3. CASE ~opens
      BY <1>1, <1>5, <1>8, <3>1, <3>3
    <3> QED BY <3>2, <3>3
  <2>2. CASE n \notin 1..Len(trades)
    <3>1. closes /\ n = Len(trades) + 1
      BY <1>16, <2>2
    <3>2. trades'[n].to = i
      BY <1>6, <1>16, <3>1
    <3> QED BY <1>1, <1>5, <1>8, <3>1, <3>2
  <2> QED BY <2>1, <2>2
<1>18. NoPeeking'
  <2> SUFFICES ASSUME NEW n \in 1..Len(trades')
               PROVE  /\ trades'[n].from \in 1..trades'[n].to
                      /\ asked'[trades'[n].from] = trades'[n].side
                      /\ trades'[n].reason = "signal" => asked'[trades'[n].to] # trades'[n].side
                      /\ n > 1 => trades'[n - 1].to <= trades'[n].from
    BY DEF NoPeeking
  <2>1. CASE n \in 1..Len(trades)
    <3>1. /\ trades[n].from \in 1..trades[n].to /\ asked[trades[n].from] = trades[n].side
          /\ trades[n].reason = "signal" => asked[trades[n].to] # trades[n].side
          /\ n > 1 => trades[n - 1].to <= trades[n].from
          /\ trades[n].to <= Len(asked) - 1 /\ trades[n].to \in Nat
      BY <1>16, <2>1 DEF BacktestIInv, Asking, NoPeeking, Trade
    <3>2. trades'[n] = trades[n] /\ (n > 1 => trades'[n - 1] = trades[n - 1])
      BY <1>16, <2>1
    <3>3. trades[n].from \in 1..i /\ trades[n].to \in 1..i
      <4>1. Len(asked) = i /\ i \in Nat
        BY <1>1
      <4>2. /\ trades[n].from \in 1..trades[n].to /\ trades[n].to <= Len(asked) - 1
            /\ trades[n].to \in Nat
        BY <3>1
      <4> QED BY <4>1, <4>2
    <3> QED BY <1>5, <3>1, <3>2, <3>3
  <2>2. CASE n \notin 1..Len(trades)
    <3>1. closes /\ n = Len(trades) + 1 /\ trades'[n] = closed
      BY <1>16, <2>2
    <3>2. /\ closed.from = position.bar /\ closed.to = i /\ closed.side = position.side
          /\ position.bar \in 1..(i - 1) /\ asked[position.bar] = position.side
      BY <1>6, <1>15, <3>1
    <3>3. asked[i] # position.side /\ i \in 1..i
      BY <1>3, <3>1
    <3>4. n > 1 => trades'[n - 1] = trades[n - 1] /\ n - 1 \in 1..Len(trades)
      BY <1>16, <3>1
    <3>5. n > 1 => trades'[n - 1].to <= position.bar
      BY <1>15, <3>1, <3>4
    <3>6. /\ i \in Nat /\ position.bar \in 1..i
          /\ asked'[position.bar] = asked[position.bar] /\ asked'[i] = asked[i]
      BY <1>1, <1>5, <3>2, <3>3
    <3>7. /\ trades'[n].from = position.bar /\ trades'[n].to = i
          /\ trades'[n].side = position.side
      BY <3>1, <3>2
    <3> HIDE DEF closes, opens, due
    <3> QED BY <3>2, <3>3, <3>5, <3>6, <3>7
  <2> QED BY <2>1, <2>2
<1>19. Asking'
  BY <1>5, <1>13, <1>14, <1>17, <1>18 DEF Asking
<1>20. Reported'
  BY <1>1, <1>2 DEF BacktestIInv, Reported, i
<1> QED BY <1>12, <1>19, <1>20 DEF BacktestIInv

(* The end: what is open is closed at the last close.                      *)
LEMMA FinishKeeps ==
  ASSUME BacktestIInv, Finish
  PROVE  BacktestIInv'
<1> DEFINE forced == position.side # 0
           k == BarCount - 1
           closed == Closed(k, lastClose, "final-bar")
<1>1. /\ BarCount \in Nat \ {0} /\ k \in Nat /\ Len(equity) = BarCount /\ lastClose \in Int
      /\ equity \in Seq(Int) /\ trades \in Seq(Trade) /\ asked \in Seq({-1, 0, 1})
      /\ Len(asked) = BarCount /\ BarCount \in 1..Len(equity)
  BY BacktestAssumption DEF BacktestIInv, Books, Asking, Finish
<1>2. /\ position' = Flat /\ pending' = pending /\ lastClose' = lastClose /\ asked' = asked
      /\ trades' = IF forced THEN Append(trades, closed) ELSE trades
      /\ equity' = IF forced THEN [equity EXCEPT ![BarCount] = Pnl(trades')] ELSE equity
      /\ cash' = IF forced THEN cash + position.side * Shares * Fill(lastClose, -position.side) - Commission
                 ELSE cash
      /\ report' = [net |-> equity'[BarCount], drawdown |-> Drawdown(equity'), days |-> Daily(equity')]
  BY DEF Finish
<1>3. forced => /\ closed \in Trade /\ closed.from = position.bar /\ closed.to = k
                /\ closed.side = position.side /\ closed.reason = "final-bar"
                /\ Pnl(Append(trades, closed))
                     = cash + position.side * Shares * Fill(lastClose, -position.side) - Commission
                /\ Append(trades, closed) \in Seq(Trade)
                /\ Append(trades, closed)[Len(trades) + 1] = closed
  <2> SUFFICES ASSUME forced
               PROVE  /\ closed \in Trade /\ closed.from = position.bar /\ closed.to = k
                      /\ closed.side = position.side /\ closed.reason = "final-bar"
                      /\ Pnl(Append(trades, closed))
                           = cash + position.side * Shares * Fill(lastClose, -position.side)
                             - Commission
                      /\ Append(trades, closed) \in Seq(Trade)
                      /\ Append(trades, closed)[Len(trades) + 1] = closed
    OBVIOUS
  <2>1. Books /\ Asking /\ position.side # 0 /\ "final-bar" \in {"signal", "final-bar"}
    BY DEF BacktestIInv
  <2>2. /\ closed \in Trade /\ closed.from = position.bar /\ closed.to = k
        /\ closed.side = position.side /\ closed.reason = "final-bar"
        /\ Pnl(Append(trades, closed))
             = cash + position.side * Shares * Fill(lastClose, -position.side) - Commission
        /\ Append(trades, closed) \in Seq(Trade)
    BY <1>1, <2>1, ClosedTrade
  <2> HIDE DEF closed
  <2>3. Append(trades, closed)[Len(trades) + 1] = closed
    BY <1>1
  <2> QED BY <2>2, <2>3
<1> HIDE DEF closed
<1>4. /\ trades' \in Seq(Trade) /\ Len(trades) \in Nat
      /\ Len(trades') = Len(trades) + (IF forced THEN 1 ELSE 0)
      /\ \A n \in 1..Len(trades) : trades'[n] = trades[n] /\ trades[n] \in Trade
  <2>1. CASE forced
    BY <1>1, <1>2, <1>3, <2>1
  <2>2. CASE ~forced
    BY <1>1, <1>2, <2>2
  <2> QED BY <2>1, <2>2
<1>5. /\ position' \in [side: {-1, 0, 1}, entry: Int, bar: Nat, pnl: Int]
      /\ position'.side = 0 /\ position'.pnl = 0
      /\ position'.side * Shares * position'.entry = 0
      /\ position'.side * Shares * lastClose' = 0
  BY <1>1, <1>2, BacktestAssumption DEF Flat
<1>6. cash' = Pnl(trades') /\ Pnl(trades') \in Int
  <2>1. Pnl(trades') \in Int
    BY <1>4, PnlAppended
  <2>2. CASE forced
    BY <1>2, <1>3, <2>1, <2>2
  <2>3. CASE ~forced
    <3>1. position = Flat /\ trades' = trades /\ cash' = cash
      BY <1>2, <2>3 DEF BacktestIInv, Books
    <3>2. position.side * Shares * position.entry = 0 /\ position.pnl = 0
      BY <3>1, BacktestAssumption DEF Flat
    <3>3. cash = Pnl(trades) + position.pnl - position.side * Shares * position.entry
      BY DEF BacktestIInv, Books
    <3> QED BY <2>1, <3>1, <3>2, <3>3
  <2> QED BY <2>2, <2>3
<1>7. equity' \in Seq(Int) /\ Len(equity') = BarCount /\ equity'[BarCount] = cash'
  <2>1. CASE forced
    <3>1. equity' = [equity EXCEPT ![BarCount] = Pnl(trades')]
      BY <1>2, <2>1
    <3> QED BY <1>1, <1>6, <3>1
  <2>2. CASE ~forced
    <3>1. equity' = equity /\ cash' = cash /\ position = Flat /\ equity # <<>>
      BY <1>1, <1>2, <2>2 DEF BacktestIInv, Books
    <3>2. equity[Len(equity)] = cash + position.side * Shares * lastClose
      BY <3>1 DEF BacktestIInv, Books, EquityIsCash
    <3>3. position.side * Shares * lastClose = 0
      BY <1>1, <3>1, BacktestAssumption DEF Flat
    <3> QED BY <1>1, <1>6, <3>1, <3>2, <3>3
  <2> QED BY <2>1, <2>2
<1>8. EquityIsCash'
  BY <1>5, <1>6, <1>7 DEF EquityIsCash
<1>9. Books'
  <2>1. cash' = Pnl(trades') + position'.pnl - position'.side * Shares * position'.entry
    BY <1>5, <1>6
  <2> QED BY <1>1, <1>2, <1>4, <1>5, <1>7, <1>8, <2>1 DEF Books
<1>10. forced => position.bar \in 1..(k - 0) /\ position.bar <= k
                 /\ position.bar \in 1..k /\ asked[position.bar] = position.side
                 /\ \A n \in 1..Len(trades) : trades[n].to <= position.bar
  BY <1>1 DEF BacktestIInv, Asking
<1>11. ASSUME NEW n \in 1..Len(trades') PROVE trades'[n].to <= Len(asked') - 1
  <2>1. CASE n \in 1..Len(trades)
    BY <1>2, <1>4, <2>1 DEF BacktestIInv, Asking
  <2>2. CASE n \notin 1..Len(trades)
    <3>1. forced /\ n = Len(trades) + 1
      BY <1>4, <2>2
    <3>2. trades'[n].to = k
      BY <1>2, <1>3, <3>1
    <3> QED BY <1>1, <1>2, <3>2
  <2> QED BY <2>1, <2>2
<1>12. NoPeeking'
  <2> SUFFICES ASSUME NEW n \in 1..Len(trades')
               PROVE  /\ trades'[n].from \in 1..trades'[n].to
                      /\ asked'[trades'[n].from] = trades'[n].side
                      /\ trades'[n].reason = "signal" => asked'[trades'[n].to] # trades'[n].side
                      /\ n > 1 => trades'[n - 1].to <= trades'[n].from
    BY DEF NoPeeking
  <2>1. CASE n \in 1..Len(trades)
    <3>1. /\ trades[n].from \in 1..trades[n].to /\ asked[trades[n].from] = trades[n].side
          /\ trades[n].reason = "signal" => asked[trades[n].to] # trades[n].side
          /\ n > 1 => trades[n - 1].to <= trades[n].from
      BY <2>1 DEF BacktestIInv, Asking, NoPeeking
    <3>2. trades'[n] = trades[n] /\ (n > 1 => trades'[n - 1] = trades[n - 1])
      BY <1>4, <2>1
    <3> QED BY <1>2, <3>1, <3>2
  <2>2. CASE n \notin 1..Len(trades)
    <3>1. forced /\ n = Len(trades) + 1
      BY <1>4, <2>2
    <3>2. /\ trades'[n].from = position.bar /\ trades'[n].to = k
          /\ trades'[n].side = position.side /\ trades'[n].reason = "final-bar"
      BY <1>2, <1>3, <3>1
    <3>3. n > 1 => trades'[n - 1] = trades[n - 1] /\ n - 1 \in 1..Len(trades)
      BY <1>4, <3>1
    <3>4. n > 1 => trades'[n - 1].to <= position.bar
      BY <1>10, <3>1, <3>3
    <3> QED BY <1>2, <1>10, <3>1, <3>2, <3>4
  <2> QED BY <2>1, <2>2
<1>13. Asking'
  <2>1. pending = NoTarget \/ (asked # <<>> /\ pending = asked[Len(asked)])
    BY DEF BacktestIInv, Asking
  <2> QED BY <1>1, <1>2, <1>5, <1>7, <1>11, <1>12, <2>1 DEF Asking
<1>14. Reported'
  BY <1>2, <1>7 DEF Reported
<1> QED BY <1>9, <1>13, <1>14 DEF BacktestIInv

LEMMA BacktestIInvStep == BacktestIInv /\ [BacktestNext]_backtestVars => BacktestIInv'
<1> SUFFICES ASSUME BacktestIInv, [BacktestNext]_backtestVars PROVE BacktestIInv'
  OBVIOUS
<1>1. CASE UNCHANGED backtestVars
  BY <1>1 DEF backtestVars, BacktestIInv, Books, EquityIsCash, Asking, NoPeeking, Reported
<1>2. CASE \E open, close \in BarPrices, target \in {-1, 0, 1} : Bar(open, close, target)
  BY <1>2, BarKeeps
<1>3. CASE Finish
  BY <1>3, FinishKeeps
<1> QED BY <1>1, <1>2, <1>3 DEF BacktestNext

-----------------------------------------------------------------------------
(* Where the days of L bars end: in order, and the last one at the last    *)
(* bar.                                                                    *)
DayEnd(d, L) == IF d * BarsPerDay > L THEN L ELSE d * BarsPerDay
DaysOf(L) == (L + BarsPerDay - 1) \div BarsPerDay

LEMMA DayEnds ==
  ASSUME NEW L \in Nat \ {0}
  PROVE  /\ DaysOf(L) \in Nat \ {0} /\ DayEnd(DaysOf(L), L) = L
         /\ \A d \in 1..DaysOf(L) : DayEnd(d, L) \in 1..L
         /\ \A c, d \in 1..DaysOf(L) : c < d => DayEnd(c, L) < DayEnd(d, L)
<1> DEFINE B == BarsPerDay
           D == DaysOf(L)
<1>1. B \in Nat \ {0}
  BY BacktestAssumption
<1>2. D \in Int /\ B * D <= L + B - 1 /\ L + B - 1 < B * D + B
  BY <1>1 DEF DaysOf
<1> HIDE DEF D, B
<1>3. \A x, y \in Int : x <= y => B * x <= B * y
  BY <1>1
<1>4. D >= 1
  <2> SUFFICES ASSUME D <= 0 PROVE FALSE
    BY <1>2
  <2>1. B * D <= B * 0 /\ B * D \in Int
    BY <1>1, <1>2, <1>3
  <2> QED BY <1>1, <1>2, <2>1
<1>5. \A d \in 1..D : d \in Int /\ B * d \in Int /\ B * d >= B
  <2> SUFFICES ASSUME NEW d \in 1..D PROVE d \in Int /\ B * d \in Int /\ B * d >= B
    OBVIOUS
  <2>1. d \in Int /\ 1 <= d
    BY <1>2
  <2>2. B * 1 <= B * d
    BY <1>3, <2>1
  <2> QED BY <1>1, <2>1, <2>2
<1>6. \A d \in 1..D : DayEnd(d, L) = IF B * d > L THEN L ELSE B * d
  BY <1>1, <1>5 DEF DayEnd, B
<1>7. \A c, d \in 1..D : c < d => B * c < L /\ B * c < B * d
  <2> SUFFICES ASSUME NEW c \in 1..D, NEW d \in 1..D, c < d
               PROVE  B * c < L /\ B * c < B * d
    OBVIOUS
  <2>1. c \in Int /\ d \in Int /\ c + 1 <= d /\ c + 1 <= D
    BY <1>2
  <2>2. B * (c + 1) <= B * d /\ B * (c + 1) <= B * D
    BY <1>2, <1>3, <2>1
  <2>3. B * (c + 1) = B * c + B
    BY <1>1, <2>1
  <2>4. B * c \in Int /\ B * d \in Int /\ B * D \in Int
    BY <1>1, <1>2, <2>1
  <2> QED BY <1>1, <1>2, <2>2, <2>3, <2>4
<1>8. DayEnd(D, L) = L
  <2>1. D \in 1..D /\ B * D \in Int /\ B * D >= L
    BY <1>1, <1>2, <1>4
  <2> QED BY <1>6, <2>1
<1>9. \A d \in 1..D : DayEnd(d, L) \in 1..L
  BY <1>1, <1>5, <1>6
<1>10. \A c, d \in 1..D : c < d => DayEnd(c, L) < DayEnd(d, L)
  BY <1>5, <1>6, <1>7
<1> QED BY <1>2, <1>4, <1>8, <1>9, <1>10 DEF D

(* A day's fall is a fall between two of the bars.                         *)
LEMMA DailyFalls ==
  ASSUME NEW eq \in Seq(Int), Len(eq) # 0
  PROVE  /\ Falls(Daily(eq)) \subseteq Falls(eq)
         /\ Len(Daily(eq)) \in DOMAIN Daily(eq)
         /\ Daily(eq)[Len(Daily(eq))] = eq[Len(eq)]
<1> DEFINE L == Len(eq)
           D == DaysOf(L)
           days == Daily(eq)
<1>1. L \in Nat \ {0} /\ DOMAIN eq = 1..L
  OBVIOUS
<1>2. days = [d \in 1..D |-> eq[DayEnd(d, L)]]
  BY DEF Daily, DaysOf, DayEnd
<1>3. /\ D \in Nat \ {0} /\ DayEnd(D, L) = L
      /\ \A d \in 1..D : DayEnd(d, L) \in 1..L
      /\ \A c, d \in 1..D : c < d => DayEnd(c, L) < DayEnd(d, L)
  BY <1>1, DayEnds
<1> HIDE DEF L, D, days
<1>4. DOMAIN days = 1..D /\ \A d \in 1..D : days[d] = eq[DayEnd(d, L)]
  BY <1>2
<1>5. Len(days) = D
  BY <1>2, <1>3
<1>6. ASSUME NEW f \in Falls(days) PROVE f \in Falls(eq)
  <2>1. CASE f = 0
    BY <2>1 DEF Falls
  <2>2. CASE f \in {-days[j] : j \in DOMAIN days}
    <3>1. PICK j \in 1..D : f = -days[j]
      BY <1>4, <2>2
    <3>2. f = -eq[DayEnd(j, L)] /\ DayEnd(j, L) \in DOMAIN eq
      BY <1>1, <1>3, <1>4, <3>1
    <3> QED BY <3>2 DEF Falls
  <2>3. CASE f \in {days[p[1]] - days[p[2]] :
                    p \in {jk \in (DOMAIN days) \X (DOMAIN days) : jk[1] < jk[2]}}
    <3>1. PICK p \in {jk \in (DOMAIN days) \X (DOMAIN days) : jk[1] < jk[2]} :
              f = days[p[1]] - days[p[2]]
      BY <2>3
    <3>2. p[1] \in 1..D /\ p[2] \in 1..D /\ p[1] < p[2]
      BY <1>4, <3>1
    <3> DEFINE q == <<DayEnd(p[1], L), DayEnd(p[2], L)>>
    <3>3. q \in {jk \in (DOMAIN eq) \X (DOMAIN eq) : jk[1] < jk[2]}
      BY <1>1, <1>3, <3>2
    <3>4. f = eq[q[1]] - eq[q[2]]
      BY <1>4, <3>1, <3>2
    <3> HIDE DEF q
    <3> QED BY <3>3, <3>4 DEF Falls
  <2> QED BY <2>1, <2>2, <2>3 DEF Falls
<1>7. days[Len(days)] = eq[L] /\ Len(days) \in DOMAIN days
  BY <1>3, <1>4, <1>5
<1> QED BY <1>6, <1>7 DEF days, L

(* A set of integers with an upper bound has a largest element.            *)
LEMMA LargestBelow ==
  ASSUME NEW S \in SUBSET Int, S # {}, NEW top \in Int, \A x \in S : x <= top
  PROVE  Max(S) \in S /\ Max(S) <= top
<1> DEFINE T == {n \in Nat : top - n \in S}
<1>1. T # {}
  <2>1. PICK x \in S : TRUE
    OBVIOUS
  <2>2. x \in Int /\ top - x \in Nat /\ top - (top - x) = x
    BY <2>1
  <2> QED BY <2>1, <2>2
<1>2. PICK m \in T : \A n \in T : m <= n
  <2>1. T \subseteq Nat
    OBVIOUS
  <2> HIDE DEF T
  <2> QED BY <1>1, <2>1, LeastNatural
<1>3. ASSUME NEW y \in S PROVE top - m >= y
  <2>1. y \in Int /\ top - y \in Nat /\ top - (top - y) = y
    OBVIOUS
  <2>2. top - y \in T
    BY <2>1
  <2>3. m \in Nat
    BY <1>2
  <2>4. m <= top - y
    BY <1>2, <2>2
  <2> HIDE DEF T
  <2> QED BY <2>1, <2>3, <2>4
<1>4. top - m \in S
  BY <1>2
<1>5. \E x \in S : \A y \in S : x >= y
  BY <1>3, <1>4
<1>6. Max(S) \in S
  BY <1>5 DEF Max
<1> QED BY <1>6

LEMMA LargestIs ==
  ASSUME NEW S \in SUBSET Int, NEW top \in S, \A x \in S : x <= top
  PROVE  Max(S) = top
<1>1. \E x \in S : \A y \in S : x >= y
  OBVIOUS
<1>2. Max(S) \in S /\ \A y \in S : Max(S) >= y
  BY <1>1 DEF Max
<1>3. Max(S) \in Int /\ top \in Int /\ Max(S) >= top /\ Max(S) <= top
  BY <1>2
<1> HIDE DEF Max
<1> QED BY <1>3

LEMMA ReportIsSum == BacktestIInv => ReportAddsUp
<1> SUFFICES ASSUME BacktestIInv, report # NoReport
             PROVE  /\ report.net = Pnl(trades) /\ report.net = cash
                    /\ report.days[Len(report.days)] = report.net
                    /\ report.drawdown = Max(Falls(equity))
                    /\ Max(Falls(report.days)) <= report.drawdown
  BY DEF ReportAddsUp
<1>1. /\ report = [net |-> equity[BarCount], drawdown |-> Drawdown(equity), days |-> Daily(equity)]
      /\ Len(equity) = BarCount /\ position = Flat
      /\ equity \in Seq(Int) /\ Len(equity) # 0 /\ lastClose \in Int
  BY BacktestAssumption DEF BacktestIInv, Reported, Books
<1>2. report.net = equity[Len(equity)] /\ report.drawdown = Drawdown(equity) /\ report.days = Daily(equity)
  BY <1>1
<1>3. equity[Len(equity)] = cash /\ cash = Pnl(trades)
  <2>1. equity[Len(equity)] = cash + position.side * Shares * lastClose /\ equity # <<>>
    BY <1>1 DEF BacktestIInv, Books, EquityIsCash
  <2>2. cash = Pnl(trades) + position.pnl - position.side * Shares * position.entry
        /\ Pnl(trades) \in Int
    BY PnlAppended DEF BacktestIInv, Books
  <2>3. /\ position.side * Shares * lastClose = 0 /\ position.pnl = 0
        /\ position.side * Shares * position.entry = 0
    BY <1>1, BacktestAssumption DEF Flat
  <2> QED BY <2>1, <2>2, <2>3
<1>4. /\ Drawdown(equity) \in Falls(equity)
      /\ \A f \in Falls(equity) : f \in Int /\ f <= Drawdown(equity)
      /\ Drawdown(equity) \in Int
  BY <1>1, DrawdownIsFall
<1>5. /\ Falls(Daily(equity)) \subseteq Falls(equity)
      /\ Daily(equity)[Len(Daily(equity))] = equity[Len(equity)]
  BY <1>1, DailyFalls
<1>6. 0 \in Falls(Daily(equity))
  BY DEF Falls
<1> DEFINE S == Falls(equity)
           W == Falls(Daily(equity))
           top == Drawdown(equity)
<1> HIDE DEF S, W, top
<1>7. S \in SUBSET Int /\ top \in S /\ \A x \in S : x <= top
  BY <1>4 DEF S, top
<1>8. W \in SUBSET Int /\ W # {} /\ top \in Int /\ \A x \in W : x <= top
  BY <1>4, <1>5, <1>6 DEF S, W, top
<1>9. Max(S) = top
  BY <1>7, LargestIs
<1>10. Max(W) <= top
  BY <1>8, LargestBelow
<1> QED BY <1>2, <1>3, <1>5, <1>9, <1>10 DEF S, W, top

(* What a back-test shows is what its fills would have brought             *)
(* (services/backtest_engine.py).                                          *)
THEOREM BacktestIsHonest == BacktestSpec => []TestHonest
<1>1. BacktestInit => BacktestIInv
  BY BacktestStarts
<1>2. BacktestIInv /\ [BacktestNext]_backtestVars => BacktestIInv'
  BY BacktestIInvStep
<1>3. BacktestIInv => TestHonest
  BY ReportIsSum DEF TestHonest, BacktestIInv, Books, Asking
<1> QED BY <1>1, <1>2, <1>3, PTL DEF BacktestSpec

-----------------------------------------------------------------------------
(***************************************************************************)
(* Dataset: the rows of a build are rows of every later build, for any     *)
(* shapes of bars, lengths of session, lags and windows. A bar has ended when*)
(* it is there and a disclosure is available after it was made, so neither *)
(* the features nor the label of a row can change any more.                *)
(***************************************************************************)

(* Bars have ended before now, nothing is from the future.                 *)
BarRow == [at: Nat, close: Int, high: Int, low: Int]
DatasetIInv ==
    /\ time \in Nat
    /\ history \in Seq(BarRow) /\ \A i \in 1..Len(history) : history[i].at < time
    /\ \A e \in news : e.kind \in Kinds /\ e.at \in Nat

LEMMA DatasetStarts == DatasetInit => DatasetIInv
  BY DEF DatasetInit, DatasetIInv

(* A time is before the end of its day.                                    *)
LEMMA SessionEnds ==
  ASSUME NEW p \in Nat \ {0}, NEW t \in Nat, NEW l \in Nat \ {0}
  PROVE  t \div p \in Nat /\ t < (t \div p + l) * p
<1>1. t \div p \in Nat /\ t < (t \div p + 1) * p
  OBVIOUS
<1>2. (t \div p + 1) * p <= (t \div p + l) * p
  BY <1>1
<1>3. (t \div p + 1) * p \in Nat /\ (t \div p + l) * p \in Nat
  BY <1>1
<1> QED BY <1>1, <1>2, <1>3

(* Nothing is used before it is published.                                 *)
LEMMA AvailableLater ==
  ASSUME NEW e, e.kind \in Kinds, e.at \in Nat
  PROVE  Available(e) \in Nat /\ e.at <= Available(e)
<1>0. PerDay \in Nat \ {0} /\ Lag \in Nat \ {0} /\ MonthDays \in Nat \ {0}
  BY DatasetAssumption
<1>1. CASE e.kind = "news"
  BY <1>1 DEF Available
<1>2. CASE e.kind \in {"insider", "fred"}
  <2>1. Available(e) = (DayOf(e.at) + Lag) * PerDay
    BY <1>2 DEF Available
  <2>2. e.at < (e.at \div PerDay + Lag) * PerDay /\ (e.at \div PerDay + Lag) * PerDay \in Nat
    <3>1. e.at \div PerDay \in Nat
      BY <1>0, SessionEnds
    <3>2. (e.at \div PerDay + Lag) * PerDay \in Nat
      BY <1>0, <3>1
    <3> QED BY <1>0, <3>2, SessionEnds
  <2> QED BY <2>1, <2>2 DEF DayOf
<1>3. CASE e.kind = "recommendation"
  <2> DEFINE d == e.at \div PerDay
             m == (d \div MonthDays + 1) * MonthDays
  <2>1. Available(e) = m * PerDay
    BY <1>3 DEF Available, DayOf
  <2>2. d \in Nat /\ e.at < (d + 1) * PerDay
    BY <1>0, SessionEnds
  <2>3. d + 1 <= m /\ m \in Nat
    <3> HIDE DEF d
    <3>1. d \div MonthDays \in Nat /\ d < m
      BY <1>0, <2>2, SessionEnds
    <3>2. m \in Nat
      BY <1>0, <3>1
    <3> QED BY <2>2, <3>1, <3>2
  <2> HIDE DEF d, m
  <2>4. (d + 1) * PerDay <= m * PerDay /\ m * PerDay \in Nat /\ (d + 1) * PerDay \in Nat
    BY <1>0, <2>2, <2>3
  <2> QED BY <2>1, <2>2, <2>4
<1> QED BY <1>1, <1>2, <1>3 DEF Kinds

(* What is published now is too late for a bar that has ended.             *)
LEMMA FeaturesFixed ==
  ASSUME DatasetIInv, DatasetNext, NEW t \in Nat, t < time
  PROVE  \A kind \in Kinds : AsOf(kind, t)' = AsOf(kind, t)
<1>1. CASE news' = news
  BY <1>1 DEF AsOf
<1>2. CASE \E kind \in Kinds, value \in {1, 2} : Disclose(kind, value)
  <2>1. PICK kind \in Kinds, value \in {1, 2} :
          news' = news \cup {[kind |-> kind, at |-> time, value |-> value]}
    BY <1>2 DEF Disclose
  <2> DEFINE e == [kind |-> kind, at |-> time, value |-> value]
  <2>2. e.kind \in Kinds /\ e.at = time /\ time \in Nat
    BY DEF DatasetIInv
  <2>3. Available(e) \in Nat /\ time <= Available(e)
    BY <2>2, AvailableLater
  <2>4. ~(Available(e) <= t)
    BY <2>2, <2>3
  <2> HIDE DEF e
  <2>5. news' = news \cup {e}
    BY <2>1 DEF e
  <2> QED BY <2>4, <2>5 DEF AsOf
<1> QED BY <1>1, <1>2 DEF DatasetNext, NextBar, NoBar

LEMMA BarEnded ==
  ASSUME DatasetIInv, NEW i \in 1..Len(history)
  PROVE  history[i].at \in Nat /\ history[i].at < time
<1>1. history[i] \in BarRow /\ history[i].at < time
  BY DEF DatasetIInv
<1> QED BY <1>1 DEF BarRow

LEMMA DatasetKeeps == DatasetIInv /\ [DatasetNext]_datasetVars => DatasetIInv'
<1> SUFFICES ASSUME DatasetIInv, [DatasetNext]_datasetVars PROVE DatasetIInv'
  OBVIOUS
<1> USE DEF DatasetIInv
<1>1. CASE UNCHANGED datasetVars
  BY <1>1 DEF datasetVars
<1>2. ASSUME NEW shape \in Shapes, NextBar(shape)
      PROVE  DatasetIInv'
  <2> DEFINE b == [at |-> time, close |-> shape.close, high |-> shape.high, low |-> shape.low]
  <2>1. b \in BarRow /\ b.at = time
    BY DatasetAssumption DEF BarRow
  <2> HIDE DEF b
  <2>2. history' = Append(history, b) /\ time' = time + 1 /\ news' = news
    BY <1>2 DEF NextBar, b
  <2>3. /\ history' \in Seq(BarRow) /\ Len(history') = Len(history) + 1
        /\ \A i \in 1..Len(history) : history'[i] = history[i]
        /\ history'[Len(history) + 1] = b
    BY <2>1, <2>2
  <2>4. \A i \in 1..Len(history') : history'[i].at < time'
    <3>1. TAKE i \in 1..Len(history')
    <3>2. CASE i = Len(history) + 1
      BY <2>1, <2>2, <2>3, <3>2
    <3>3. CASE i \in 1..Len(history)
      <4>1. history[i].at < time /\ history[i].at \in Nat
        BY <3>3, BarEnded
      <4> QED BY <2>2, <2>3, <3>3, <4>1
    <3> QED BY <2>3, <3>2, <3>3
  <2> QED BY <2>2, <2>3, <2>4
<1>3. CASE NoBar
  <2>1. \A i \in 1..Len(history) : history[i].at \in Nat /\ history[i].at < time
    BY BarEnded
  <2>2. time' = time + 1 /\ history' = history /\ news' = news
    BY <1>3 DEF NoBar
  <2> QED BY <2>1, <2>2
<1>4. CASE \E kind \in Kinds, value \in {1, 2} : Disclose(kind, value)
  BY <1>4 DEF Disclose
<1> QED BY <1>1, <1>2, <1>3, <1>4 DEF DatasetNext

-----------------------------------------------------------------------------
(* A later bar is a later place.                                           *)
LEMMA ScannedGrows ==
  ASSUME DatasetIInv, DatasetNext, NEW i \in 1..Len(history)
  PROVE  /\ Len(history) \in Nat /\ i \in 1..Len(history)'
         /\ \A k \in 1..Len(history) : history'[k] = history[k]
         /\ Scanned(i) = Scanned(i)' \cap 1..Len(history)
         /\ Touches(i) = Touches(i)' \cap 1..Len(history)
         /\ Scanned(i)' \subseteq 1..(Len(history) + 1)
         /\ \A j \in 1..Len(history) : Upper(i, j)' = Upper(i, j) /\ Lower(i, j)' = Lower(i, j)
<1>1. /\ Len(history) \in Nat /\ Len(history') \in {Len(history), Len(history) + 1}
      /\ \A k \in 1..Len(history) : history'[k] = history[k]
  <2>1. CASE history' = history
    BY <2>1 DEF DatasetIInv
  <2>2. CASE \E b : history' = Append(history, b)
    BY <2>2 DEF DatasetIInv
  <2> QED BY <2>1, <2>2 DEF DatasetNext, NextBar, NoBar, Disclose
<1>2. i \in 1..Len(history')
  BY <1>1
<1>3. /\ Scanned(i) = Scanned(i)' \cap 1..Len(history)
      /\ Scanned(i)' \subseteq 1..(Len(history) + 1)
  BY <1>1 DEF Scanned
<1>4. \A j \in 1..Len(history) : Upper(i, j)' = Upper(i, j) /\ Lower(i, j)' = Lower(i, j)
  BY <1>1 DEF Upper, Lower
<1>5. Touches(i) = Touches(i)' \cap 1..Len(history)
  BY <1>3, <1>4 DEF Touches
<1> QED BY <1>1, <1>2, <1>3, <1>4, <1>5

(* The least of a set does not move when something greater is added.       *)
LEMMA LeastStays ==
  ASSUME NEW n \in Nat, NEW S, NEW R, S # {}, S = R \cap 1..n, R \subseteq 1..(n + 1)
  PROVE  Min(R) = Min(S) /\ Min(S) \in S
<1>1. PICK m \in S : \A k \in S : m <= k
  <2>1. S \subseteq Nat
    OBVIOUS
  <2> QED BY <2>1, LeastNatural
<1>2. \A k \in R : m <= k
  BY <1>1
<1>3. S \subseteq Nat /\ R \subseteq Nat /\ m \in R
  BY <1>1
<1>4. ASSUME NEW T, T \subseteq Nat, m \in T, \A k \in T : m <= k
      PROVE  Min(T) = m
  <2>1. \A x \in T : (\A k \in T : x <= k) => x = m
    BY <1>4
  <2> QED BY <1>4, <2>1 DEF Min
<1> QED BY <1>1, <1>2, <1>3, <1>4

(* A label does not change.                                                *)
LEMMA LabelFixed ==
  ASSUME DatasetIInv, DatasetNext, NEW i \in 1..Len(history), Label(i) # Unlabelled
  PROVE  Label(i)' = Label(i)
<1> DEFINE n == Len(history)
<1>1. /\ n \in Nat /\ \A k \in 1..n : history'[k] = history[k]
      /\ Scanned(i) = Scanned(i)' \cap 1..n /\ Touches(i) = Touches(i)' \cap 1..n
      /\ Scanned(i)' \subseteq 1..(n + 1)
      /\ \A j \in 1..n : Upper(i, j)' = Upper(i, j) /\ Lower(i, j)' = Lower(i, j)
      /\ Touches(i)' \subseteq Scanned(i)'
  BY ScannedGrows DEF Touches
<1> HIDE DEF n
<1>2. ~(i < Warmup)
  BY DEF Label
<1>3. CASE Touches(i) # {}
  <2>1. Min(Touches(i)') = Min(Touches(i)) /\ Min(Touches(i)) \in Touches(i)
    BY <1>1, <1>3, LeastStays
  <2>2. PICK j \in 1..n : j = Min(Touches(i))
    BY <1>1, <2>1
  <2>3. Label(i) = Labelled(IF Lower(i, j) THEN "lower" ELSE "upper", j)
    BY <1>2, <1>3, <2>2 DEF Label
  <2>4. Touches(i)' # {} /\ j = Min(Touches(i)')
    BY <1>1, <1>3, <2>1, <2>2
  <2>5. Label(i)' = [label |-> IF Lower(i, j)' THEN "0" ELSE "1",
                     touch |-> IF Lower(i, j)' THEN "lower" ELSE "upper",
                     end |-> history'[j].at]
    BY <1>2, <2>4 DEF Label, Labelled
  <2>6. Label(i) = [label |-> IF Lower(i, j) THEN "0" ELSE "1",
                    touch |-> IF Lower(i, j) THEN "lower" ELSE "upper",
                    end |-> history[j].at]
    BY <2>3 DEF Labelled
  <2> QED BY <1>1, <2>2, <2>5, <2>6
<1>4. CASE Touches(i) = {}
  <2>1. i + Horizon \in Scanned(i) /\ Label(i) = Labelled("vertical", i + Horizon)
    BY <1>2, <1>4 DEF Label
  <2>2. i + Horizon <= n /\ i + Horizon \in 1..n /\ i + Horizon \in Scanned(i)'
    BY <1>1, <2>1
  <2>3. Touches(i)' = {}
    <3>1. ASSUME NEW j \in Touches(i)' PROVE FALSE
      <4>1. j <= i + Horizon /\ j \in 1..(n + 1)
        BY <1>1, <3>1 DEF Scanned
      <4>2. j \in 1..n
        BY <1>1, <2>2, <4>1
      <4> QED BY <1>1, <1>4, <3>1, <4>2
    <3> QED BY <3>1
  <2>4. Label(i)' = Labelled("vertical", i + Horizon)'
    BY <1>2, <2>2, <2>3 DEF Label
  <2> QED BY <1>1, <2>1, <2>2, <2>4 DEF Labelled
<1> QED BY <1>3, <1>4

(* The columns of a bar as a function of what was published.               *)
Known(S, kind, t) == {e \in S : e.kind = kind /\ Available(e) <= t}
Recent(S, t) == {e \in S : Available(e) > t - Window * PerDay}
Joined(S, t) ==
    [news    |-> Cardinality(Recent(Known(S, "news", t), t)),
     insider |-> Total(Recent(Known(S, "insider", t), t)),
     since   |-> {t - Available(e) : e \in Latest(Known(S, "insider", t))},
     score   |-> {e.value : e \in Latest(Known(S, "recommendation", t))},
     level   |-> {e.value : e \in Latest(Known(S, "fred", t))},
     change  |-> {e.value : e \in Latest(Before(Known(S, "fred", t)))}]

LEMMA RowsJoined ==
  /\ BuildRows =
       {[entry |-> history[i].at, features |-> Joined(news, history[i].at), label |-> Label(i)] :
           i \in {k \in 1..Len(history) : Label(k) # Unlabelled}}
  /\ BuildRows' =
       {[entry |-> history'[i].at, features |-> Joined(news', history'[i].at), label |-> Label(i)'] :
           i \in {k \in 1..Len(history') : Label(k)' # Unlabelled}}
BY DEF BuildRows, Features, InWindow, AsOf, Joined, Known, Recent, Unlabelled

(* A row of a build is a row of every later one, whatever bars and news    *)
(* come, for any session, horizon, window and positive lag.                *)
THEOREM RowsAreStable == DatasetSpec => RowsStable
<1>1. DatasetIInv /\ [DatasetNext]_datasetVars => [BuildRows \subseteq BuildRows']_datasetVars
  <2>1. SUFFICES ASSUME DatasetIInv, DatasetNext, NEW row \in BuildRows
                 PROVE  row \in BuildRows'
    OBVIOUS
  <2>2. PICK i \in 1..Len(history) :
          /\ Label(i) # Unlabelled
          /\ row = [entry |-> history[i].at, features |-> Joined(news, history[i].at),
                    label |-> Label(i)]
    BY RowsJoined
  <2>3. Label(i)' = Label(i) /\ i \in 1..Len(history') /\ history'[i] = history[i]
    BY <2>1, <2>2, LabelFixed, ScannedGrows
  <2>4. PICK t \in Nat : t = history[i].at /\ t < time
    BY <2>1, BarEnded
  <2>5. \A kind \in Kinds : Known(news', kind, t) = Known(news, kind, t)
    BY <2>1, <2>4, FeaturesFixed DEF AsOf, Known
  <2>6. Joined(news', t) = Joined(news, t)
    BY <2>5 DEF Joined, Kinds
  <2>7. /\ Label(i)' # Unlabelled
        /\ row = [entry |-> history'[i].at, features |-> Joined(news', history'[i].at),
                  label |-> Label(i)']
    BY <2>2, <2>3, <2>4, <2>6
  <2> QED BY <2>3, <2>7, RowsJoined
<1> QED BY <1>1, DatasetStarts, DatasetKeeps, PTL DEF DatasetSpec, RowsStable

-----------------------------------------------------------------------------
(***************************************************************************)
(* Strategies: when a strategy holds a position and for what it gives one up,*)
(* for any prices, windows, restarts and missing bars, if the hours by which*)
(* orb_safe and gap_fill are flat are before the close.  The invariant says*)
(* when a position was entered, relative to the last bar and to the hours. *)
(***************************************************************************)

WindowRow == [day: Nat, minute: Int, price: Levels \cup {Min(Levels)}]
Moment == [day: Nat, minute: Int]

(* Bars come in the order of their times, and a position was entered at    *)
(* one of them.                                                            *)
MomentsInv ==
    /\ bars \in Seq(WindowRow)
    /\ last \in Moment /\ entered \in Moment
    /\ sign # 0 => /\ entered.day <= last.day
                   /\ entered.day = last.day => entered.minute <= last.minute

(* At the last minute whatever was held is flattened, so what is held after*)
(* it was entered at it.                                                   *)
ClosedInv ==
    /\ isOver => last.minute >= RthClose - 1
    /\ isOver /\ sign # 0 /\ strategy \in RequiresRth =>
          /\ strategy \in {"ict", "macd_rsi_adx"}
          /\ entered = [day |-> last.day, minute |-> RthClose - 1]

(* orb_safe enters after the range is known, gap_fill after the wait.      *)
EnteredInv ==
    sign # 0 => /\ strategy = "orb_safe" => entered.minute >= RangeEnd
                /\ strategy = "gap_fill" => entered.minute >= WaitEnd

StrategyIInv == MomentsInv /\ ClosedInv /\ EnteredInv

LEMMA StrategyStarts == StrategyInit => StrategyIInv
<1> SUFFICES ASSUME StrategyInit PROVE StrategyIInv
  OBVIOUS
<1>1. /\ bars = <<>> /\ last = [day |-> 0, minute |-> RthClose] /\ isOver = FALSE
      /\ sign = 0 /\ entered = Nowhere
  BY DEF StrategyInit
<1>2. bars \in Seq(WindowRow) /\ last \in Moment /\ entered \in Moment
  BY <1>1, StrategyAssumption DEF Moment, Nowhere
<1> QED BY <1>1, <1>2 DEF StrategyIInv, MomentsInv, ClosedInv, EnteredInv

(* The window ends with the bar that came.                                 *)
LEMMA BarAppended ==
  ASSUME bars \in Seq(WindowRow), NEW b \in WindowRow
  PROVE  Appended(b) \in Seq(WindowRow) /\ Last(Appended(b)) = b /\ Len(Appended(b)) \in DOMAIN Appended(b)
<1> DEFINE all == Append(bars, b)
<1>1. /\ all \in Seq(WindowRow) /\ Len(all) = Len(bars) + 1 /\ all[Len(all)] = b
  OBVIOUS
<1>2. CASE Len(all) > WindowBars
  <2>1. Len(all) > 1
    BY <1>1, <1>2, StrategyAssumption
  <2>2. Tail(all) \in Seq(WindowRow) /\ Len(Tail(all)) = Len(all) - 1
    BY <1>1, <2>1
  <2>3. Tail(all)[Len(all) - 1] = all[Len(all)]
    BY <1>1, <2>1
  <2>4. Appended(b) = Tail(all)
    BY <1>2 DEF Appended
  <2> HIDE DEF all
  <2> QED BY <1>1, <2>1, <2>2, <2>3, <2>4 DEF Last
<1>3. CASE ~(Len(all) > WindowBars)
  <2>1. Appended(b) = all
    BY <1>3 DEF Appended
  <2> HIDE DEF all
  <2> QED BY <1>1, <2>1 DEF Last
<1> QED BY <1>2, <1>3

(* When orb_safe gives up a position and when it takes one.                *)
LEMMA OrbSafeTargets ==
  ASSUME NEW past, NEW t \in OrbSafe(past)
  PROVE  /\ sign # 0 => t \in {0, sign}
         /\ sign # 0 /\ t = 0 => \/ Last(past).minute >= FlatAt \/ Last(past).minute < RangeEnd
                                 \/ OpeningRange(past) = {}
         /\ t # 0 => ~(Last(past).minute >= FlatAt) /\ ~(Last(past).minute < RangeEnd)
  BY DEF OrbSafe

(* When gap_fill does.                                                     *)
LEMMA GapFillTargets ==
  ASSUME NEW past, NEW t \in GapFill(past)
  PROVE  /\ sign # 0 => t \in {0, sign}
         /\ sign # 0 /\ t = 0 => \/ ~GapKnown(past) \/ Last(past).minute >= GapCutoff
                                 \/ GapFilled(past)
         /\ sign = 0 /\ t # 0 => ~(Last(past).minute >= GapCutoff) /\ ~(Last(past).minute < WaitEnd)
  BY DEF GapFill

(* One bar, and what the strategy asked for at it.                         *)
LEMMA BarComes ==
  ASSUME StrategyIInv, NEW d \in 1..MaxDay, NEW m \in Minutes, NEW p \in PricesSeen, BarArrives(d, m, p)
  PROVE  /\ bars' \in Seq(WindowRow) /\ Len(bars') \in DOMAIN bars'
         /\ Last(bars') = [day |-> d, minute |-> m, price |-> p]
         /\ last' = [day |-> d, minute |-> m] /\ d \in Nat /\ m \in Int
         /\ d >= last.day /\ (d = last.day => m > last.minute)
         /\ strategy' = strategy
         /\ isOver' = (m = RthClose - 1 \/ (d = last.day /\ isOver))
         /\ entered' = IF sign' = 0 THEN Nowhere ELSE IF sign' = sign THEN entered ELSE last'
         /\ last \in Moment /\ entered \in Moment
         /\ strategy \in RequiresRth /\ sign # 0 /\ m = RthClose - 1 => sign' = 0
         /\ ~(strategy \in RequiresRth /\ sign # 0 /\ m = RthClose - 1) =>
                \/ \E t \in Targets(bars') : sign' = Towards(t)
                \/ sign' = 0 /\ (sign = 0 \/ strategy = "confluence_long")
<1> DEFINE b == [day |-> d, minute |-> m, price |-> p]
<1>1. d \in Nat /\ m \in Int /\ p \in Levels \cup {Min(Levels)}
  BY StrategyAssumption DEF Minutes, PricesSeen
<1>2. b \in WindowRow
  BY <1>1 DEF WindowRow
<1>3. /\ bars' = Appended(b) /\ last' = [day |-> d, minute |-> m]
      /\ isOver' = (m = RthClose - 1 \/ (d = last.day /\ isOver))
      /\ entered' = IF sign' = 0 THEN Nowhere ELSE IF sign' = sign THEN entered ELSE last'
      /\ strategy' = strategy
  BY DEF BarArrives
<1>4. bars \in Seq(WindowRow) /\ last \in Moment /\ entered \in Moment
  BY DEF StrategyIInv, MomentsInv
<1>5. bars' \in Seq(WindowRow) /\ Last(bars') = b /\ Len(bars') \in DOMAIN bars'
  BY <1>2, <1>3, <1>4, BarAppended
<1>6. d >= last.day /\ (d = last.day => m > last.minute)
  <2>1. \/ d = last.day /\ m \in last.minute + 1 .. last.minute + 1 + Skip
        \/ d = last.day + 1
    BY DEF BarArrives
  <2>2. last.day \in Nat /\ last.minute \in Int /\ Skip \in Nat
    BY <1>4, StrategyAssumption DEF Moment
  <2> QED BY <1>1, <2>1, <2>2
<1>7. sign' \in IF Flattened(b) THEN {0}
               ELSE {Towards(t) : t \in Targets(bars')} \cup (IF sign = 0 \/ strategy = "confluence_long" THEN {0} ELSE {})
  BY DEF BarArrives
<1>8. Flattened(b) <=> strategy \in RequiresRth /\ sign # 0 /\ m = RthClose - 1
  BY DEF Flattened
<1> QED BY <1>1, <1>3, <1>4, <1>5, <1>6, <1>7, <1>8

(* What the four strategies for regular hours may ask for, and that two of *)
(* them enter in regular hours only.                                       *)
LEMMA TargetsAre ==
  ASSUME NEW past, NEW t \in Targets(past), strategy \in RequiresRth
  PROVE  /\ strategy = "orb_safe" => Towards(t) \in OrbSafe(past)
         /\ strategy = "gap_fill" => Towards(t) \in GapFill(past)
         /\ strategy \in {"orb_safe", "gap_fill", "ict", "macd_rsi_adx"}
<1>1. /\ strategy = "orb_safe" => t \in OrbSafe(past)
      /\ strategy = "gap_fill" => t \in GapFill(past)
      /\ strategy \in {"orb_safe", "gap_fill", "ict", "macd_rsi_adx"}
  BY DEF Targets, RequiresRth
<1>2. sign # 0 /\ t \in {0, sign} => Towards(t) = t
  BY DEF Towards
<1>3. sign = 0 => Towards(t) = t
  BY DEF Towards
<1> QED BY <1>1, <1>2, <1>3, OrbSafeTargets, GapFillTargets

LEMMA EntersInHours ==
  ASSUME NEW past, NEW t \in Targets(past), strategy \in {"ict", "macd_rsi_adx"},
         Last(past).minute \in Int, sign = 0, t # 0
  PROVE  Last(past).minute <= RthClose - 1
<1>1. RthClose \in Nat /\ Hour \in Nat
  BY StrategyAssumption
<1>2. CASE strategy = "ict"
  <2>1. t \in Ict(past)
    BY <1>2 DEF Targets
  <2> QED BY <1>1, <2>1 DEF Ict, Rth
<1>3. CASE strategy = "macd_rsi_adx"
  <2>1. t \in MacdRsiAdx(past)
    BY <1>3 DEF Targets
  <2>2. \/ Last(past).minute \in Rth
        \/ Last(past).minute + Hour \in Rth
    BY <2>1 DEF MacdRsiAdx
  <2> QED BY <1>1, <2>2 DEF Rth
<1> QED BY <1>2, <1>3

LEMMA BarKeepsStrategy ==
  ASSUME StrategyIInv, NEW d \in 1..MaxDay, NEW m \in Minutes, NEW p \in PricesSeen, BarArrives(d, m, p)
  PROVE  StrategyIInv'
<1>0. /\ RangeEnd \in Nat /\ FlatAt \in Nat /\ WaitEnd \in Nat /\ GapCutoff \in Nat
      /\ RthClose \in Nat /\ FlatAt < RthClose /\ GapCutoff < RthClose
  BY StrategyAssumption
<1>1. /\ bars' \in Seq(WindowRow)
      /\ Last(bars') = [day |-> d, minute |-> m, price |-> p]
      /\ last' = [day |-> d, minute |-> m] /\ d \in Nat /\ m \in Int
      /\ d >= last.day /\ (d = last.day => m > last.minute)
      /\ strategy' = strategy
      /\ isOver' = (m = RthClose - 1 \/ (d = last.day /\ isOver))
      /\ entered' = IF sign' = 0 THEN Nowhere ELSE IF sign' = sign THEN entered ELSE last'
      /\ last \in Moment /\ entered \in Moment
      /\ strategy \in RequiresRth /\ sign # 0 /\ m = RthClose - 1 => sign' = 0
      /\ ~(strategy \in RequiresRth /\ sign # 0 /\ m = RthClose - 1) =>
             \/ \E t \in Targets(bars') : sign' = Towards(t)
             \/ sign' = 0 /\ (sign = 0 \/ strategy = "confluence_long")
  BY BarComes
<1>2. /\ last.day \in Nat /\ last.minute \in Int /\ entered.day \in Nat /\ entered.minute \in Int
      /\ last'.day = d /\ last'.minute = m /\ last' \in Moment /\ Last(bars').minute = m
      /\ d \in Nat /\ m \in Int
  BY <1>1 DEF Moment
<1>3. sign' # 0 => /\ entered' = (IF sign' = sign THEN entered ELSE last')
                   /\ entered'.day <= d /\ (entered'.day = d => entered'.minute <= m)
  <2>1. SUFFICES ASSUME sign' # 0
                 PROVE  /\ entered' = (IF sign' = sign THEN entered ELSE last')
                        /\ entered'.day <= d /\ (entered'.day = d => entered'.minute <= m)
    OBVIOUS
  <2>2. entered' = (IF sign' = sign THEN entered ELSE last')
    BY <1>1, <2>1
  <2>3. CASE sign' = sign
    <3>1. entered' = entered /\ sign # 0
      BY <2>1, <2>2, <2>3
    <3>2. entered.day <= last.day /\ (entered.day = last.day => entered.minute <= last.minute)
      BY <3>1 DEF StrategyIInv, MomentsInv
    <3>3. d >= last.day /\ (d = last.day => m > last.minute)
      BY <1>1
    <3> QED BY <1>2, <2>2, <3>1, <3>2, <3>3
  <2>4. CASE sign' # sign
    BY <1>2, <2>2, <2>4
  <2> QED BY <2>3, <2>4
<1>4. MomentsInv'
  <2>1. entered' \in Moment
    BY <1>1, <1>2 DEF Moment, Nowhere
  <2> QED BY <1>1, <1>2, <1>3, <2>1 DEF MomentsInv
<1>5. sign' # 0 /\ strategy = "orb_safe" => /\ m < FlatAt /\ m >= RangeEnd
                                           /\ (sign # 0 => sign' = sign)
  <2>1. SUFFICES ASSUME sign' # 0, strategy = "orb_safe"
                 PROVE  m < FlatAt /\ m >= RangeEnd /\ (sign # 0 => sign' = sign)
    OBVIOUS
  <2>2. sign' \in OrbSafe(bars')
    BY <1>1, <2>1, TargetsAre DEF RequiresRth
  <2> QED BY <1>0, <1>2, <2>1, <2>2, OrbSafeTargets
<1>6. sign' # 0 /\ strategy = "gap_fill" => /\ (sign = 0 => m < GapCutoff /\ m >= WaitEnd)
                                           /\ (sign # 0 => sign' = sign)
  <2>1. SUFFICES ASSUME sign' # 0, strategy = "gap_fill"
                 PROVE  /\ (sign = 0 => m < GapCutoff /\ m >= WaitEnd)
                        /\ (sign # 0 => sign' = sign)
    OBVIOUS
  <2>2. sign' \in GapFill(bars')
    BY <1>1, <2>1, TargetsAre DEF RequiresRth
  <2> QED BY <1>0, <1>2, <2>1, <2>2, GapFillTargets
<1>7. EnteredInv'
  <2>1. ASSUME sign' # 0, strategy = "orb_safe" PROVE entered'.minute >= RangeEnd
    BY <1>0, <1>1, <1>2, <1>3, <1>5, <2>1 DEF StrategyIInv, EnteredInv
  <2>2. ASSUME sign' # 0, strategy = "gap_fill" PROVE entered'.minute >= WaitEnd
    BY <1>0, <1>1, <1>2, <1>3, <1>6, <2>2 DEF StrategyIInv, EnteredInv
  <2> QED BY <1>1, <2>1, <2>2 DEF EnteredInv
<1>8. isOver' => m >= RthClose - 1
  <2>1. SUFFICES ASSUME isOver' PROVE m >= RthClose - 1
    OBVIOUS
  <2>2. m = RthClose - 1 \/ (d = last.day /\ isOver)
    BY <1>1, <2>1, Zenon
  <2>3. isOver => last.minute >= RthClose - 1
    BY DEF StrategyIInv, ClosedInv
  <2>4. d = last.day => m > last.minute
    BY <1>1
  <2> QED BY <1>0, <1>2, <2>2, <2>3, <2>4
<1>9. ASSUME isOver', sign' # 0, strategy \in RequiresRth
      PROVE  /\ strategy \in {"ict", "macd_rsi_adx"}
             /\ entered' = [day |-> d, minute |-> RthClose - 1]
  <2>1. strategy # "orb_safe"
    BY <1>0, <1>2, <1>5, <1>8, <1>9
  <2>2. sign # 0 => isOver /\ d = last.day
    BY <1>1, <1>9
  <2>3. strategy # "gap_fill"
    BY <1>0, <1>2, <1>6, <1>8, <1>9, <2>2 DEF StrategyIInv, ClosedInv
  <2>4. strategy \in {"ict", "macd_rsi_adx"}
    BY <1>9, <2>1, <2>3 DEF RequiresRth
  <2>5. CASE sign' = sign
    BY <1>3, <1>9, <2>2, <2>4, <2>5 DEF StrategyIInv, ClosedInv
  <2>6. CASE sign' # sign
    <3>1. PICK t \in Targets(bars') : sign' = Towards(t)
      BY <1>1, <1>9
    <3>2. sign = 0 /\ t # 0
      BY <1>9, <2>6, <3>1 DEF Towards
    <3>3. m <= RthClose - 1
      BY <1>2, <2>4, <3>1, <3>2, EntersInHours
    <3>4. m = RthClose - 1
      BY <1>0, <1>2, <1>8, <1>9, <3>3
    <3> QED BY <1>1, <1>3, <1>9, <2>4, <2>6, <3>4
  <2> QED BY <2>5, <2>6
<1>10. ClosedInv'
  BY <1>1, <1>2, <1>8, <1>9 DEF ClosedInv
<1> QED BY <1>4, <1>7, <1>10 DEF StrategyIInv

LEMMA StrategyKeeps == StrategyIInv /\ [StrategyNext]_strategyVars => StrategyIInv'
<1> SUFFICES ASSUME StrategyIInv, [StrategyNext]_strategyVars PROVE StrategyIInv'
  OBVIOUS
<1>1. CASE \E d \in 1..MaxDay, m \in Minutes, p \in PricesSeen : BarArrives(d, m, p)
  BY <1>1, BarKeepsStrategy
<1>2. CASE Restart
  BY <1>2 DEF Restart, StrategyIInv, MomentsInv, ClosedInv, EnteredInv
<1>3. CASE UNCHANGED strategyVars
  BY <1>3 DEF strategyVars, StrategyIInv, MomentsInv, ClosedInv, EnteredInv
<1> QED BY <1>1, <1>2, <1>3 DEF StrategyNext

(* A step to another day is a bar of that day; a position given up is left *)
(* for one of the causes.                                                  *)
LEMMA ExitHasCause ==
  ASSUME StrategyIInv, NEW d \in 1..MaxDay, NEW m \in Minutes, NEW p \in PricesSeen, BarArrives(d, m, p),
         sign # 0, sign' = 0, last'.day = entered.day, last'.minute < FlatAt
  PROVE  /\ strategy = "orb_safe" => OpeningRange(bars') = {}
         /\ strategy = "gap_fill" =>
               \/ last'.minute >= GapCutoff \/ EarlierBars(bars') = {} \/ GapFilled(bars')
<1>0. /\ RangeEnd \in Nat /\ FlatAt \in Nat /\ WaitEnd \in Nat /\ GapCutoff \in Nat
      /\ RthClose \in Nat /\ FlatAt < RthClose /\ GapCutoff < RthClose
  BY StrategyAssumption
<1>1. /\ bars' \in Seq(WindowRow) /\ Len(bars') \in DOMAIN bars'
      /\ Last(bars') = [day |-> d, minute |-> m, price |-> p]
      /\ last' = [day |-> d, minute |-> m] /\ d \in Nat /\ m \in Int
      /\ d >= last.day /\ (d = last.day => m > last.minute)
      /\ last \in Moment /\ entered \in Moment
      /\ ~(strategy \in RequiresRth /\ sign # 0 /\ m = RthClose - 1) =>
             \/ \E t \in Targets(bars') : sign' = Towards(t)
             \/ sign' = 0 /\ (sign = 0 \/ strategy = "confluence_long")
  BY BarComes
<1>2. /\ last.day \in Nat /\ last.minute \in Int /\ entered.day \in Nat /\ entered.minute \in Int
      /\ last'.day = d /\ last'.minute = m /\ Last(bars').minute = m /\ Last(bars').day = d
      /\ d \in Nat /\ m \in Int
  BY <1>1 DEF Moment
<1>3. d = last.day /\ m > entered.minute
  <2>1. entered.day <= last.day /\ (entered.day = last.day => entered.minute <= last.minute)
    BY DEF StrategyIInv, MomentsInv
  <2>2. d >= last.day /\ (d = last.day => m > last.minute) /\ d = entered.day
    BY <1>1, <1>2
  <2> QED BY <1>2, <2>1, <2>2
<1>4. m < RthClose - 1
  <2>1. FlatAt <= RthClose - 1 /\ m < FlatAt
    BY <1>0, <1>2
  <2> QED BY <1>0, <1>2, <2>1
<1>5. ASSUME strategy = "orb_safe" PROVE OpeningRange(bars') = {}
  <2>1. 0 \in OrbSafe(bars')
    BY <1>0, <1>1, <1>2, <1>4, <1>5, TargetsAre DEF RequiresRth
  <2>2. m >= RangeEnd
    BY <1>0, <1>1, <1>2, <1>3, <1>5 DEF StrategyIInv, EnteredInv
  <2> QED BY <1>0, <1>2, <2>1, <2>2, OrbSafeTargets
<1>6. ASSUME strategy = "gap_fill"
      PROVE  last'.minute >= GapCutoff \/ EarlierBars(bars') = {} \/ GapFilled(bars')
  <2>1. 0 \in GapFill(bars')
    BY <1>0, <1>1, <1>2, <1>4, <1>6, TargetsAre DEF RequiresRth
  <2>2. m >= 0
    BY <1>0, <1>1, <1>2, <1>3, <1>6 DEF StrategyIInv, EnteredInv
  <2>3. Len(bars') \in TodaysBars(bars')
    BY <1>1, <1>2, <2>2 DEF TodaysBars, Last
  <2>4. GapKnown(bars') \/ EarlierBars(bars') = {}
    BY <2>3 DEF GapKnown
  <2> QED BY <1>2, <2>1, <2>4, GapFillTargets
<1> QED BY <1>5, <1>6

(* Whatever the prices, the window and its restarts, and whichever bars are*)
(* missing: a position for regular hours is given up at their last bar, and*)
(* orb_safe and gap_fill give one up early for a cause (strategies/,       *)
(* services/strategy_indicator_window.py).                                 *)
THEOREM SignalsAreSound == StrategySpec => SignalsSound
<1>1. ASSUME StrategyIInv, [StrategyNext]_strategyVars
      PROVE  [NoOvernight /\ ExitForCause]_strategyVars
  <2>1. CASE \E d \in 1..MaxDay, m \in Minutes, p \in PricesSeen : BarArrives(d, m, p)
    <3>1. NoOvernight
      BY <1>1 DEF StrategyIInv, ClosedInv, NoOvernight
    <3>2. ExitForCause
      BY <1>1, <2>1, ExitHasCause DEF ExitForCause
    <3> QED BY <3>1, <3>2
  <2>2. CASE Restart
    BY <2>2 DEF Restart, NoOvernight, ExitForCause
  <2>3. CASE UNCHANGED strategyVars
    BY <2>3
  <2> QED BY <1>1, <2>1, <2>2, <2>3 DEF StrategyNext
<1> QED BY <1>1, StrategyStarts, StrategyKeeps, PTL DEF StrategySpec, SignalsSound

=============================================================================
