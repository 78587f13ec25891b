------------------------ MODULE StrategyRunner_proofs -----------------------
(***************************************************************************)
(* Proofs about StrategyRunner, for every cap, every set of order sizes,   *)
(* outcomes and gates, and any number of bars, orders and runs.  That no   *)
(* position is opened on the bar that closed one is a statement about two  *)
(* orders of the past; the context keeps only last_exit_bar_ts.  The       *)
(* strengthening says what that one number knows about them.               *)
(***************************************************************************)
EXTENDS StrategyRunner, SumTheorems, SequenceTheorems, TLAPS

(* The order in hand is the last row of the mirror, still pending.         *)
InHand ==
    pc \in {"placing", "recording"} =>
        /\ Len(orders) > 0
        /\ orders[Last].run = run /\ orders[Last].ts = bar
        /\ orders[Last].closing = order.closing
        /\ orders[Last].row = "pending"
        /\ pc = "recording" => answer \in AllOutcomes

(* A row that says the position was closed.                                *)
Closed(o) == o.closing /\ o.row \in {"filled", "submitted"}

(* Rows belong to runs and bars there have been, and the exits of this run *)
(* are not later than the last one.                                        *)
ExitsKnown ==
    /\ lastExit <= bar
    /\ \A i \in DOMAIN orders :
          /\ orders[i].run <= run /\ orders[i].ts <= bar
          /\ orders[i].run = run /\ Closed(orders[i]) =>
                lastExit # 0 /\ orders[i].ts <= lastExit

(* An opening order on its way was not proposed on the exit bar.           *)
OpeningLater ==
    pc = "approval" /\ ~order.closing => lastExit = 0 \/ lastExit # bar

(* Bars are numbered from 1; 0 stands for no bar and no exit.              *)
BarSeen == pc \in {"approval", "placing", "recording"} => bar # 0

IInv ==
    TypeOK /\ InHand /\ ExitsKnown /\ OpeningLater /\ BarSeen /\ NoSameBarReentry

-----------------------------------------------------------------------------
(* One row of the mirror is rewritten.                                     *)
LEMMA RowWritten ==
  ASSUME NEW s \in Seq(LiveOrder), NEW k \in DOMAIN s, NEW x \in LiveOrder
  PROVE  LET t == [s EXCEPT ![k] = x] IN
         /\ t \in Seq(LiveOrder) /\ Len(t) = Len(s) /\ DOMAIN t = DOMAIN s
         /\ t[k] = x /\ \A i \in DOMAIN s \ {k} : t[i] = s[i]
  OBVIOUS

LEMMA RowsTyped ==
  ASSUME TypeOK, NEW i \in DOMAIN orders
  PROVE  orders[i] \in LiveOrder /\ orders[i].run \in Nat /\ orders[i].ts \in Nat
<1>1. orders[i] \in LiveOrder
  BY DEF TypeOK
<1> QED BY <1>1 DEF LiveOrder

LEMMA NoOrderTyped == NoOrder \in Order
  BY DEF NoOrder, Order

LEMMA InitIInv == Init => IInv
<1> SUFFICES ASSUME Init PROVE IInv
  OBVIOUS
<1>1. cancel \in BOOLEAN /\ order \in Order
  BY NoOrderTyped DEF Init
<1>2. TypeOK
  BY <1>1 DEF Init, TypeOK, PC
<1>3. InHand /\ ExitsKnown /\ OpeningLater /\ BarSeen /\ NoSameBarReentry
  BY DEF Init, InHand, ExitsKnown, OpeningLater, BarSeen, NoSameBarReentry
<1> QED BY <1>2, <1>3 DEF IInv

(* What a step writes into a row: not its run, its bar or its kind.        *)
SameRow(x, o) == x.run = o.run /\ x.ts = o.ts /\ x.closing = o.closing /\ x.row = o.row

(* A step that leaves what the invariant is about as it is.                *)
LEMMA QuietKeepsIInv ==
  ASSUME IInv, TypeOK', lastExit' = lastExit, run' = run, bar' = bar,
         Len(orders') = Len(orders),
         \A i \in DOMAIN orders : SameRow(orders'[i], orders[i]),
         pc' = "approval" => pc = "approval" /\ order' = order,
         pc' \in {"placing", "recording"} =>
             pc \in {"placing", "recording"} /\ order' = order,
         pc' = "recording" => answer' \in AllOutcomes
  PROVE  IInv'
<1>1. DOMAIN orders' = DOMAIN orders /\ Last' = Last /\ Last \in Nat
  BY DEF IInv, TypeOK, Last
<1>2. InHand'
  BY <1>1 DEF IInv, TypeOK, InHand, SameRow, Last
<1>3. ExitsKnown'
  BY <1>1 DEF IInv, ExitsKnown, SameRow, Closed
<1>4. OpeningLater'
  BY DEF IInv, OpeningLater
<1>5. NoSameBarReentry'
  BY <1>1 DEF IInv, NoSameBarReentry, SameRow
<1> QED BY <1>2, <1>3, <1>4, <1>5 DEF IInv, BarSeen

LEMMA LeftWritten ==
  ASSUME NEW o \in LiveOrder, NEW n \in Int
  PROVE  [o EXCEPT !.left = n] \in LiveOrder /\ SameRow([o EXCEPT !.left = n], o)
  BY DEF LiveOrder, SameRow

LEMMA StatusWritten ==
  ASSUME NEW o \in LiveOrder,
         NEW v \in {"submitted", "filled", "partially_filled", "rejected"},
         NEW x, x = [o EXCEPT !.row = v]
  PROVE  /\ x \in LiveOrder /\ x.row = v
         /\ x.run = o.run /\ x.ts = o.ts /\ x.closing = o.closing
  BY DEF LiveOrder

LEMMA QuietSteps ==
  ASSUME IInv, \/ Adopt \/ Stop \/ NotApproved \/ Cancel \/ StepRaises \/ Crash
               \/ UNCHANGED vars
  PROVE  IInv'
<1>1. TypeOK'
  <2>1. CASE Adopt
    BY <2>1 DEF IInv, TypeOK, PC, Adopt
  <2>2. CASE Stop \/ StepRaises \/ Crash
    BY <2>2 DEF IInv, TypeOK, PC, Stop, StepRaises, Crash, ctx
  <2>3. CASE NotApproved
    BY <2>3, NoOrderTyped DEF IInv, TypeOK, PC, NotApproved, ctx
  <2>4. CASE Cancel
    <3>1. cancel' \in BOOLEAN
      BY <2>4 DEF Cancel
    <3> QED BY <2>4, <3>1 DEF IInv, TypeOK, Cancel, ctx
  <2>5. CASE UNCHANGED vars
    BY <2>5 DEF IInv, TypeOK, vars, ctx
  <2> QED BY <2>1, <2>2, <2>3, <2>4, <2>5
<1>2. orders' = orders /\ lastExit' = lastExit /\ run' = run /\ bar' = bar
  BY DEF Adopt, Stop, NotApproved, Cancel, StepRaises, Crash, vars, ctx
<1>3. /\ pc' = "approval" => pc = "approval" /\ order' = order
      /\ pc' \in {"placing", "recording"} =>
             pc \in {"placing", "recording"} /\ order' = order
      /\ pc' = "recording" => answer' \in AllOutcomes
  BY DEF IInv, InHand, Adopt, Stop, NotApproved, Cancel, StepRaises, Crash, vars
<1> QED BY <1>1, <1>2, <1>3, QuietKeepsIInv DEF SameRow

(* The broker moves shares and what is left of an order.                   *)
LEMMA BrokerFillKeepsIInv ==
  ASSUME IInv, NEW i \in DOMAIN orders, BrokerFill(i)
  PROVE  IInv'
<1> DEFINE x == [orders[i] EXCEPT !.left = 0]
<1>1. orders \in Seq(LiveOrder) /\ orders[i] \in LiveOrder /\ shares \in Int
  BY DEF IInv, TypeOK
<1>2. x \in LiveOrder /\ SameRow(x, orders[i])
  BY <1>1, LeftWritten
<1>3. orders' = [orders EXCEPT ![i] = x]
  BY DEF BrokerFill
<1>4. /\ orders' \in Seq(LiveOrder) /\ Len(orders') = Len(orders)
      /\ orders'[i] = x /\ \A k \in DOMAIN orders \ {i} : orders'[k] = orders[k]
  BY <1>1, <1>2, <1>3, RowWritten
<1>5. shares' \in Int
  BY <1>1 DEF BrokerFill, LiveOrder
<1>6. TypeOK'
  BY <1>4, <1>5 DEF IInv, TypeOK, BrokerFill, ctx
<1>7. \A k \in DOMAIN orders : SameRow(orders'[k], orders[k])
  BY <1>2, <1>4 DEF SameRow
<1>8. pc' = "recording" => answer' \in AllOutcomes
  BY DEF BrokerFill, IInv, InHand
<1> QED BY <1>4, <1>6, <1>7, <1>8, QuietKeepsIInv DEF BrokerFill, ctx

LEMMA PlaceOrderKeepsIInv ==
  ASSUME IInv, NEW outcome \in Outcomes, PlaceOrder(outcome)
  PROVE  IInv'
<1>1. PICK got : /\ got \in CASE outcome = "filled" -> {Size(order.delta)}
                              [] outcome = "partial" -> 1 .. (Size(order.delta) - 1)
                              [] OTHER -> {0}
                 /\ shares' = shares + Sign(order.delta) * got
                 /\ orders' = [orders EXCEPT ![Last].left =
                        IF outcome \in {"submitted", "partial"}
                        THEN order.delta - Sign(order.delta) * got ELSE 0]
  BY DEF PlaceOrder
<1>2. /\ orders \in Seq(LiveOrder) /\ shares \in Int /\ order.delta \in Int
      /\ Last \in DOMAIN orders /\ orders[Last] \in LiveOrder
  BY DEF IInv, TypeOK, InHand, PlaceOrder, Last, Order
<1>3. got \in Int /\ Sign(order.delta) \in {-1, 0, 1}
  BY <1>1, <1>2 DEF Size, Sign
<1>4. PICK n \in Int : n = IF outcome \in {"submitted", "partial"}
                          THEN order.delta - Sign(order.delta) * got ELSE 0
  BY <1>2, <1>3
<1> DEFINE x == [orders[Last] EXCEPT !.left = n]
<1>5. x \in LiveOrder /\ SameRow(x, orders[Last])
  BY <1>2, LeftWritten
<1>6. orders' = [orders EXCEPT ![Last] = x]
  BY <1>1, <1>4
<1>7. /\ orders' \in Seq(LiveOrder) /\ Len(orders') = Len(orders)
      /\ orders'[Last] = x /\ \A k \in DOMAIN orders \ {Last} : orders'[k] = orders[k]
  BY <1>2, <1>5, <1>6, RowWritten
<1>8. shares' \in Int
  BY <1>1, <1>2, <1>3
<1>9. TypeOK'
  BY <1>7, <1>8, RunnerAssumption DEF IInv, TypeOK, PlaceOrder, ctx, PC
<1>10. \A k \in DOMAIN orders : SameRow(orders'[k], orders[k])
  BY <1>5, <1>7 DEF SameRow
<1>11. answer' \in AllOutcomes
  BY RunnerAssumption DEF PlaceOrder
<1> QED BY <1>7, <1>9, <1>10, <1>11, QuietKeepsIInv DEF PlaceOrder, ctx

(* A fresh run: no row is of this run yet.                                 *)
LEMMA StartKeepsIInv ==
  ASSUME IInv, Start
  PROVE  IInv'
<1>1. cancel' \in BOOLEAN /\ order' \in Order
  BY NoOrderTyped DEF Start
<1>2. TypeOK'
  BY <1>1 DEF IInv, TypeOK, Start, PC
<1>3. \A i \in DOMAIN orders : orders[i].run \in Nat
  BY RowsTyped DEF IInv
<1>4. ExitsKnown'
  BY <1>3 DEF IInv, TypeOK, ExitsKnown, Start
<1> QED BY <1>2, <1>4 DEF IInv, InHand, OpeningLater, BarSeen, NoSameBarReentry, Start

-----------------------------------------------------------------------------
(* A bar.                                                                  *)

(* Signs times quantities stay integers.                                   *)
LEMMA SignedInt ==
  ASSUME NEW a \in {-1, 0, 1}, NEW n \in Int
  PROVE  a * n \in Int
<1>1. a = -1 \/ a = 0 \/ a = 1
  OBVIOUS
<1> QED BY <1>1

(* What a bar calls for: an opening order only from flat, and not on the   *)
(* bar of the last exit.                                                   *)
LEMMA WantedOrders ==
  ASSUME TypeOK, NEW b \in BarData, NEW hit
  PROVE  LET want == WantedOrder(b, hit) IN
         /\ want \in Order
         /\ want # NoOrder /\ ~want.closing => lastExit = 0 \/ lastExit # b.ts
<1>1. /\ b.ts \in Nat /\ b.target \in {-1, 0, 1} /\ b.size \in Int
      /\ position \in Int /\ bar \in Nat
  <2>1. b.ts \in {bar, bar + 1} /\ b.target \in {-1, 0, 1} /\ b.size \in Sizes \cup {1}
    BY DEF BarData
  <2>2. bar \in Nat /\ position \in Int
    BY DEF TypeOK
  <2>3. b.size \in Int
    <3>1. Sizes \subseteq Nat
      BY RunnerAssumption
    <3>2. b.size \in Sizes \/ b.size = 1
      BY <2>1
    <3>3. 1 \in Int /\ Sizes \subseteq Int
      BY <3>1
    <3> QED BY <3>2, <3>3, Zenon
  <2> QED BY <2>1, <2>2, <2>3
<1>2. CloseOrder \in Order /\ CloseOrder.closing
  BY <1>1 DEF CloseOrder, Order
<1>3. CASE WantedOrder(b, hit) \in {CloseOrder, NoOrder}
  BY <1>2, <1>3, NoOrderTyped
<1>4. CASE WantedOrder(b, hit) \notin {CloseOrder, NoOrder}
  <2>1. WantedOrder(b, hit) = Proposal(b.target, b.size) /\ ~Reentry(b.target, b.ts)
    BY <1>4 DEF WantedOrder
  <2>2. /\ position = 0 /\ b.target # Sign(position)
        /\ Proposal(b.target, b.size) = [delta |-> b.target * b.size, closing |-> FALSE]
    BY <1>4, <2>1 DEF Proposal
  <2>3. b.target # 0
    BY <2>2 DEF Sign
  <2>4. b.target * b.size \in Int
    BY <1>1, SignedInt
  <2>5. WantedOrder(b, hit) \in Order
    BY <2>1, <2>2, <2>4 DEF Order
  <2>6. lastExit = 0 \/ lastExit # b.ts
    BY <2>1, <2>2, <2>3 DEF Reentry
  <2> QED BY <2>5, <2>6
<1> QED BY <1>3, <1>4

(* Only the quantity of an order is reduced.                               *)
LEMMA FinalOrders ==
  ASSUME NEW o \in Order, NEW g, NEW d \in FinalDelta(o, g)
  PROVE  LET x == [o EXCEPT !.delta = d] IN x \in Order /\ x.closing = o.closing
<1>1. o.delta \in Int
  BY DEF Order
<1>2. d \in Int
  <2>1. CASE d = o.delta
    BY <1>1, <2>1
  <2>2. CASE d # o.delta
    <3>1. PICK q \in 1..Size(o.delta) : d = Sign(o.delta) * q
      BY <2>2 DEF FinalDelta
    <3>2. Sign(o.delta) \in {-1, 0, 1}
      BY DEF Sign
    <3>3. q \in Int
      BY <3>1
    <3> QED BY <3>1, <3>2, <3>3, SignedInt
  <2> QED BY <2>1, <2>2
<1> QED BY <1>2 DEF Order

LEMMA TakeBarKeepsIInv ==
  ASSUME IInv, TakeBar
  PROVE  IInv'
<1>1. PICK b \in BarData, g \in GateData, kept \in 0..recent : ProcessBar(b, g, kept)
  BY DEF TakeBar
<1> DEFINE hit == trail = "armed" /\ b.pierced
           want == WantedOrder(b, hit)
<1>2. /\ bar' = b.ts /\ lastExit' = lastExit /\ run' = run /\ orders' = orders
      /\ status' = status /\ cancel' = cancel /\ position' = position
      /\ answer' = answer /\ shares' = shares
      /\ trail' \in {"stopped", trail} /\ recent' \in {kept, recent}
  BY <1>1 DEF ProcessBar
<1>3. \/ pc' = "waiting" /\ order' = order
      \/ /\ pc' = "approval" /\ want # NoOrder
         /\ \E d \in FinalDelta(want, g) : order' = [want EXCEPT !.delta = d]
  BY <1>1 DEF ProcessBar
<1>4. /\ want \in Order
      /\ want # NoOrder /\ ~want.closing => lastExit = 0 \/ lastExit # b.ts
  BY WantedOrders DEF IInv
<1>5. order' \in Order
  BY <1>3, <1>4, FinalOrders DEF IInv, TypeOK
<1>6. b.ts \in Nat /\ bar <= b.ts /\ bar \in Nat
  <2>1. b.ts \in {bar, bar + 1}
    BY DEF BarData
  <2> QED BY <2>1 DEF IInv, TypeOK
<1>7. TypeOK'
  <2>1. recent' \in Nat /\ bar' \in Nat
    BY <1>2, <1>6 DEF IInv, TypeOK
  <2>2. trail' \in {"none", "armed", "stopped"} /\ pc' \in PC
    BY <1>2, <1>3 DEF IInv, TypeOK, PC
  <2> QED BY <1>2, <1>5, <2>1, <2>2 DEF IInv, TypeOK
<1>8. InHand'
  BY <1>3 DEF InHand
<1>9. ExitsKnown'
  <2>1. \A i \in DOMAIN orders : orders[i].ts \in Nat /\ orders[i].ts <= bar
    BY RowsTyped DEF IInv, ExitsKnown
  <2>2. lastExit \in Nat /\ lastExit <= bar
    BY DEF IInv, TypeOK, ExitsKnown
  <2> QED BY <1>2, <1>6, <2>1, <2>2 DEF IInv, ExitsKnown
<1>10. OpeningLater'
  <2>1. ASSUME pc' = "approval" PROVE want # NoOrder /\ order'.closing = want.closing
    <3>1. PICK d \in FinalDelta(want, g) : order' = [want EXCEPT !.delta = d]
      BY <1>3, <2>1
    <3> QED BY <1>3, <1>4, <2>1, <3>1, FinalOrders
  <2> QED BY <1>2, <1>4, <2>1 DEF OpeningLater
<1>11. NoSameBarReentry'
  BY <1>2 DEF IInv, NoSameBarReentry
<1>12. BarSeen'
  BY <1>2 DEF BarSeen, BarData
<1> QED BY <1>7, <1>8, <1>9, <1>10, <1>11, <1>12 DEF IInv

-----------------------------------------------------------------------------
(* The new row is the last, and later than every exit of its run.          *)
LEMMA ApprovedKeepsIInv ==
  ASSUME IInv, Approved
  PROVE  IInv'
<1> DEFINE x == [delta |-> order.delta, closing |-> order.closing, ts |-> bar,
                 run |-> run, row |-> "pending", left |-> 0]
<1>1. /\ orders \in Seq(LiveOrder) /\ order \in Order /\ bar \in Nat /\ run \in Nat
      /\ lastExit \in Nat /\ Len(orders) \in Nat
      /\ \A i \in DOMAIN orders : orders[i] \in LiveOrder
  BY DEF IInv, TypeOK
<1>2. x \in LiveOrder
  BY <1>1 DEF LiveOrder, Order
<1>3. orders' = Append(orders, x)
  BY DEF Approved
<1>4. /\ orders' \in Seq(LiveOrder) /\ Len(orders') = Len(orders) + 1
      /\ orders'[Len(orders) + 1] = x
      /\ DOMAIN orders = 1..Len(orders) /\ DOMAIN orders' = 1..(Len(orders) + 1)
      /\ \A i \in DOMAIN orders : orders'[i] = orders[i]
  BY <1>1, <1>2, <1>3
<1>5. /\ pc' = "placing" /\ order' = order /\ bar' = bar /\ run' = run
      /\ lastExit' = lastExit
  BY DEF Approved, ctx
<1>6. TypeOK'
  BY <1>4 DEF IInv, TypeOK, Approved, ctx, PC
<1>7. InHand'
  <2>1. Last' = Len(orders) + 1 /\ orders'[Last'] = x
    BY <1>4 DEF Last
  <2> QED BY <1>1, <1>4, <1>5, <2>1 DEF InHand
<1>8. ExitsKnown'
  BY <1>1, <1>4, <1>5 DEF IInv, ExitsKnown, Closed
<1>9. NoSameBarReentry'
  <2> SUFFICES ASSUME NEW i \in DOMAIN orders', NEW j \in DOMAIN orders', i < j,
                      orders'[i].run = orders'[j].run, Closed(orders'[i]),
                      ~orders'[j].closing
               PROVE  orders'[i].ts # orders'[j].ts
    BY DEF NoSameBarReentry, Closed
  <2>1. i \in DOMAIN orders /\ orders'[i] = orders[i]
    BY <1>1, <1>4
  <2>2. CASE j \in DOMAIN orders
    BY <1>4, <2>1, <2>2 DEF IInv, NoSameBarReentry, Closed
  <2>3. CASE j \notin DOMAIN orders
    <3>1. orders'[j] = x
      BY <1>1, <1>4, <2>3
    <3>2. lastExit # 0 /\ orders[i].ts <= lastExit /\ lastExit <= bar
      BY <2>1, <3>1 DEF IInv, ExitsKnown
    <3>3. lastExit # bar
      BY <3>1, <3>2 DEF IInv, OpeningLater, Approved
    <3>4. orders[i].ts \in Nat
      BY <1>1, <2>1 DEF LiveOrder
    <3> QED BY <1>1, <2>1, <3>1, <3>2, <3>3, <3>4
  <2> QED BY <2>2, <2>3
<1>10. BarSeen'
  BY <1>5 DEF IInv, BarSeen, Approved
<1> QED BY <1>5, <1>6, <1>7, <1>8, <1>9, <1>10 DEF IInv, OpeningLater

(* A close that moved the position stamps the exit with its own bar.       *)
LEMMA RecordKeepsIInv ==
  ASSUME IInv, Record
  PROVE  IInv'
<1> DEFINE x == [orders[Last] EXCEPT !.row = RowStatus(answer)]
<1>1. /\ orders \in Seq(LiveOrder) /\ order \in Order /\ bar \in Nat /\ run \in Nat
      /\ lastExit \in Nat /\ Last \in DOMAIN orders /\ answer \in AllOutcomes
      /\ orders[Last].run = run /\ orders[Last].ts = bar
      /\ orders[Last].closing = order.closing
      /\ \A i \in DOMAIN orders : orders[i] \in LiveOrder /\ i <= Last
  BY DEF IInv, TypeOK, InHand, Record, Last
<1>2. x \in LiveOrder /\ x.run = run /\ x.ts = bar /\ x.closing = order.closing
      /\ (x.row \in {"filled", "submitted"} <=> MovesPosition(answer))
  <2>1. /\ RowStatus(answer) \in {"submitted", "filled", "partially_filled", "rejected"}
        /\ RowStatus(answer) \in {"filled", "submitted"} <=> MovesPosition(answer)
    BY <1>1 DEF RowStatus, MovesPosition, AllOutcomes
  <2>2. PICK v \in {"submitted", "filled", "partially_filled", "rejected"} :
            v = RowStatus(answer)
    BY <2>1
  <2>3. orders[Last] \in LiveOrder /\ x = [orders[Last] EXCEPT !.row = v]
    BY <1>1, <2>2
  <2>4. x \in LiveOrder /\ x.row = v /\ x.run = orders[Last].run
        /\ x.ts = orders[Last].ts /\ x.closing = orders[Last].closing
    BY <2>3, StatusWritten
  <2> QED BY <1>1, <2>1, <2>2, <2>4
<1>3. orders' = [orders EXCEPT ![Last] = x]
  BY DEF Record
<1>4. /\ orders' \in Seq(LiveOrder) /\ DOMAIN orders' = DOMAIN orders
      /\ orders'[Last] = x /\ \A i \in DOMAIN orders \ {Last} : orders'[i] = orders[i]
  BY <1>1, <1>2, <1>3, RowWritten
<1> HIDE DEF x
<1>5. bar' = bar /\ run' = run /\ pc' = "waiting" /\ order' = NoOrder
      /\ lastExit' = IF MovesPosition(answer) /\ order.closing THEN bar ELSE lastExit
  BY DEF Record
<1>6. TypeOK'
  <2>1. position' \in Int /\ recent' \in Nat
    BY DEF IInv, TypeOK, Record, Order
  <2>2. trail' \in {"none", "armed", "stopped"}
    BY DEF IInv, TypeOK, Record
  <2>3. lastExit' \in Nat
    BY <1>1, <1>5
  <2> QED BY <1>4, <2>1, <2>2, <2>3, NoOrderTyped DEF IInv, TypeOK, Record, PC
<1>7. ExitsKnown'
  <2>1. bar # 0
    BY DEF IInv, BarSeen, Record
  <2>2. lastExit' <= bar
    BY <1>1, <1>5 DEF IInv, ExitsKnown
  <2>3. ASSUME NEW i \in DOMAIN orders
        PROVE  /\ orders'[i].run <= run /\ orders'[i].ts <= bar
               /\ orders'[i].run = run /\ Closed(orders'[i]) =>
                     lastExit' # 0 /\ orders'[i].ts <= lastExit'
    <3>1. CASE i = Last
      BY <1>1, <1>2, <1>4, <1>5, <2>1, <3>1 DEF Closed
    <3>2. CASE i # Last
      <4>1. orders'[i] = orders[i]
        BY <1>4, <3>2
      <4>2. orders[i].ts \in Nat
        BY RowsTyped DEF IInv
      <4> QED BY <1>1, <1>5, <2>1, <4>1, <4>2 DEF IInv, ExitsKnown
    <3> QED BY <3>1, <3>2
  <2> QED BY <1>4, <1>5, <2>2, <2>3 DEF ExitsKnown
<1>8. NoSameBarReentry'
  <2> SUFFICES ASSUME NEW i \in DOMAIN orders, NEW j \in DOMAIN orders, i < j,
                      orders'[i].run = orders'[j].run, Closed(orders'[i]),
                      ~orders'[j].closing
               PROVE  orders'[i].ts # orders'[j].ts
    BY <1>4 DEF NoSameBarReentry, Closed
  <2>1. i # Last
    BY <1>1
  <2>2. orders'[i] = orders[i]
    BY <1>4, <2>1
  <2>3. /\ orders'[j].run = orders[j].run /\ orders'[j].ts = orders[j].ts
        /\ orders'[j].closing = orders[j].closing
    BY <1>1, <1>2, <1>4
  <2> QED BY <2>2, <2>3 DEF IInv, NoSameBarReentry, Closed
<1> QED BY <1>5, <1>6, <1>7, <1>8 DEF IInv, InHand, OpeningLater, BarSeen

-----------------------------------------------------------------------------
LEMMA NextKeepsIInv == IInv /\ [Next]_vars => IInv'
  BY QuietSteps, StartKeepsIInv, TakeBarKeepsIInv, ApprovedKeepsIInv,
     PlaceOrderKeepsIInv, RecordKeepsIInv, BrokerFillKeepsIInv DEF Next

(* Every reachable state of a runner is well typed, whatever its caps,     *)
(* sizes and gates and whatever the broker answers.                        *)
THEOREM TypeCorrect == Spec => []TypeOK
<1>1. IInv => TypeOK
  BY DEF IInv
<1> QED BY <1>1, InitIInv, NextKeepsIInv, PTL DEF Spec

(* Within a run no position is opened on the bar that closed one, for any  *)
(* stream that repeats bars, any outcomes, crashes and restarts.           *)
THEOREM NoReentry == Spec => []NoSameBarReentry
<1>1. IInv => NoSameBarReentry
  BY DEF IInv
<1> QED BY <1>1, InitIInv, NextKeepsIInv, PTL DEF Spec

-----------------------------------------------------------------------------
(* What the broker is still working on, in any table of orders.            *)
LeftOf(s) == [i \in DOMAIN s |-> s[i].left]
AllLeft(s) == SumFunctionOnSet(LeftOf(s), DOMAIN s)

LEMMA LeftTyped ==
  ASSUME NEW s \in Seq(LiveOrder)
  PROVE  /\ IsFiniteSet(DOMAIN s) /\ AllLeft(s) \in Int
         /\ \A i \in DOMAIN s : LeftOf(s)[i] = s[i].left /\ s[i].left \in Int
<1>1. IsFiniteSet(DOMAIN s)
  <2>1. DOMAIN s = 1..Len(s) /\ Len(s) \in Nat
    OBVIOUS
  <2> QED BY <2>1, FS_Interval
<1>2. \A i \in DOMAIN s : LeftOf(s)[i] = s[i].left /\ s[i].left \in Int
  <2> SUFFICES ASSUME NEW i \in DOMAIN s PROVE LeftOf(s)[i] = s[i].left /\ s[i].left \in Int
    OBVIOUS
  <2>1. s[i] \in LiveOrder
    OBVIOUS
  <2> QED BY <2>1 DEF LeftOf, LiveOrder
<1>3. \A i \in DOMAIN s : LeftOf(s)[i] \in Int
  BY <1>2
<1>4. AllLeft(s) \in Int
  BY <1>1, <1>3, SumType DEF AllLeft
<1> QED BY <1>1, <1>2, <1>4

(* One order is rewritten.                                                 *)
LEMMA LeftRewritten ==
  ASSUME NEW s \in Seq(LiveOrder), NEW k \in DOMAIN s, NEW x \in LiveOrder
  PROVE  AllLeft([s EXCEPT ![k] = x]) = AllLeft(s) - s[k].left + x.left
<1> DEFINE t == [s EXCEPT ![k] = x]
<1>1. /\ t \in Seq(LiveOrder) /\ DOMAIN t = DOMAIN s
      /\ t[k] = x /\ \A i \in DOMAIN s \ {k} : t[i] = s[i]
  BY RowWritten
<1> HIDE DEF t
<1>2. /\ IsFiniteSet(DOMAIN s)
      /\ \A i \in DOMAIN s : LeftOf(s)[i] = s[i].left /\ LeftOf(s)[i] \in Int
      /\ \A i \in DOMAIN s : LeftOf(t)[i] = t[i].left /\ LeftOf(t)[i] \in Int
  BY <1>1, LeftTyped
<1>3. \A i \in DOMAIN s \ {k} : LeftOf(s)[i] = LeftOf(t)[i]
  BY <1>1, <1>2
<1>4. SumFunctionOnSet(LeftOf(t), DOMAIN s)
        = SumFunctionOnSet(LeftOf(s), DOMAIN s) - LeftOf(s)[k] + LeftOf(t)[k]
  BY <1>2, <1>3, SumChanged
<1>5. AllLeft(t) = SumFunctionOnSet(LeftOf(t), DOMAIN s)
      /\ AllLeft(s) = SumFunctionOnSet(LeftOf(s), DOMAIN s)
  BY <1>1, Zenon DEF AllLeft
<1>6. LeftOf(s)[k] = s[k].left /\ LeftOf(t)[k] = x.left
  BY <1>1, <1>2
<1>7. AllLeft(t) = AllLeft(s) - s[k].left + x.left
  BY <1>4, <1>5, <1>6
<1> QED BY <1>7 DEF t

(* An order is added.                                                      *)
LEMMA LeftAppended ==
  ASSUME NEW s \in Seq(LiveOrder), NEW x \in LiveOrder
  PROVE  AllLeft(Append(s, x)) = AllLeft(s) + x.left
<1> DEFINE t == Append(s, x)
           n == Len(s) + 1
<1>1. /\ t \in Seq(LiveOrder) /\ DOMAIN t = DOMAIN s \cup {n} /\ n \notin DOMAIN s
      /\ t[n] = x /\ \A i \in DOMAIN s : t[i] = s[i]
  <2>1. Len(s) \in Nat /\ DOMAIN s = 1..Len(s) /\ DOMAIN t = 1..(Len(s) + 1)
    OBVIOUS
  <2> QED BY <2>1
<1> HIDE DEF t, n
<1>2. /\ IsFiniteSet(DOMAIN s)
      /\ \A i \in DOMAIN s : LeftOf(s)[i] = s[i].left
      /\ \A i \in DOMAIN t : LeftOf(t)[i] = t[i].left /\ LeftOf(t)[i] \in Int
  BY <1>1, LeftTyped
<1>3. /\ \A i \in DOMAIN s : LeftOf(s)[i] = LeftOf(t)[i] /\ LeftOf(t)[i] \in Int
      /\ LeftOf(t)[n] \in Int /\ LeftOf(t)[n] = x.left
  BY <1>1, <1>2
<1>4. SumFunctionOnSet(LeftOf(t), DOMAIN s \cup {n})
        = SumFunctionOnSet(LeftOf(s), DOMAIN s) + LeftOf(t)[n]
  BY <1>1, <1>2, <1>3, SumAdded
<1>5. AllLeft(t) = SumFunctionOnSet(LeftOf(t), DOMAIN s \cup {n})
      /\ AllLeft(s) = SumFunctionOnSet(LeftOf(s), DOMAIN s)
  BY <1>1, Zenon DEF AllLeft
<1>6. AllLeft(t) = AllLeft(s) + x.left
  BY <1>3, <1>4, <1>5
<1> QED BY <1>6 DEF t

LEMMA NothingLeft ==
  ASSUME NEW s \in Seq(LiveOrder), \A i \in DOMAIN s : s[i].left = 0
  PROVE  AllLeft(s) = 0
<1>1. IsFiniteSet(DOMAIN s) /\ \A i \in DOMAIN s : LeftOf(s)[i] = 0
  BY LeftTyped
<1> QED BY <1>1, SumZero DEF AllLeft

LEMMA OutstandingIsLeft ==
  Outstanding = AllLeft(orders) /\ (Outstanding)' = AllLeft(orders')
  BY DEF Outstanding, AllLeft, LeftOf

-----------------------------------------------------------------------------
(* A broker that answers market orders at once: nothing works on.          *)
AtOnce == Outcomes \subseteq {"filled", "refused", "lost"}

(* A broker that fills all of an order or none of it, and a runner that is *)
(* not started again, or leaves nothing behind that could still be filled. *)
Foreseen == "partial" \notin Outcomes /\ (AtOnce \/ MaxRuns <= 1)

(* What the broker holds and is about to.                                  *)
Owed == shares + Outstanding

(* The context's position is the broker's, up to the order just answered.  *)
Booked ==
    /\ pc \in {"waiting", "approval", "placing"} => position = Owed
    /\ pc = "recording" =>
          /\ answer \in {"filled", "submitted", "refused", "lost"}
          /\ Owed = position + (IF MovesPosition(answer) THEN order.delta ELSE 0)

(* A close asks for all there is, an entry is made from flat.              *)
Shaped(o) ==
    IF o.closing THEN o.delta = -position ELSE position = 0 /\ o.delta # 0

(* Where the order leads the share cap holds.                              *)
Fits(o) == Shaped(o) /\ Size(position + o.delta) <= MaxShares

OrderFits == pc \in {"approval", "placing", "recording"} => Fits(order)

(* An order the broker works on has a row that says so, unless its answer  *)
(* is about to be written or the runner died before; a runner that starts  *)
(* finds no such order.                                                    *)
WorkingRows ==
    /\ \A i \in DOMAIN orders : orders[i].left # 0 =>
          /\ ~AtOnce
          /\ \/ orders[i].row = "submitted" \/ pc \in {"off", "ended"}
             \/ pc = "recording" /\ i = Last /\ answer = "submitted"
    /\ pc = "adopting" \/ run = 0 => \A i \in DOMAIN orders : orders[i].left = 0
    /\ run = 0 => pc = "off"

(* With confirmed fills a position has a trail, and nothing else has.      *)
Watched ==
    pc \in {"waiting", "approval", "placing", "recording"}
    /\ (\A i \in DOMAIN orders : orders[i].row # "submitted") =>
        (trail # "none" <=> position # 0)

BookInv == Booked /\ OrderFits /\ WorkingRows /\ Watched /\ ExposureBounded

LEMMA SizedOrder ==
  ASSUME NEW n \in Int
  PROVE  Sign(n) * Size(n) = n /\ Sign(n) * 0 = 0 /\ (n # 0 => Sign(n) \in {-1, 1})
<1>1. CASE n > 0
  BY <1>1 DEF Sign, Size
<1>2. CASE n < 0
  BY <1>2 DEF Sign, Size
<1>3. CASE n = 0
  BY <1>3 DEF Sign, Size
<1> QED BY <1>1, <1>2, <1>3

LEMMA Typed ==
  ASSUME IInv
  PROVE  /\ orders \in Seq(LiveOrder) /\ shares \in Int /\ position \in Int
         /\ order \in Order /\ order.delta \in Int /\ MaxShares \in Nat
         /\ Outstanding \in Int /\ Owed \in Int /\ Len(orders) \in Nat
         /\ \A i \in DOMAIN orders : orders[i] \in LiveOrder /\ orders[i].left \in Int
         /\ pc \in {"placing", "recording"} => Last \in DOMAIN orders
<1>1. /\ orders \in Seq(LiveOrder) /\ shares \in Int /\ position \in Int
      /\ order \in Order /\ Len(orders) \in Nat
      /\ \A i \in DOMAIN orders : orders[i] \in LiveOrder
  BY DEF IInv, TypeOK
<1>2. Outstanding \in Int /\ \A i \in DOMAIN orders : orders[i].left \in Int
  BY <1>1, LeftTyped, OutstandingIsLeft
<1>3. pc \in {"placing", "recording"} => Last \in DOMAIN orders
  BY <1>1 DEF IInv, InHand, Last
<1>4. Owed \in Int
  BY <1>1, <1>2 DEF Owed
<1> QED BY <1>1, <1>2, <1>3, <1>4, RunnerAssumption DEF Order

(* What a bar calls for has the right shape.                               *)
LEMMA WantedShaped ==
  ASSUME TypeOK, NEW b \in BarData, NEW hit, WantedOrder(b, hit) # NoOrder
  PROVE  Shaped(WantedOrder(b, hit))
<1>1. CASE WantedOrder(b, hit) = CloseOrder
  BY <1>1 DEF CloseOrder, Shaped
<1>2. CASE WantedOrder(b, hit) # CloseOrder
  <2>1. WantedOrder(b, hit) = Proposal(b.target, b.size)
    BY <1>2 DEF WantedOrder
  <2>2. /\ position = 0 /\ b.target # Sign(position)
        /\ Proposal(b.target, b.size) = [delta |-> b.target * b.size, closing |-> FALSE]
    BY <1>2, <2>1 DEF Proposal
  <2>3. b.target = -1 \/ b.target = 1
    BY <2>2 DEF Sign, BarData
  <2>4. b.size \in Nat \ {0}
    <3>1. b.size \in Sizes
      BY <2>2 DEF BarData
    <3> QED BY <3>1, RunnerAssumption
  <2>5. b.target * b.size # 0
    BY <2>3, <2>4
  <2> QED BY <2>1, <2>2, <2>5 DEF Shaped
<1> QED BY <1>1, <1>2

(* An order the risk gate let through keeps the cap: a close leads to no   *)
(* shares at all.                                                          *)
LEMMA PassedFits ==
  ASSUME TypeOK, NEW o \in Order, NEW kept, Shaped(o), RiskPasses(o, kept)
  PROVE  Fits(o)
<1>1. position \in Int /\ o.delta \in Int /\ MaxShares \in Nat
  BY RunnerAssumption DEF TypeOK, Order
<1>2. CASE o.closing
  <2>1. position + o.delta = 0
    BY <1>1, <1>2 DEF Shaped
  <2> QED BY <1>1, <2>1 DEF Fits, Size
<1>3. CASE ~o.closing
  BY <1>3 DEF RiskPasses, Fits
<1> QED BY <1>2, <1>3

(* Reducing an entry leaves some of it and adds nothing; a close is not    *)
(* reduced.                                                                *)
LEMMA FinalFits ==
  ASSUME TypeOK, NEW o \in Order, NEW g, NEW d \in FinalDelta(o, g), Fits(o)
  PROVE  Fits([o EXCEPT !.delta = d])
<1> DEFINE x == [o EXCEPT !.delta = d]
<1>1. x.delta = d /\ x.closing = o.closing /\ o.delta \in Int
  BY DEF Order
<1>2. CASE d = o.delta
  BY <1>1, <1>2 DEF Fits, Shaped
<1>3. CASE d # o.delta
  <2>1. PICK q \in 1..Size(o.delta) : d = Sign(o.delta) * q
    BY <1>3 DEF FinalDelta
  <2>2. ~o.closing
    BY <1>3 DEF FinalDelta
  <2>3. position = 0 /\ o.delta # 0
    BY <2>2 DEF Fits, Shaped
  <2>4. Size(o.delta) <= MaxShares
    <3>1. position + o.delta = o.delta
      BY <1>1, <2>3
    <3> QED BY <3>1 DEF Fits
  <2>5. MaxShares \in Nat
    BY RunnerAssumption
  <2>6. d # 0 /\ position + d = d /\ Size(d) <= MaxShares
    <3>1. CASE o.delta > 0
      <4>1. Sign(o.delta) = 1 /\ Size(o.delta) = o.delta
        BY <1>1, <3>1 DEF Sign, Size
      <4>2. d = q
        BY <2>1, <4>1
      <4> QED BY <1>1, <2>1, <2>3, <2>4, <2>5, <4>1, <4>2 DEF Size
    <3>2. CASE o.delta < 0
      <4>1. Sign(o.delta) = -1 /\ Size(o.delta) = -o.delta
        BY <1>1, <3>2 DEF Sign, Size
      <4>2. d = -q
        BY <2>1, <4>1
      <4> QED BY <1>1, <2>1, <2>3, <2>4, <2>5, <4>1, <4>2 DEF Size
    <3> QED BY <1>1, <2>3, <3>1, <3>2
  <2> QED BY <1>1, <2>2, <2>3, <2>6 DEF Fits, Shaped
<1> QED BY <1>2, <1>3

LEMMA BookTakeBar ==
  ASSUME IInv, BookInv, TakeBar
  PROVE  BookInv'
<1>1. PICK b \in BarData, g \in GateData, kept \in 0..recent : ProcessBar(b, g, kept)
  BY DEF TakeBar
<1> DEFINE hit == trail = "armed" /\ b.pierced
           want == WantedOrder(b, hit)
<1>2. /\ orders' = orders /\ position' = position /\ shares' = shares /\ run' = run
      /\ pc = "waiting" /\ trail' = IF hit THEN "stopped" ELSE trail
  BY <1>1 DEF ProcessBar
<1>3. \/ pc' = "waiting"
      \/ /\ pc' = "approval" /\ want # NoOrder /\ RiskPasses(want, kept)
         /\ \E d \in FinalDelta(want, g) : order' = [want EXCEPT !.delta = d]
  BY <1>1 DEF ProcessBar
<1>4. ASSUME pc' = "approval" PROVE Fits(order)'
  <2>1. PICK d \in FinalDelta(want, g) : order' = [want EXCEPT !.delta = d]
    BY <1>3, <1>4
  <2>2. TypeOK /\ want \in Order /\ Shaped(want)
    BY <1>3, <1>4, WantedOrders, WantedShaped DEF IInv
  <2>3. Fits(want)
    BY <1>3, <1>4, <2>2, PassedFits
  <2>4. Fits(order')
    BY <2>1, <2>2, <2>3, FinalFits
  <2> QED BY <1>2, <2>4 DEF Fits, Shaped
<1>5. OrderFits'
  BY <1>3, <1>4 DEF OrderFits
<1>6. Watched'
  BY <1>2, <1>3 DEF BookInv, Watched
<1>7. (Outstanding)' = Outstanding
  BY <1>2 DEF Outstanding
<1>8. Booked' /\ ExposureBounded'
  BY <1>2, <1>3, <1>7 DEF BookInv, Booked, Owed, ExposureBounded
<1>9. WorkingRows'
  BY <1>2, <1>3 DEF BookInv, WorkingRows
<1> QED BY <1>5, <1>6, <1>8, <1>9 DEF BookInv

LEMMA BookApproved ==
  ASSUME IInv, BookInv, Approved
  PROVE  BookInv'
<1> DEFINE x == [delta |-> order.delta, closing |-> order.closing, ts |-> bar,
                 run |-> run, row |-> "pending", left |-> 0]
<1>1. /\ orders' = Append(orders, x) /\ x.left = 0 /\ x.row = "pending"
      /\ orders \in Seq(LiveOrder) /\ bar \in Nat /\ run \in Nat /\ order \in Order
  BY DEF Approved, IInv, TypeOK
<1>2. x \in LiveOrder
  BY <1>1 DEF LiveOrder, Order
<1> HIDE DEF x
<1>3. /\ DOMAIN orders' = DOMAIN orders \cup {Len(orders) + 1}
      /\ orders'[Len(orders) + 1] = x
      /\ \A i \in DOMAIN orders : orders'[i] = orders[i]
  <2>1. Len(orders) \in Nat /\ DOMAIN orders = 1..Len(orders)
        /\ DOMAIN orders' = 1..(Len(orders) + 1)
    BY <1>1
  <2> QED BY <1>1, <2>1
<1>4. /\ pc = "approval" /\ pc' = "placing" /\ order' = order /\ shares' = shares
      /\ position' = position /\ trail' = trail /\ run' = run
  BY DEF Approved, ctx
<1>5. (Outstanding)' = Outstanding
  <2>1. AllLeft(orders') = AllLeft(orders) + 0 /\ AllLeft(orders) \in Int
    BY <1>1, <1>2, LeftAppended, LeftTyped
  <2> QED BY <2>1, OutstandingIsLeft
<1>6. Booked' /\ ExposureBounded'
  BY <1>4, <1>5 DEF BookInv, Booked, Owed, ExposureBounded
<1>7. OrderFits'
  BY <1>4 DEF BookInv, OrderFits, Fits, Shaped
<1>8. WorkingRows'
  BY <1>1, <1>3, <1>4 DEF BookInv, WorkingRows
<1>9. Watched'
  BY <1>1, <1>3, <1>4 DEF BookInv, Watched
<1> QED BY <1>6, <1>7, <1>8, <1>9 DEF BookInv

(* What the broker takes on: all of the order, or nothing.                 *)
LEMMA BookPlaceOrder ==
  ASSUME IInv, BookInv, Foreseen, NEW outcome \in Outcomes, PlaceOrder(outcome)
  PROVE  /\ BookInv'
         /\ AtOnce => shares = 0 \/ shares' = 0 \/ shares' = shares
<1>1. /\ outcome \in {"filled", "submitted", "refused", "lost"} /\ answer' = outcome
      /\ AtOnce => outcome # "submitted"
  BY RunnerAssumption DEF Foreseen, AtOnce, AllOutcomes, PlaceOrder
<1>2. /\ orders \in Seq(LiveOrder) /\ Last \in DOMAIN orders /\ orders[Last] \in LiveOrder
      /\ order.delta \in Int /\ shares \in Int /\ position \in Int /\ Outstanding \in Int
      /\ MaxShares \in Nat
  BY Typed DEF PlaceOrder
<1>3. /\ pc = "placing" /\ pc' = "recording" /\ order' = order
      /\ position' = position /\ trail' = trail /\ run' = run
  BY DEF PlaceOrder, ctx
<1>4. orders[Last].left = 0
  BY <1>2, <1>3 DEF BookInv, WorkingRows, IInv, InHand
<1> DEFINE n == IF outcome = "submitted" THEN order.delta ELSE 0
           x == [orders[Last] EXCEPT !.left = n]
<1>5. /\ shares' = shares + (IF outcome = "filled" THEN order.delta ELSE 0)
      /\ orders' = [orders EXCEPT ![Last] = x]
  <2>1. CASE outcome = "filled"
    <3>1. shares' = shares + Sign(order.delta) * Size(order.delta)
          /\ orders' = [orders EXCEPT ![Last].left = 0]
      BY <2>1 DEF PlaceOrder
    <3> QED BY <1>2, <2>1, <3>1, SizedOrder
  <2>2. CASE outcome # "filled"
    <3>1. PICK got \in {0} :
             /\ shares' = shares + Sign(order.delta) * got
             /\ orders' = [orders EXCEPT ![Last].left =
                    IF outcome \in {"submitted", "partial"}
                    THEN order.delta - Sign(order.delta) * got ELSE 0]
      BY <1>1, <2>2 DEF PlaceOrder
    <3>2. Sign(order.delta) * got = 0
      BY <1>2, <3>1, SizedOrder
    <3>3. shares' = shares + 0
      BY <3>1, <3>2
    <3>4. orders' = [orders EXCEPT ![Last].left =
                       IF outcome = "submitted" THEN order.delta ELSE 0]
      <4>1. (IF outcome \in {"submitted", "partial"}
             THEN order.delta - Sign(order.delta) * got ELSE 0) = n
        BY <1>1, <1>2, <3>2
      <4> QED BY <3>1, <4>1
    <3> QED BY <1>2, <2>2, <3>3, <3>4
  <2> QED BY <2>1, <2>2
<1>6. n \in Int /\ x \in LiveOrder /\ x.left = n /\ x.row = orders[Last].row
  <2>1. n \in Int
    BY <1>2
  <2>2. x.left = n
    BY <1>2 DEF LiveOrder
  <2> HIDE DEF n
  <2> QED BY <1>2, <2>1, <2>2, LeftWritten DEF SameRow
<1>7. /\ DOMAIN orders' = DOMAIN orders /\ orders'[Last] = x
      /\ \A i \in DOMAIN orders \ {Last} : orders'[i] = orders[i]
      /\ Last' = Last
  <2> HIDE DEF x
  <2>1. /\ DOMAIN orders' = DOMAIN orders /\ orders'[Last] = x /\ Len(orders') = Len(orders)
        /\ \A i \in DOMAIN orders \ {Last} : orders'[i] = orders[i]
    BY <1>2, <1>5, <1>6, RowWritten
  <2> QED BY <2>1 DEF Last
<1>8. (Outstanding)' = Outstanding + n
  <2> HIDE DEF x
  <2>1. AllLeft(orders') = AllLeft(orders) - orders[Last].left + x.left
    BY <1>2, <1>5, <1>6, LeftRewritten
  <2> HIDE DEF n
  <2>2. (Outstanding)' = Outstanding - 0 + n
    BY <1>4, <1>6, <2>1, OutstandingIsLeft
  <2> QED BY <1>2, <1>6, <2>2
<1> HIDE DEF x
<1>9. Owed' = Owed + (IF MovesPosition(outcome) THEN order.delta ELSE 0)
  BY <1>1, <1>2, <1>5, <1>8 DEF Owed, MovesPosition
<1>10. Booked'
  BY <1>1, <1>3, <1>9 DEF BookInv, Booked
<1>11. OrderFits'
  BY <1>3 DEF BookInv, OrderFits, Fits, Shaped
<1>12. ExposureBounded'
  <2>1. Owed' = position + order.delta \/ Owed' = Owed
    BY <1>2, <1>3, <1>9, Typed DEF BookInv, Booked
  <2>2. Size(position + order.delta) <= MaxShares /\ Size(Owed) <= MaxShares
    BY <1>3 DEF BookInv, OrderFits, Fits, ExposureBounded, Owed
  <2>3. Size(Owed') <= MaxShares
    BY <2>1, <2>2
  <2> QED BY <2>3 DEF ExposureBounded, Owed
<1>13. WorkingRows'
  <2>1. x.left # 0 => outcome = "submitted" /\ ~AtOnce
    BY <1>1, <1>6
  <2> QED BY <1>1, <1>3, <1>7, <2>1 DEF BookInv, WorkingRows
<1>14. Watched'
  BY <1>3, <1>6, <1>7 DEF BookInv, Watched
<1>15. ASSUME AtOnce PROVE shares = 0 \/ shares' = 0 \/ shares' = shares
  <2>1. \A i \in DOMAIN orders : orders[i].left = 0
    BY <1>15 DEF BookInv, WorkingRows
  <2>2. Outstanding = 0
    BY <1>2, <2>1, NothingLeft, OutstandingIsLeft
  <2>3. position = shares
    BY <1>2, <1>3, <2>2 DEF BookInv, Booked, Owed
  <2>4. Shaped(order)
    BY <1>3 DEF BookInv, OrderFits, Fits
  <2> QED BY <1>2, <1>5, <2>3, <2>4 DEF Shaped
<1> QED BY <1>10, <1>11, <1>12, <1>13, <1>14, <1>15 DEF BookInv

LEMMA BookRecord ==
  ASSUME IInv, BookInv, Record
  PROVE  BookInv'
<1>1. /\ orders \in Seq(LiveOrder) /\ Last \in DOMAIN orders /\ orders[Last] \in LiveOrder
      /\ order.delta \in Int /\ shares \in Int /\ position \in Int /\ Outstanding \in Int
  BY Typed DEF Record
<1>2. /\ pc = "recording" /\ answer \in {"filled", "submitted", "refused", "lost"}
      /\ Owed = position + (IF MovesPosition(answer) THEN order.delta ELSE 0)
      /\ Shaped(order) /\ orders[Last].row = "pending"
  BY DEF Record, BookInv, Booked, OrderFits, Fits, IInv, InHand
<1>3. pc' = "waiting" /\ shares' = shares /\ run' = run
  BY DEF Record
<1>4. position' = Owed
  BY <1>1, <1>2 DEF Record
<1> DEFINE x == [orders[Last] EXCEPT !.row = RowStatus(answer)]
<1>5. PICK v \in {"submitted", "filled", "partially_filled", "rejected"} :
          v = RowStatus(answer) /\ (v = "submitted" <=> answer = "submitted")
  BY <1>2 DEF RowStatus
<1>6. x \in LiveOrder /\ x.row = v /\ x.left = orders[Last].left
  <2>1. x = [orders[Last] EXCEPT !.row = v]
    BY <1>5
  <2>2. x \in LiveOrder /\ x.row = v
    BY <1>1, <2>1, StatusWritten
  <2>3. x.left = orders[Last].left
    BY <1>1 DEF LiveOrder
  <2> QED BY <2>2, <2>3
<1>7. orders' = [orders EXCEPT ![Last] = x]
  BY DEF Record
<1> HIDE DEF x
<1>8. /\ DOMAIN orders' = DOMAIN orders /\ orders'[Last] = x
      /\ \A i \in DOMAIN orders \ {Last} : orders'[i] = orders[i]
  BY <1>1, <1>6, <1>7, RowWritten
<1>9. (Outstanding)' = Outstanding
  <2>1. AllLeft(orders') = AllLeft(orders) - orders[Last].left + x.left
    BY <1>1, <1>6, <1>7, LeftRewritten
  <2>2. orders[Last].left \in Int
    BY <1>1 DEF LiveOrder
  <2> QED BY <1>1, <1>6, <2>1, <2>2, OutstandingIsLeft
<1>10. Owed' = Owed
  BY <1>3, <1>9 DEF Owed
<1>11. Booked' /\ ExposureBounded' /\ OrderFits'
  BY <1>3, <1>4, <1>10 DEF BookInv, Booked, ExposureBounded, Owed, OrderFits
<1>12. WorkingRows'
  <2>1. \A i \in DOMAIN orders : orders'[i].left # 0 =>
            ~AtOnce /\ orders'[i].row = "submitted"
    <3> SUFFICES ASSUME NEW i \in DOMAIN orders, orders'[i].left # 0
                 PROVE  ~AtOnce /\ orders'[i].row = "submitted"
      OBVIOUS
    <3>1. orders[i].left # 0
      BY <1>6, <1>8
    <3>2. ~AtOnce /\ (orders[i].row = "submitted" \/ (i = Last /\ answer = "submitted"))
      <4>1. pc = "recording" /\ WorkingRows
        BY <1>2 DEF BookInv
      <4>2. pc \notin {"off", "ended"}
        BY <4>1
      <4> QED BY <3>1, <4>1, <4>2 DEF WorkingRows
    <3>3. CASE i = Last
      BY <1>2, <1>5, <1>6, <1>8, <3>2, <3>3
    <3>4. CASE i # Last
      BY <1>8, <3>2, <3>4
    <3> QED BY <3>3, <3>4
  <2> QED BY <1>2, <1>3, <1>8, <2>1 DEF BookInv, WorkingRows
<1>13. Watched'
  <2> SUFFICES ASSUME \A i \in DOMAIN orders' : orders'[i].row # "submitted"
               PROVE  trail' # "none" <=> position' # 0
    BY DEF Watched
  <2>1. answer # "submitted"
    BY <1>1, <1>5, <1>6, <1>8
  <2>2. trail # "none" <=> position # 0
    BY <1>2, <1>8 DEF BookInv, Watched
  <2>3. CASE answer \in {"refused", "lost"}
    <3>1. trail' = trail /\ position' = position
      BY <1>1, <2>3 DEF Record, MovesPosition
    <3> QED BY <2>2, <3>1
  <2>4. CASE answer = "filled" /\ order.closing
    BY <1>1, <1>2, <2>4 DEF Record, MovesPosition, Shaped
  <2>5. CASE answer = "filled" /\ ~order.closing
    BY <1>1, <1>2, <2>5 DEF Record, MovesPosition, Shaped
  <2> QED BY <1>2, <2>1, <2>3, <2>4, <2>5
<1> QED BY <1>11, <1>12, <1>13 DEF BookInv

(* What the broker fills of a working order it no longer works on.         *)
LEMMA BookBrokerFill ==
  ASSUME IInv, BookInv, NEW i \in DOMAIN orders, BrokerFill(i)
  PROVE  BookInv' /\ ~AtOnce
<1> DEFINE x == [orders[i] EXCEPT !.left = 0]
<1>1. /\ orders \in Seq(LiveOrder) /\ orders[i] \in LiveOrder /\ orders[i].left \in Int
      /\ shares \in Int /\ Outstanding \in Int
  BY Typed
<1>2. x \in LiveOrder /\ x.left = 0 /\ x.row = orders[i].row
  BY <1>1, LeftWritten DEF SameRow, LiveOrder
<1>3. orders' = [orders EXCEPT ![i] = x]
  BY DEF BrokerFill
<1> HIDE DEF x
<1>4. /\ DOMAIN orders' = DOMAIN orders /\ orders'[i] = x /\ Len(orders') = Len(orders)
      /\ \A k \in DOMAIN orders \ {i} : orders'[k] = orders[k]
  BY <1>1, <1>2, <1>3, RowWritten
<1>5. (Outstanding)' = Outstanding - orders[i].left
  <2>1. AllLeft(orders') = AllLeft(orders) - orders[i].left + x.left
    BY <1>1, <1>2, <1>3, LeftRewritten
  <2> QED BY <1>1, <1>2, <2>1, OutstandingIsLeft
<1>6. /\ shares' = shares + orders[i].left /\ orders[i].left # 0
      /\ pc' = pc /\ run' = run /\ order' = order /\ answer' = answer
      /\ position' = position /\ trail' = trail
  BY DEF BrokerFill, ctx
<1>7. Owed' = Owed
  BY <1>1, <1>5, <1>6 DEF Owed
<1>8. Booked' /\ ExposureBounded'
  BY <1>6, <1>7 DEF BookInv, Booked, ExposureBounded, Owed
<1>9. OrderFits'
  BY <1>6 DEF BookInv, OrderFits, Fits, Shaped
<1>10. WorkingRows' /\ ~AtOnce
  <2>1. Last' = Last
    BY <1>4 DEF Last
  <2> QED BY <1>2, <1>4, <1>6, <2>1 DEF BookInv, WorkingRows
<1>11. Watched'
  BY <1>2, <1>4, <1>6 DEF BookInv, Watched
<1> QED BY <1>8, <1>9, <1>10, <1>11 DEF BookInv

(* A runner starts with nothing working, and takes over what there is.     *)
LEMMA BookStart ==
  ASSUME IInv, BookInv, Foreseen, Start \/ Adopt
  PROVE  BookInv' /\ shares' = shares
<1>1. orders' = orders /\ shares' = shares /\ (Outstanding)' = Outstanding
  BY DEF Start, Adopt, Outstanding
<1>2. \A i \in DOMAIN orders : orders[i].left = 0
  <2>1. CASE AtOnce
    BY <2>1 DEF BookInv, WorkingRows
  <2>2. CASE Start /\ ~AtOnce
    <3>1. run \in Nat /\ run < MaxRuns /\ MaxRuns <= 1 /\ MaxRuns \in Nat
      BY <2>2, RunnerAssumption DEF Foreseen, Start, IInv, TypeOK
    <3>2. run = 0
      BY <3>1
    <3> QED BY <3>2 DEF BookInv, WorkingRows
  <2>3. CASE Adopt
    BY <2>3 DEF Adopt, BookInv, WorkingRows
  <2> QED BY <2>1, <2>2, <2>3
<1>3. ExposureBounded'
  BY <1>1 DEF BookInv, ExposureBounded
<1>4. CASE Start
  <2>1. pc' = "adopting" /\ run' # 0
    BY <1>4 DEF Start, IInv, TypeOK
  <2> QED BY <1>1, <1>2, <1>3, <2>1 DEF BookInv, Booked, OrderFits, WorkingRows, Watched
<1>5. CASE Adopt
  <2>1. Outstanding = 0 /\ shares \in Int
    BY <1>2, NothingLeft, OutstandingIsLeft, Typed
  <2>2. /\ pc' = "waiting" /\ run' = run /\ run # 0
        /\ position' = shares /\ trail' = IF shares = 0 THEN "none" ELSE "armed"
    BY <1>5 DEF Adopt, BookInv, WorkingRows
  <2>3. position' = Owed'
    BY <1>1, <2>1, <2>2 DEF Owed
  <2>4. Booked' /\ OrderFits' /\ Watched'
    BY <2>2, <2>3 DEF Booked, OrderFits, Watched
  <2>5. WorkingRows'
    BY <1>1, <1>2, <2>2 DEF WorkingRows
  <2> QED BY <1>1, <1>3, <2>4, <2>5 DEF BookInv
<1> QED BY <1>1, <1>4, <1>5

LEMMA BookOther ==
  ASSUME IInv, BookInv,
         Stop \/ NotApproved \/ Cancel \/ StepRaises \/ Crash \/ UNCHANGED vars
  PROVE  BookInv' /\ shares' = shares
<1>1. /\ orders' = orders /\ shares' = shares /\ position' = position
      /\ trail' = trail /\ run' = run /\ answer' = answer
      /\ (Outstanding)' = Outstanding /\ Owed' = Owed
  BY DEF Stop, NotApproved, Cancel, StepRaises, Crash, vars, ctx, Outstanding, Owed
<1>2. \/ pc' = pc /\ order' = order
      \/ pc \notin {"off"} /\ pc' \in {"off", "ended"}
      \/ pc = "approval" /\ pc' = "waiting"
  BY DEF Stop, NotApproved, Cancel, StepRaises, Crash, vars
<1>3. Booked' /\ ExposureBounded'
  BY <1>1, <1>2 DEF BookInv, Booked, ExposureBounded
<1>4. OrderFits'
  BY <1>1, <1>2 DEF BookInv, OrderFits, Fits, Shaped
<1>5. WorkingRows'
  <2>1. Last' = Last
    BY <1>1 DEF Last
  <2> QED BY <1>1, <1>2, <2>1 DEF BookInv, WorkingRows
<1>6. Watched'
  BY <1>1, <1>2 DEF BookInv, Watched
<1> QED BY <1>1, <1>3, <1>4, <1>5, <1>6 DEF BookInv

(* Every step keeps the book; if the broker answers at once, it moves the  *)
(* shares from or to flat.                                                 *)
LEMMA BookNext ==
  ASSUME IInv, BookInv, Foreseen, [Next]_vars
  PROVE  /\ BookInv'
         /\ AtOnce => shares = 0 \/ shares' = 0 \/ shares' = shares
<1>1. CASE TakeBar
  BY <1>1, BookTakeBar DEF TakeBar, ProcessBar
<1>2. CASE \E outcome \in Outcomes : PlaceOrder(outcome)
  BY <1>2, BookPlaceOrder
<1>3. CASE Record
  BY <1>3, BookRecord DEF Record
<1>4. CASE \E i \in DOMAIN orders : BrokerFill(i)
  BY <1>4, BookBrokerFill
<1>5. CASE Approved
  BY <1>5, BookApproved DEF Approved
<1>6. CASE Start \/ Adopt
  BY <1>6, BookStart
<1>7. CASE Stop \/ NotApproved \/ Cancel \/ StepRaises \/ Crash \/ UNCHANGED vars
  BY <1>7, BookOther
<1> QED BY <1>1, <1>2, <1>3, <1>4, <1>5, <1>6, <1>7 DEF Next

LEMMA BookInit == Init => BookInv
<1> SUFFICES ASSUME Init PROVE BookInv
  OBVIOUS
<1>1. orders = <<>> /\ shares = 0 /\ orders \in Seq(LiveOrder)
  BY DEF Init
<1>2. Outstanding = 0
  <2>1. \A i \in DOMAIN orders : orders[i].left = 0
    BY <1>1
  <2> QED BY <1>1, <2>1, NothingLeft, OutstandingIsLeft
<1>3. ExposureBounded
  BY <1>1, <1>2, RunnerAssumption DEF ExposureBounded, Size
<1> QED BY <1>3 DEF Init, BookInv, Booked, OrderFits, WorkingRows, Watched

LEMMA BookMeans ==
  ASSUME IInv, BookInv
  PROVE  RunnerInv
<1>1. PositionAgrees
  BY DEF BookInv, Booked, Owed, PositionAgrees
<1>2. TrailIffPosition
  <2> SUFFICES ASSUME pc = "waiting", \A i \in DOMAIN orders : orders[i].row # "submitted"
               PROVE  trail # "none" <=> shares # 0
    BY DEF TrailIffPosition
  <2>1. \A i \in DOMAIN orders : orders[i].left = 0
    BY DEF BookInv, WorkingRows
  <2>2. Outstanding = 0 /\ shares \in Int
    BY <2>1, NothingLeft, OutstandingIsLeft, Typed
  <2>3. position = shares
    BY <2>2 DEF BookInv, Booked, Owed
  <2> QED BY <2>3 DEF BookInv, Watched
<1> QED BY <1>1, <1>2 DEF IInv, BookInv, RunnerInv

(* Between bars the runner's position is the broker's, working orders      *)
(* included, what the broker holds and is about to keeps the share cap, a  *)
(* confirmed position is watched, and no bar is traded twice: as long as   *)
(* the broker fills all or nothing and no run leaves working orders to a   *)
(* later one.  Both are needed: a partial fill does not move the context's *)
(* position, and a later run adopts filled shares only (runner_adoption).  *)
THEOREM RunnerSafe ==
  ASSUME Foreseen
  PROVE  Spec => []RunnerInv
<1>1. IInv /\ BookInv /\ [Next]_vars => BookInv'
  BY BookNext
<1>2. IInv /\ BookInv => RunnerInv
  BY BookMeans
<1> QED BY <1>1, <1>2, InitIInv, BookInit, NextKeepsIInv, PTL DEF Spec

LEMMA ProductNat ==
  ASSUME NEW m \in Int, NEW n \in Int, m = 0 \/ n = 0 \/ n = m
  PROVE  m * n >= 0
<1>1. CASE m = 0
  BY <1>1
<1>2. CASE n = 0
  BY <1>2
<1>3. CASE n = m /\ m >= 0
  BY <1>3
<1>4. CASE n = m /\ m < 0
  BY <1>4
<1> QED BY <1>1, <1>2, <1>3, <1>4

(* No order carries the position through zero, whatever is vetoed, refused *)
(* or lost and however often the runner dies and adopts what it finds, as  *)
(* long as the broker answers at once.                                     *)
THEOREM ExposureMovesViaFlat ==
  ASSUME AtOnce
  PROVE  Spec => NeverFlips
<1>1. Foreseen
  BY DEF AtOnce, Foreseen
<1>2. IInv /\ BookInv /\ [Next]_vars => BookInv'
  BY <1>1, BookNext
<1>3. IInv /\ BookInv /\ [Next]_vars => [shares * shares' >= 0]_vars
  <2> SUFFICES ASSUME IInv, BookInv, Next PROVE shares * shares' >= 0
    OBVIOUS
  <2>1. shares \in Int /\ shares' \in Int
    BY NextKeepsIInv DEF IInv, TypeOK
  <2>2. shares = 0 \/ shares' = 0 \/ shares' = shares
    BY <1>1, BookNext
  <2> QED BY <2>1, <2>2, ProductNat
<1> QED BY <1>2, <1>3, InitIInv, BookInit, NextKeepsIInv, PTL DEF Spec, NeverFlips

=============================================================================
