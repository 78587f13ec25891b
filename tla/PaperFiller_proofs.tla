------------------------- MODULE PaperFiller_proofs -------------------------
(***************************************************************************)
(* Proofs about the paper book, for any number of schedulers, orders,      *)
(* tickers, prices and crashes.  What a scheduler read under a row lock is *)
(* still true when it books, because nobody else can hold that lock: this  *)
(* is the inductive invariant, and PaperInv and BookedOnce follow from it. *)
(***************************************************************************)
EXTENDS PaperFiller, SumTheorems, SequenceTheorems, TLAPS

Holding(f) == filler[f].pc \in {"quoting", "quoted", "booking"}

(* Candidates are orders, and stay orders.                                 *)
BatchKnown == \A f \in Fillers : filler[f].batch \subseteq DOMAIN orders

(* An order whose lock is held is still open.                              *)
HeldIsOpen ==
    \A f \in Fillers :
        Holding(f) => /\ filler[f].doing \in DOMAIN orders
                      /\ orders[filler[f].doing].status = "pending"

(* Nobody shares an order's lock.                                          *)
HeldApart ==
    \A f, g \in Fillers :
        Holding(f) /\ Holding(g) /\ filler[f].doing = filler[g].doing => f = g

(* Nobody shares the portfolio's lock, and cash read under it is current.  *)
OneBooking ==
    \A f, g \in Fillers : filler[f].pc = "booking" /\ filler[g].pc = "booking" => f = g
CashCurrent == \A f \in Fillers : filler[f].pc = "booking" => filler[f].cash = cash

IInv ==
    /\ TypeOK /\ Solvent
    /\ BatchKnown /\ HeldIsOpen /\ HeldApart /\ OneBooking /\ CashCurrent

-----------------------------------------------------------------------------
(* Arithmetic.                                                             *)

LEMMA ProductNat ==
    ASSUME NEW a \in Nat, NEW b \in Nat
    PROVE  a * b \in Nat
OBVIOUS

LEMMA QuotientNat ==
    ASSUME NEW a \in Nat, NEW b \in Nat, b > 0
    PROVE  a \div b \in Nat
OBVIOUS

(* Buying q > 0 shares of a position that is not short leaves an open      *)
(* position with q shares more.                                            *)
LEMMA BoughtPosition ==
    ASSUME NEW p \in Position, NEW q \in Nat \ {0}, NEW price \in Nat,
           p.quantity >= 0, p.open <=> p.quantity > 0
    PROVE  /\ Bought(p, q, price) \in Position
           /\ Bought(p, q, price).open
           /\ Bought(p, q, price).quantity = p.quantity + q
<1> DEFINE total == p.quantity + q
           paid == p.avgCost * p.quantity + price * q
<1>1. p.quantity \in Nat /\ p.avgCost \in Nat /\ p.open \in BOOLEAN
  BY DEF Position
<1>2. total \in Nat /\ total > 0
  BY <1>1
<1>3. paid \in Nat
  <2>1. p.avgCost * p.quantity \in Nat
    BY <1>1, ProductNat
  <2>2. price * q \in Nat
    BY ProductNat
  <2> QED BY <2>1, <2>2
<1>4. paid \div total \in Nat
  <2> HIDE DEF paid, total
  <2> QED BY <1>2, <1>3, QuotientNat
<1>5. CASE p.open
  <2>1. Bought(p, q, price) = [open |-> TRUE, quantity |-> total, avgCost |-> paid \div total]
    BY <1>5 DEF Bought
  <2> HIDE DEF paid, total
  <2>2. Bought(p, q, price) \in Position /\ Bought(p, q, price).open
        /\ Bought(p, q, price).quantity = total
    BY <2>1, <1>2, <1>4 DEF Position
  <2> QED BY <2>2 DEF total
<1>6. CASE ~p.open
  <2>1. p.quantity = 0
    BY <1>1, <1>6
  <2>2. Bought(p, q, price) = [open |-> TRUE, quantity |-> q, avgCost |-> price]
    BY <1>6 DEF Bought
  <2> QED BY <2>1, <2>2 DEF Position
<1> QED BY <1>1, <1>5, <1>6

(* Selling q shares of an open position that has them leaves q fewer, and  *)
(* the position open exactly if some are left.                             *)
LEMMA SoldPosition ==
    ASSUME NEW p \in Position, NEW q \in Nat \ {0}, p.open, p.quantity >= q
    PROVE  /\ Sold(p, q) \in Position
           /\ Sold(p, q).quantity = p.quantity - q
           /\ Sold(p, q).quantity >= 0
           /\ Sold(p, q).open <=> Sold(p, q).quantity > 0
<1>1. CASE p.quantity = q
  BY <1>1 DEF Sold, NoPosition, Position
<1>2. CASE p.quantity # q
  <2>1. Sold(p, q) = [p EXCEPT !.quantity = @ - q]
    BY <1>2 DEF Sold
  <2> QED BY <2>1, <1>2 DEF Position
<1> QED BY <1>1, <1>2

-----------------------------------------------------------------------------
(* The steps that leave the book alone.                                    *)

LEMMA InitIInv == Init => IInv
<1> SUFFICES ASSUME Init PROVE IInv
  OBVIOUS
<1>1. TypeOK
  BY PaperAssumption
  DEF Init, TypeOK, Order, Position, NoPosition, Filler, Resting
<1>2. Solvent
  BY PaperAssumption DEF Init, Solvent, NoPosition
<1>3. \A f \in Fillers : filler[f].pc = "idle" /\ filler[f].batch = {}
  BY DEF Init, Resting
<1>4. BatchKnown /\ HeldIsOpen /\ HeldApart /\ OneBooking /\ CashCurrent
  BY <1>3 DEF BatchKnown, HeldIsOpen, HeldApart, OneBooking, CashCurrent, Holding
<1> QED BY <1>1, <1>2, <1>4 DEF IInv

(* A new order is pending and nobody's yet.                                *)
LEMMA SubmitKeepsIInv ==
    ASSUME IInv, NEW side \in {"buy", "sell"}, NEW t \in Tickers, NEW q \in Quantities,
           Submit(side, t, q)
    PROVE  IInv'
<1> DEFINE o == [side |-> side, ticker |-> t, quantity |-> q, status |-> "pending", price |-> 0]
<1>1. o \in Order
  BY PaperAssumption DEF Order
<1> HIDE DEF o
<1>2. orders \in Seq(Order) /\ orders' = Append(orders, o)
  BY DEF IInv, TypeOK, Submit, o
<1>3. orders' \in Seq(Order)
  BY <1>1, <1>2
<1>4. DOMAIN orders \subseteq DOMAIN orders' /\ \A i \in DOMAIN orders : orders'[i] = orders[i]
  BY <1>2
<1>5. cash' = cash /\ position' = position /\ filler' = filler
  BY DEF Submit
<1>6. TypeOK' /\ Solvent'
  BY <1>3, <1>5 DEF IInv, TypeOK, Solvent
<1>7. BatchKnown'
  BY <1>4, <1>5 DEF IInv, BatchKnown
<1>8. HeldIsOpen'
  BY <1>4, <1>5 DEF IInv, HeldIsOpen, Holding
<1>9. HeldApart' /\ OneBooking' /\ CashCurrent'
  BY <1>5 DEF IInv, HeldApart, OneBooking, CashCurrent, Holding
<1> QED BY <1>6, <1>7, <1>8, <1>9 DEF IInv

(* A scheduler that only changes its own state, without taking a lock.     *)
LEMMA OwnStepKeepsIInv ==
    ASSUME IInv, NEW f \in Fillers, NEW x \in Filler,
           filler' = [filler EXCEPT ![f] = x],
           UNCHANGED <<orders, cash, position>>,
           x.batch \subseteq DOMAIN orders,
           x.pc \in {"idle", "next", "quoted"},
           x.pc = "quoted" => Holding(f) /\ x.doing = filler[f].doing
    PROVE  IInv'
<1> USE DEF Holding
<1>1. filler \in [Fillers -> Filler] /\ filler'[f] = x
      /\ \A g \in Fillers \ {f} : filler'[g] = filler[g]
  BY DEF IInv, TypeOK
<1>2. TypeOK' /\ Solvent'
  BY <1>1 DEF IInv, TypeOK, Solvent
<1>3. BatchKnown'
  BY <1>1 DEF IInv, BatchKnown
<1>4. \A g \in Fillers : Holding(g)' => Holding(g) /\ filler'[g].doing = filler[g].doing
  BY <1>1
<1>5. HeldIsOpen' /\ HeldApart'
  BY <1>4 DEF IInv, HeldIsOpen, HeldApart
<1>6. \A g \in Fillers : filler'[g].pc = "booking" => filler'[g] = filler[g]
  BY <1>1
<1>7. OneBooking' /\ CashCurrent'
  BY <1>6 DEF IInv, OneBooking, CashCurrent
<1> QED BY <1>2, <1>3, <1>5, <1>7 DEF IInv

(* The order's lock is free, and the order is seen to be open under it.    *)
LEMMA LockOrderKeepsIInv ==
    ASSUME IInv, NEW f \in Fillers, LockOrder(f)
    PROVE  IInv'
<1> USE DEF Holding
<1> PICK i \in filler[f].batch :
        /\ filler[f].pc = "next" /\ ~OrderLocked(i)
        /\ filler' = [filler EXCEPT ![f].batch = @ \ {i}, ![f].doing = i,
               ![f].pc = IF orders[i].status = "pending" THEN "quoting" ELSE "next"]
        /\ UNCHANGED <<orders, cash, position>>
  BY DEF LockOrder
<1>1. filler \in [Fillers -> Filler] /\ i \in DOMAIN orders /\ i \in Nat
  BY DEF IInv, TypeOK, BatchKnown, Filler
<1>2. /\ filler'[f].pc = IF orders[i].status = "pending" THEN "quoting" ELSE "next"
      /\ filler'[f].batch = filler[f].batch \ {i} /\ filler'[f].doing = i
      /\ filler'[f] \in Filler
  BY <1>1 DEF Filler
<1>3. \A g \in Fillers \ {f} : filler'[g] = filler[g]
  BY <1>1
<1>4. filler' \in [Fillers -> Filler]
  BY <1>1, <1>2, <1>3
<1>5. TypeOK' /\ Solvent'
  BY <1>4 DEF IInv, TypeOK, Solvent
<1>6. BatchKnown'
  BY <1>2, <1>3 DEF IInv, BatchKnown
<1>7. HeldIsOpen'
  BY <1>1, <1>2, <1>3 DEF IInv, HeldIsOpen
<1>8. \A g \in Fillers \ {f} : Holding(g) => filler[g].doing # i
  BY DEF OrderLocked
<1>9. HeldApart'
  <2> SUFFICES ASSUME NEW g \in Fillers, NEW h \in Fillers, Holding(g)', Holding(h)',
                      filler'[g].doing = filler'[h].doing
               PROVE  g = h
    BY DEF HeldApart
  <2>0. \A k \in Fillers \ {f} : Holding(k)' => filler'[k].doing # filler'[f].doing
    BY <1>2, <1>3, <1>8
  <2>1. CASE g = f
    BY <2>0, <2>1
  <2>2. CASE h = f
    BY <2>0, <2>2
  <2>3. CASE g # f /\ h # f
    BY <2>3, <1>3 DEF IInv, HeldApart
  <2> QED BY <2>1, <2>2, <2>3
<1>10. filler'[f].pc # "booking"
  BY <1>2
<1>11. OneBooking' /\ CashCurrent'
  BY <1>10, <1>3 DEF IInv, OneBooking, CashCurrent
<1> QED BY <1>5, <1>6, <1>7, <1>9, <1>11 DEF IInv

(* The portfolio's lock is free, and the cash is read under it.            *)
LEMMA LockPortfolioKeepsIInv ==
    ASSUME IInv, NEW f \in Fillers, LockPortfolio(f)
    PROVE  IInv'
<1> USE DEF Holding
<1>1. filler \in [Fillers -> Filler] /\ cash \in Int
  BY DEF IInv, TypeOK
<1>2. filler[f].pc = "quoted" /\ \A g \in Fillers : filler[g].pc # "booking"
  BY DEF LockPortfolio
<1>3. /\ filler'[f].pc = "booking" /\ filler'[f].cash = cash
      /\ filler'[f].batch = filler[f].batch /\ filler'[f].doing = filler[f].doing
      /\ filler'[f] \in Filler
  BY <1>1 DEF LockPortfolio, Filler
<1>4. \A g \in Fillers \ {f} : filler'[g] = filler[g]
  BY <1>1 DEF LockPortfolio
<1>5. orders' = orders /\ cash' = cash /\ position' = position
      /\ filler' \in [Fillers -> Filler]
  BY <1>1, <1>3, <1>4 DEF LockPortfolio
<1>6. TypeOK' /\ Solvent'
  BY <1>5 DEF IInv, TypeOK, Solvent
<1>7. BatchKnown' /\ HeldIsOpen' /\ HeldApart'
  BY <1>2, <1>3, <1>4, <1>5 DEF IInv, BatchKnown, HeldIsOpen, HeldApart
<1>8. OneBooking' /\ CashCurrent'
  BY <1>2, <1>3, <1>4, <1>5 DEF OneBooking, CashCurrent
<1> QED BY <1>6, <1>7, <1>8 DEF IInv

-----------------------------------------------------------------------------
(* The steps that book.                                                    *)

(* Settling f's order touches that order only, which nobody else has, and  *)
(* gives back both locks.                                                  *)
LEMMA SettleFacts ==
    ASSUME IInv, NEW f \in Fillers, filler[f].pc = "booking",
           NEW status \in {"filled", "rejected"}, Settle(f, status)
    PROVE  /\ filler[f].doing \in DOMAIN orders
           /\ Doing(f) \in Order /\ Doing(f).status = "pending"
           /\ orders'[filler[f].doing] =
                [Doing(f) EXCEPT !.status = status,
                                 !.price = IF status = "filled" THEN filler[f].price ELSE 0]
           /\ \A j \in DOMAIN orders \ {filler[f].doing} : orders'[j] = orders[j]
           /\ orders' \in Seq(Order) /\ DOMAIN orders' = DOMAIN orders
           /\ filler' \in [Fillers -> Filler]
           /\ BatchKnown' /\ HeldIsOpen' /\ HeldApart' /\ OneBooking' /\ CashCurrent'
<1> DEFINE i == filler[f].doing
           o == [Doing(f) EXCEPT !.status = status,
                                 !.price = IF status = "filled" THEN filler[f].price ELSE 0]
<1> USE DEF Holding
<1>1. orders \in Seq(Order) /\ filler \in [Fillers -> Filler]
  BY DEF IInv, TypeOK
<1>2. i \in DOMAIN orders /\ orders[i].status = "pending" /\ orders[i] \in Order
  BY <1>1 DEF IInv, HeldIsOpen
<1>3. o \in Order
  <2>1. filler[f].price \in Nat
    BY <1>1 DEF Filler
  <2> QED BY <1>2, <2>1 DEF Order, Doing
<1>4. orders' = [orders EXCEPT ![i] = o]
  BY DEF Settle, Doing
<1> HIDE DEF o
<1>5. /\ orders' \in Seq(Order) /\ DOMAIN orders' = DOMAIN orders /\ orders'[i] = o
      /\ \A j \in DOMAIN orders \ {i} : orders'[j] = orders[j]
  BY <1>1, <1>2, <1>3, <1>4
<1>6. /\ filler'[f].pc = "next" /\ filler'[f].batch = filler[f].batch /\ filler'[f] \in Filler
      /\ \A g \in Fillers \ {f} : filler'[g] = filler[g]
      /\ filler' \in [Fillers -> Filler]
  BY <1>1 DEF Settle, Filler
<1>7. BatchKnown'
  BY <1>5, <1>6 DEF IInv, BatchKnown
<1>8. \A g \in Fillers : Holding(g)' => g # f /\ Holding(g) /\ filler'[g].doing = filler[g].doing
  BY <1>6
<1>9. \A g \in Fillers : Holding(g)' => filler[g].doing # i
  BY <1>8 DEF IInv, HeldApart
<1>10. HeldIsOpen'
  <2> SUFFICES ASSUME NEW g \in Fillers, Holding(g)'
               PROVE  /\ filler'[g].doing \in DOMAIN orders'
                      /\ orders'[filler'[g].doing].status = "pending"
    BY DEF HeldIsOpen
  <2>1. filler'[g].doing = filler[g].doing /\ filler[g].doing # i /\ Holding(g)
    BY <1>8, <1>9
  <2>2. filler[g].doing \in DOMAIN orders /\ orders[filler[g].doing].status = "pending"
    BY <2>1 DEF IInv, HeldIsOpen
  <2> QED BY <1>5, <2>1, <2>2
<1>11. HeldApart'
  BY <1>8 DEF IInv, HeldApart
<1>12. \A g \in Fillers : filler'[g].pc # "booking"
  BY <1>6 DEF IInv, OneBooking
<1>13. OneBooking' /\ CashCurrent'
  BY <1>12 DEF OneBooking, CashCurrent
<1> QED BY <1>2, <1>5, <1>6, <1>7, <1>10, <1>11, <1>13 DEF o, Doing

(* What a booking starts from.                                             *)
LEMMA BookingFacts ==
    ASSUME IInv, NEW f \in Fillers, filler[f].pc = "booking"
    PROVE  /\ Doing(f) \in Order /\ Doing(f).ticker \in Tickers
           /\ Doing(f).quantity \in Nat \ {0}
           /\ filler[f].price \in Nat /\ Notional(f) \in Nat
           /\ filler[f].cash = cash /\ cash \in Int /\ cash >= 0
           /\ position \in [Tickers -> Position]
<1>1. orders \in Seq(Order) /\ filler[f] \in Filler /\ cash \in Int
      /\ position \in [Tickers -> Position]
  BY DEF IInv, TypeOK
<1>2. Doing(f) \in Order
  BY <1>1 DEF IInv, HeldIsOpen, Holding, Doing
<1>3. filler[f].price \in Nat /\ Doing(f).quantity \in Nat \ {0} /\ Doing(f).ticker \in Tickers
  BY <1>1, <1>2 DEF Filler, Order
<1>4. Notional(f) \in Nat
  BY <1>3, ProductNat DEF Notional
<1>5. filler[f].cash = cash /\ cash >= 0
  BY DEF IInv, CashCurrent, Solvent
<1> QED BY <1>1, <1>2, <1>3, <1>4, <1>5

(* A position is replaced: solvency is a matter of the cash and of the new *)
(* position.                                                               *)
LEMMA BookKeepsIInv ==
    ASSUME IInv, NEW f \in Fillers, filler[f].pc = "booking", Settle(f, "filled"),
           NEW t \in Tickers, NEW p \in Position,
           position' = [position EXCEPT ![t] = p],
           p.quantity >= 0, p.open <=> p.quantity > 0,
           cash' \in Int, cash' >= 0
    PROVE  IInv'
<1>1. position \in [Tickers -> Position]
  BY DEF IInv, TypeOK
<1>2. position' \in [Tickers -> Position] /\ position'[t] = p
      /\ \A u \in Tickers \ {t} : position'[u] = position[u]
  BY <1>1
<1>3. TypeOK'
  BY <1>2, SettleFacts DEF TypeOK
<1>4. Solvent'
  BY <1>2 DEF IInv, Solvent
<1> QED BY <1>3, <1>4, SettleFacts DEF IInv

LEMMA BuyKeepsIInv ==
    ASSUME IInv, NEW f \in Fillers, Buy(f)
    PROVE  IInv'
<1> DEFINE t == Doing(f).ticker
           p == Bought(position[t], Doing(f).quantity, filler[f].price)
<1>1. filler[f].pc = "booking" /\ Settle(f, "filled")
      /\ filler[f].cash >= Notional(f) /\ cash' = filler[f].cash - Notional(f)
  BY DEF Buy, CanBook
<1>2. cash' \in Int /\ cash' >= 0
  BY <1>1, BookingFacts
<1>3. t \in Tickers /\ position[t] \in Position
      /\ position[t].quantity >= 0 /\ (position[t].open <=> position[t].quantity > 0)
  BY <1>1, BookingFacts DEF IInv, Solvent
<1>4. p \in Position /\ p.open /\ p.quantity = position[t].quantity + Doing(f).quantity
  BY <1>1, <1>3, BookingFacts, BoughtPosition
<1>5. p.quantity >= 0 /\ (p.open <=> p.quantity > 0)
  BY <1>1, <1>3, <1>4, BookingFacts DEF Position
<1>6. position' = [position EXCEPT ![t] = p]
  BY DEF Buy
<1> HIDE DEF p, t
<1> QED BY <1>1, <1>2, <1>3, <1>4, <1>5, <1>6, BookKeepsIInv

LEMMA SellKeepsIInv ==
    ASSUME IInv, NEW f \in Fillers, Sell(f)
    PROVE  IInv'
<1> DEFINE t == Doing(f).ticker
           p == Sold(position[t], Doing(f).quantity)
<1>1. filler[f].pc = "booking" /\ Settle(f, "filled")
      /\ cash' = filler[f].cash + Notional(f)
      /\ position[t].open /\ position[t].quantity >= Doing(f).quantity
  BY DEF Sell, CanBook
<1>2. cash' \in Int /\ cash' >= 0
  BY <1>1, BookingFacts
<1>3. t \in Tickers /\ position[t] \in Position
  BY <1>1, BookingFacts
<1>4. p \in Position /\ p.quantity >= 0 /\ (p.open <=> p.quantity > 0)
  BY <1>1, <1>3, BookingFacts, SoldPosition
<1>5. position' = [position EXCEPT ![t] = p]
  BY DEF Sell
<1> HIDE DEF p, t
<1> QED BY <1>1, <1>2, <1>3, <1>4, <1>5, BookKeepsIInv

LEMMA RejectKeepsIInv ==
    ASSUME IInv, NEW f \in Fillers, Reject(f)
    PROVE  IInv'
<1>1. filler[f].pc = "booking" /\ Settle(f, "rejected")
      /\ cash' = cash /\ position' = position
  BY DEF Reject
<1>2. TypeOK'
  BY <1>1, SettleFacts DEF IInv, TypeOK
<1>3. Solvent'
  BY <1>1 DEF IInv, Solvent
<1> QED BY <1>1, <1>2, <1>3, SettleFacts DEF IInv

-----------------------------------------------------------------------------
(* The invariant.                                                          *)

LEMMA NextKeepsIInv ==
    ASSUME IInv, [Next]_vars
    PROVE  IInv'
<1>1. CASE UNCHANGED vars
  BY <1>1 DEF vars, IInv, TypeOK, Solvent, BatchKnown, HeldIsOpen, HeldApart,
     OneBooking, CashCurrent, Holding
<1>2. CASE \E side \in {"buy", "sell"}, t \in Tickers, q \in Quantities : Submit(side, t, q)
  BY <1>2, SubmitKeepsIInv
<1>3. ASSUME NEW f \in Fillers, Work(f) \/ NoQuote(f) \/ Crash(f)
      PROVE  IInv'
  <2>1. filler \in [Fillers -> Filler] /\ filler[f] \in Filler
        /\ filler[f].batch \subseteq DOMAIN orders
    BY DEF IInv, TypeOK, BatchKnown
  <2>2. CASE Select(f)
    <3> DEFINE x == [filler[f] EXCEPT !.pc = "next", !.batch = Candidates]
    <3>1. Candidates \subseteq DOMAIN orders /\ DOMAIN orders \subseteq Nat
      BY DEF Candidates, Open, IInv, TypeOK
    <3>2. Candidates \in SUBSET Nat
      BY <3>1
    <3>3. x \in Filler /\ x.batch = Candidates /\ x.pc = "next"
      BY <2>1, <3>2 DEF Filler
    <3>4. filler' = [filler EXCEPT ![f] = x] /\ UNCHANGED <<orders, cash, position>>
      BY <2>1, <2>2 DEF Select
    <3> HIDE DEF x
    <3> QED BY <3>1, <3>3, <3>4, OwnStepKeepsIInv
  <2>3. ASSUME filler' = [filler EXCEPT ![f] = Resting], UNCHANGED <<orders, cash, position>>
        PROVE  IInv'
    <3>1. Resting \in Filler /\ Resting.batch = {} /\ Resting.pc = "idle"
      BY DEF Filler, Resting
    <3> QED BY <2>3, <3>1, OwnStepKeepsIInv
  <2>4. CASE TickOver(f) \/ Crash(f)
    BY <2>3, <2>4 DEF TickOver, Crash
  <2>5. CASE LockOrder(f)
    BY <2>5, LockOrderKeepsIInv
  <2>6. CASE \E p \in Quotes : GetQuote(f, p)
    <3> PICK p \in Quotes : GetQuote(f, p)
      BY <2>6
    <3> DEFINE x == [filler[f] EXCEPT !.pc = "quoted", !.price = p]
    <3>1. p \in Nat
      BY PaperAssumption
    <3>2. /\ x \in Filler /\ x.batch = filler[f].batch /\ x.pc = "quoted"
          /\ x.doing = filler[f].doing
      BY <2>1, <3>1 DEF Filler
    <3>3. filler' = [filler EXCEPT ![f] = x] /\ UNCHANGED <<orders, cash, position>>
      BY <2>1 DEF GetQuote
    <3>4. Holding(f)
      BY DEF GetQuote, Holding
    <3> HIDE DEF x
    <3> QED BY <2>1, <3>2, <3>3, <3>4, OwnStepKeepsIInv
  <2>7. CASE NoQuote(f)
    <3> DEFINE x == [filler[f] EXCEPT !.pc = "next"]
    <3>1. x \in Filler /\ x.batch = filler[f].batch /\ x.pc = "next"
      BY <2>1 DEF Filler
    <3>2. filler' = [filler EXCEPT ![f] = x] /\ UNCHANGED <<orders, cash, position>>
      BY <2>1, <2>7 DEF NoQuote
    <3> HIDE DEF x
    <3> QED BY <2>1, <3>1, <3>2, OwnStepKeepsIInv
  <2>8. CASE LockPortfolio(f)
    BY <2>8, LockPortfolioKeepsIInv
  <2>9. CASE Buy(f) \/ Sell(f) \/ Reject(f)
    BY <2>9, BuyKeepsIInv, SellKeepsIInv, RejectKeepsIInv
  <2> QED BY <1>3, <2>2, <2>4, <2>5, <2>6, <2>7, <2>8, <2>9 DEF Work
<1> QED BY <1>1, <1>2, <1>3 DEF Next

THEOREM Invariance == Spec => []IInv
<1>1. Init => IInv
  BY InitIInv
<1>2. IInv /\ [Next]_vars => IInv'
  BY NextKeepsIInv
<1> QED BY <1>1, <1>2, PTL DEF Spec

(* For any number of schedulers and orders the paper book is well typed,   *)
(* never has negative cash or a short position, and a position row is open *)
(* exactly while it holds shares (paper_filler.py).                        *)
THEOREM Solvency == Spec => []PaperInv
<1>1. IInv => PaperInv
  BY DEF IInv, PaperInv
<1> QED BY <1>1, Invariance, PTL

-----------------------------------------------------------------------------
(* Booking happens once.                                                   *)

(* The action under BookedOnce.                                            *)
BookedStep ==
    /\ \/ \E i \in DOMAIN orders : Books(i)
       \/ /\ cash' = cash /\ position' = position
          /\ \A i \in DOMAIN orders :
                orders'[i].status = "filled" => orders[i].status = "filled"
    /\ \A i \in DOMAIN orders : orders[i].status # "pending" => orders'[i] = orders[i]

LEMMA BuyBooks ==
    ASSUME IInv, NEW f \in Fillers, Buy(f)
    PROVE  Books(filler[f].doing)
<1> DEFINE i == filler[f].doing
           t == Doing(f).ticker
           p == Bought(position[t], Doing(f).quantity, filler[f].price)
<1>1. filler[f].pc = "booking" /\ Settle(f, "filled") /\ Doing(f).side = "buy"
      /\ cash' = filler[f].cash - Notional(f)
      /\ position' = [position EXCEPT ![t] = p]
  BY DEF Buy
<1>2. /\ Doing(f) \in Order /\ Doing(f).status = "pending"
      /\ orders'[i] = [Doing(f) EXCEPT !.status = "filled", !.price = filler[f].price]
      /\ \A j \in DOMAIN orders \ {i} : orders'[j] = orders[j]
  BY <1>1, SettleFacts
<1>3. orders'[i].status = "filled" /\ orders'[i].ticker = t /\ orders'[i].side = "buy"
      /\ orders'[i].price = filler[f].price /\ orders'[i].quantity = Doing(f).quantity
  BY <1>1, <1>2 DEF Order
<1>4. t \in Tickers /\ position \in [Tickers -> Position] /\ position[t] \in Position
      /\ position[t].quantity >= 0 /\ (position[t].open <=> position[t].quantity > 0)
  BY <1>1, BookingFacts DEF IInv, Solvent
<1>5. p.quantity = position[t].quantity + Doing(f).quantity
  BY <1>1, <1>4, BookingFacts, BoughtPosition
<1> HIDE DEF p
<1>6. position'[t] = p /\ \A u \in Tickers \ {t} : position'[u] = position[u]
  BY <1>1, <1>4
<1>7. cash' = cash - filler[f].price * Doing(f).quantity
  BY <1>1, BookingFacts DEF Notional
<1> DEFINE n == filler[f].price * Doing(f).quantity
           q == Doing(f).quantity
<1>8. n \in Nat /\ q \in Nat /\ cash \in Int /\ position[t].quantity \in Int
  BY <1>1, <1>4, BookingFacts DEF Notional, Position
<1>9. Sign(orders'[i]) = 1
  BY <1>3 DEF Sign
<1>10. cash' = cash - Sign(orders'[i]) * (orders'[i].price * orders'[i].quantity)
  <2>1. orders'[i].price * orders'[i].quantity = n
    BY <1>3
  <2> HIDE DEF n
  <2> QED BY <1>7, <1>8, <1>9, <2>1 DEF n
<1>11. position'[t].quantity = position[t].quantity + Sign(orders'[i]) * orders'[i].quantity
  BY <1>3, <1>5, <1>6, <1>8, <1>9
<1>12. orders[i].status = "pending"
  BY <1>2 DEF Doing
<1> QED BY <1>2, <1>3, <1>6, <1>10, <1>11, <1>12 DEF Books

LEMMA SellBooks ==
    ASSUME IInv, NEW f \in Fillers, Sell(f)
    PROVE  Books(filler[f].doing)
<1> DEFINE i == filler[f].doing
           t == Doing(f).ticker
           p == Sold(position[t], Doing(f).quantity)
<1>1. filler[f].pc = "booking" /\ Settle(f, "filled") /\ Doing(f).side = "sell"
      /\ cash' = filler[f].cash + Notional(f)
      /\ position' = [position EXCEPT ![t] = p]
      /\ position[t].open /\ position[t].quantity >= Doing(f).quantity
  BY DEF Sell, CanBook
<1>2. /\ Doing(f) \in Order /\ Doing(f).status = "pending"
      /\ orders'[i] = [Doing(f) EXCEPT !.status = "filled", !.price = filler[f].price]
      /\ \A j \in DOMAIN orders \ {i} : orders'[j] = orders[j]
  BY <1>1, SettleFacts
<1>3. orders'[i].status = "filled" /\ orders'[i].ticker = t /\ orders'[i].side = "sell"
      /\ orders'[i].price = filler[f].price /\ orders'[i].quantity = Doing(f).quantity
  BY <1>1, <1>2 DEF Order
<1>4. t \in Tickers /\ position \in [Tickers -> Position] /\ position[t] \in Position
  BY <1>1, BookingFacts
<1>5. p.quantity = position[t].quantity - Doing(f).quantity
  BY <1>1, <1>4, BookingFacts, SoldPosition
<1> HIDE DEF p
<1>6. position'[t] = p /\ \A u \in Tickers \ {t} : position'[u] = position[u]
  BY <1>1, <1>4
<1> DEFINE n == Notional(f)
           q == Doing(f).quantity
<1>7. n \in Nat /\ q \in Nat /\ cash \in Int /\ position[t].quantity \in Int
      /\ cash' = cash + n
  BY <1>1, <1>4, BookingFacts DEF Position
<1>8. Sign(orders'[i]) = -1
  BY <1>3 DEF Sign
<1>9. cash' = cash - Sign(orders'[i]) * (orders'[i].price * orders'[i].quantity)
  <2>1. orders'[i].price * orders'[i].quantity = n
    BY <1>3 DEF Notional
  <2> HIDE DEF n
  <2> QED BY <1>7, <1>8, <2>1
<1>10. position'[t].quantity = position[t].quantity + Sign(orders'[i]) * orders'[i].quantity
  BY <1>3, <1>5, <1>6, <1>7, <1>8
<1>11. orders[i].status = "pending"
  BY <1>2 DEF Doing
<1> QED BY <1>2, <1>3, <1>6, <1>9, <1>10, <1>11 DEF Books

LEMMA StepBooksOnce ==
    ASSUME IInv, [Next]_vars
    PROVE  BookedStep
<1>1. ASSUME cash' = cash, position' = position,
             \A i \in DOMAIN orders : orders'[i] = orders[i]
      PROVE  BookedStep
  BY <1>1 DEF BookedStep
<1>2. CASE UNCHANGED vars
  BY <1>1, <1>2 DEF vars
<1>3. CASE \E side \in {"buy", "sell"}, t \in Tickers, q \in Quantities : Submit(side, t, q)
  <2> PICK side \in {"buy", "sell"}, t \in Tickers, q \in Quantities : Submit(side, t, q)
    BY <1>3
  <2> DEFINE o == [side |-> side, ticker |-> t, quantity |-> q,
                   status |-> "pending", price |-> 0]
  <2>1. orders \in Seq(Order) /\ orders' = Append(orders, o)
    BY DEF IInv, TypeOK, Submit
  <2> HIDE DEF o
  <2>2. \A i \in DOMAIN orders : orders'[i] = orders[i]
    BY <2>1
  <2> QED BY <1>1, <2>2 DEF Submit
<1>4. ASSUME NEW f \in Fillers, Work(f) \/ NoQuote(f) \/ Crash(f)
      PROVE  BookedStep
  <2>1. CASE UNCHANGED <<orders, cash, position>>
    BY <1>1, <2>1
  <2>2. ASSUME filler[f].pc = "booking",
               Settle(f, "filled"), Books(filler[f].doing)
        PROVE  BookedStep
    <3>1. filler[f].doing \in DOMAIN orders
      BY <2>2, SettleFacts
    <3>2. \A i \in DOMAIN orders : orders[i].status # "pending" => orders'[i] = orders[i]
      BY <2>2 DEF Books
    <3> QED BY <2>2, <3>1, <3>2 DEF BookedStep
  <2>3. CASE Buy(f)
    BY <2>2, <2>3, BuyBooks DEF Buy
  <2>4. CASE Sell(f)
    BY <2>2, <2>4, SellBooks DEF Sell
  <2>5. CASE Reject(f)
    <3> DEFINE i == filler[f].doing
    <3>1. filler[f].pc = "booking" /\ Settle(f, "rejected")
          /\ cash' = cash /\ position' = position
      BY <2>5 DEF Reject
    <3>2. /\ Doing(f) \in Order /\ Doing(f).status = "pending"
          /\ orders'[i] = [Doing(f) EXCEPT !.status = "rejected", !.price = 0]
          /\ \A j \in DOMAIN orders \ {i} : orders'[j] = orders[j]
      BY <3>1, SettleFacts
    <3>3. orders'[i].status = "rejected" /\ orders[i].status = "pending"
      BY <3>2 DEF Order, Doing
    <3> QED BY <3>1, <3>2, <3>3 DEF BookedStep
  <2> QED BY <1>4, <2>1, <2>3, <2>4, <2>5
       DEF Work, Select, TickOver, LockOrder, GetQuote, NoQuote, LockPortfolio, Crash
<1> QED BY <1>2, <1>3, <1>4 DEF Next

(* For any number of schedulers, orders and crashes, money and shares move *)
(* only by booking one open order in full, no order is filled without      *)
(* that, and a settled order never changes: nothing is filled twice.       *)
THEOREM BookingHappensOnce == Spec => BookedOnce
<1>1. IInv /\ [Next]_vars => BookedStep
  BY StepBooksOnce
<1>2. IInv /\ [Next]_vars => [BookedStep]_vars
  BY <1>1
<1> QED BY <1>2, Invariance, PTL DEF Spec, BookedOnce, BookedStep

-----------------------------------------------------------------------------
(* The ledger: a booking adds its order to what is filled.                 *)

Costs(os) == [i \in DOMAIN os |-> Sign(os[i]) * (os[i].price * os[i].quantity)]
Moves(os) == [i \in DOMAIN os |-> Sign(os[i]) * os[i].quantity]
FilledOf(os) == {i \in DOMAIN os : os[i].status = "filled"}
FilledFor(os, t) == {i \in FilledOf(os) : os[i].ticker = t}

LEMMA LedgerOfSums ==
    LedgerBalances <=>
        /\ cash = InitialCash - SumFunctionOnSet(Costs(orders), FilledOf(orders))
        /\ \A t \in Tickers :
              position[t].quantity = SumFunctionOnSet(Moves(orders), FilledFor(orders, t))
BY DEF LedgerBalances, Costs, Moves, FilledOf, FilledFor, Filled

(* What is added up is finite and of integers.                             *)
LEMMA Summands ==
    ASSUME NEW os \in Seq(Order)
    PROVE  /\ IsFiniteSet(DOMAIN os) /\ IsFiniteSet(FilledOf(os))
           /\ \A t : IsFiniteSet(FilledFor(os, t))
           /\ \A i \in DOMAIN os :
                 /\ Costs(os)[i] = Sign(os[i]) * (os[i].price * os[i].quantity)
                 /\ Moves(os)[i] = Sign(os[i]) * os[i].quantity
                 /\ Costs(os)[i] \in Int /\ Moves(os)[i] \in Int
<1>1. DOMAIN os = 1..Len(os) /\ Len(os) \in Nat
  OBVIOUS
<1>2. IsFiniteSet(DOMAIN os)
  BY <1>1, FS_Interval
<1>3. IsFiniteSet(FilledOf(os)) /\ \A t : IsFiniteSet(FilledFor(os, t))
  BY <1>2, FS_Subset DEF FilledOf, FilledFor
<1>4. ASSUME NEW i \in DOMAIN os
      PROVE  /\ Costs(os)[i] = Sign(os[i]) * (os[i].price * os[i].quantity)
             /\ Moves(os)[i] = Sign(os[i]) * os[i].quantity
             /\ Costs(os)[i] \in Int /\ Moves(os)[i] \in Int
  <2>1. os[i] \in Order
    OBVIOUS
  <2>2. os[i].price \in Nat /\ os[i].quantity \in Nat
    BY <2>1 DEF Order
  <2> DEFINE n == os[i].price * os[i].quantity
             q == os[i].quantity
  <2>3. n \in Nat
    BY <2>2, ProductNat
  <2>4. /\ Costs(os)[i] = Sign(os[i]) * n
        /\ Moves(os)[i] = Sign(os[i]) * q
    BY DEF Costs, Moves
  <2>5. q \in Nat
    BY <2>2
  <2> HIDE DEF n, q
  <2>6. Sign(os[i]) * n \in Int /\ Sign(os[i]) * q \in Int
    BY <2>3, <2>5 DEF Sign
  <2> QED BY <2>4, <2>6 DEF n, q
<1> QED BY <1>2, <1>3, <1>4

(* Order j becomes filled and the others stay as they are.                 *)
LEMMA OneMoreFilled ==
    ASSUME NEW os \in Seq(Order), NEW ns \in Seq(Order), NEW j \in DOMAIN os,
           DOMAIN ns = DOMAIN os, os[j].status # "filled", ns[j].status = "filled",
           \A i \in DOMAIN os \ {j} : ns[i] = os[i]
    PROVE  /\ SumFunctionOnSet(Costs(ns), FilledOf(ns))
                 = SumFunctionOnSet(Costs(os), FilledOf(os)) + Costs(ns)[j]
           /\ SumFunctionOnSet(Moves(ns), FilledFor(ns, ns[j].ticker))
                 = SumFunctionOnSet(Moves(os), FilledFor(os, ns[j].ticker)) + Moves(ns)[j]
           /\ \A t : t # ns[j].ticker =>
                 SumFunctionOnSet(Moves(ns), FilledFor(ns, t))
                   = SumFunctionOnSet(Moves(os), FilledFor(os, t))
<1>1. /\ FilledOf(ns) = FilledOf(os) \cup {j} /\ j \notin FilledOf(os)
      /\ \A t : j \notin FilledFor(os, t)
      /\ FilledFor(ns, ns[j].ticker) = FilledFor(os, ns[j].ticker) \cup {j}
      /\ \A t : t # ns[j].ticker => FilledFor(ns, t) = FilledFor(os, t)
      /\ \A t : FilledFor(os, t) \subseteq FilledOf(os)
  BY DEF FilledOf, FilledFor
<1>2. \A i \in FilledOf(os) : /\ Costs(os)[i] = Costs(ns)[i] /\ Moves(os)[i] = Moves(ns)[i]
                              /\ Costs(ns)[i] \in Int /\ Moves(ns)[i] \in Int
  <2> SUFFICES ASSUME NEW i \in FilledOf(os)
               PROVE  /\ Costs(os)[i] = Costs(ns)[i] /\ Moves(os)[i] = Moves(ns)[i]
                      /\ Costs(ns)[i] \in Int /\ Moves(ns)[i] \in Int
    OBVIOUS
  <2>1. i \in DOMAIN os \ {j}
    BY <1>1 DEF FilledOf
  <2> QED BY <2>1, Summands DEF Costs, Moves
<1>3. Costs(ns)[j] \in Int /\ Moves(ns)[j] \in Int
  BY Summands
<1>4. IsFiniteSet(FilledOf(os)) /\ \A t : IsFiniteSet(FilledFor(os, t))
  BY Summands
<1>5. SumFunctionOnSet(Costs(ns), FilledOf(os) \cup {j})
        = SumFunctionOnSet(Costs(os), FilledOf(os)) + Costs(ns)[j]
  BY <1>1, <1>2, <1>3, <1>4, SumAdded
<1>6. SumFunctionOnSet(Moves(ns), FilledFor(os, ns[j].ticker) \cup {j})
        = SumFunctionOnSet(Moves(os), FilledFor(os, ns[j].ticker)) + Moves(ns)[j]
  <2> DEFINE S == FilledFor(os, ns[j].ticker)
  <2>1. \A i \in S : Moves(os)[i] = Moves(ns)[i] /\ Moves(ns)[i] \in Int
    BY <1>1, <1>2
  <2>2. IsFiniteSet(S) /\ j \notin S
    BY <1>1, <1>4
  <2> HIDE DEF S
  <2>3. SumFunctionOnSet(Moves(ns), S \cup {j})
        = SumFunctionOnSet(Moves(os), S) + Moves(ns)[j]
    BY <1>3, <2>1, <2>2, SumAdded
  <2> QED BY <2>3 DEF S
<1>7. ASSUME NEW t, t # ns[j].ticker
      PROVE  SumFunctionOnSet(Moves(ns), FilledFor(ns, t))
               = SumFunctionOnSet(Moves(os), FilledFor(os, t))
  <2>1. \A i \in FilledFor(os, t) : Moves(os)[i] = Moves(ns)[i]
    BY <1>1, <1>2
  <2>2. SumFunctionOnSet(Moves(os), FilledFor(os, t))
          = SumFunctionOnSet(Moves(ns), FilledFor(os, t))
    BY <1>4, <2>1, SumSame
  <2>3. FilledFor(ns, t) = FilledFor(os, t)
    BY <1>1, <1>7
  <2> QED BY <2>2, <2>3, Zenon
<1>8. SumFunctionOnSet(Costs(ns), FilledOf(ns))
        = SumFunctionOnSet(Costs(os), FilledOf(os)) + Costs(ns)[j]
  BY <1>1, <1>5, Zenon
<1>9. SumFunctionOnSet(Moves(ns), FilledFor(ns, ns[j].ticker))
        = SumFunctionOnSet(Moves(os), FilledFor(os, ns[j].ticker)) + Moves(ns)[j]
  BY <1>1, <1>6, Zenon
<1> QED BY <1>7, <1>8, <1>9

(* Nothing new is filled.                                                  *)
LEMMA NothingFilled ==
    ASSUME NEW os \in Seq(Order), NEW ns \in Seq(Order), FilledOf(ns) = FilledOf(os),
           \A i \in FilledOf(os) : ns[i] = os[i]
    PROVE  /\ SumFunctionOnSet(Costs(ns), FilledOf(ns))
                 = SumFunctionOnSet(Costs(os), FilledOf(os))
           /\ \A t : SumFunctionOnSet(Moves(ns), FilledFor(ns, t))
                       = SumFunctionOnSet(Moves(os), FilledFor(os, t))
<1>1. \A t : FilledFor(ns, t) = FilledFor(os, t) /\ FilledFor(os, t) \subseteq FilledOf(os)
  BY DEF FilledFor
<1>2. \A i \in FilledOf(os) : Costs(os)[i] = Costs(ns)[i] /\ Moves(os)[i] = Moves(ns)[i]
  BY DEF FilledOf, Costs, Moves
<1>3. IsFiniteSet(FilledOf(os)) /\ \A t : IsFiniteSet(FilledFor(os, t))
  BY Summands
<1>4. SumFunctionOnSet(Costs(os), FilledOf(os)) = SumFunctionOnSet(Costs(ns), FilledOf(os))
  BY <1>2, <1>3, SumSame
<1>5. ASSUME NEW t
      PROVE  SumFunctionOnSet(Moves(ns), FilledFor(ns, t))
               = SumFunctionOnSet(Moves(os), FilledFor(os, t))
  <2>1. \A i \in FilledFor(os, t) : Moves(os)[i] = Moves(ns)[i]
    BY <1>1, <1>2
  <2>2. SumFunctionOnSet(Moves(os), FilledFor(os, t))
          = SumFunctionOnSet(Moves(ns), FilledFor(os, t))
    BY <1>3, <2>1, SumSame
  <2>3. FilledFor(ns, t) = FilledFor(os, t)
    BY <1>1
  <2> QED BY <2>2, <2>3, Zenon
<1>6. SumFunctionOnSet(Costs(ns), FilledOf(ns)) = SumFunctionOnSet(Costs(os), FilledOf(os))
  BY <1>4, Zenon
<1> QED BY <1>5, <1>6

(* The table of orders only grows, by open ones.                           *)
LEMMA OrdersGrow ==
    ASSUME IInv, [Next]_vars
    PROVE  /\ DOMAIN orders \subseteq DOMAIN orders'
           /\ \A i \in DOMAIN orders' \ DOMAIN orders : orders'[i].status = "pending"
           /\ \/ DOMAIN orders' = DOMAIN orders
              \/ cash' = cash /\ position' = position
                 /\ \A i \in DOMAIN orders : orders'[i] = orders[i]
<1>1. CASE DOMAIN orders' = DOMAIN orders
  BY <1>1
<1>2. CASE \E side \in {"buy", "sell"}, t \in Tickers, q \in Quantities : Submit(side, t, q)
  <2> PICK side \in {"buy", "sell"}, t \in Tickers, q \in Quantities : Submit(side, t, q)
    BY <1>2
  <2> DEFINE o == [side |-> side, ticker |-> t, quantity |-> q,
                   status |-> "pending", price |-> 0]
  <2>1. orders \in Seq(Order) /\ orders' = Append(orders, o) /\ o.status = "pending"
        /\ cash' = cash /\ position' = position
    BY DEF IInv, TypeOK, Submit
  <2> HIDE DEF o
  <2> QED BY <2>1
<1>3. ASSUME NEW f \in Fillers, Work(f) \/ NoQuote(f) \/ Crash(f)
      PROVE  DOMAIN orders' = DOMAIN orders
  BY <1>3 DEF IInv, TypeOK, Work, Select, TickOver, LockOrder, GetQuote, NoQuote,
              LockPortfolio, Buy, Sell, Reject, Settle, Crash
<1>4. CASE UNCHANGED vars
  BY <1>4 DEF vars
<1> QED BY <1>1, <1>2, <1>3, <1>4 DEF Next

LEMMA InitLedger == Init => LedgerBalances
<1> SUFFICES ASSUME Init PROVE LedgerBalances
  OBVIOUS
<1>1. orders = <<>> /\ FilledOf(orders) = {} /\ \A t : FilledFor(orders, t) = {}
  BY DEF Init, FilledOf, FilledFor
<1>2. IsFiniteSet({}) /\ \A x \in {} : x = 0
  BY FS_EmptySet
<1>3. \A f : SumFunctionOnSet(f, {}) = 0
  BY <1>2, SumZero
<1>4. cash = InitialCash - SumFunctionOnSet(Costs(orders), FilledOf(orders))
  <2>1. SumFunctionOnSet(Costs(orders), FilledOf(orders)) = 0
    BY <1>1, <1>3, Zenon
  <2> QED BY <2>1, PaperAssumption DEF Init
<1>5. ASSUME NEW t \in Tickers
      PROVE  position[t].quantity = SumFunctionOnSet(Moves(orders), FilledFor(orders, t))
  <2>1. SumFunctionOnSet(Moves(orders), FilledFor(orders, t)) = 0
    BY <1>1, <1>3, Zenon
  <2>2. position[t].quantity = 0
    BY DEF Init, NoPosition
  <2> QED BY <2>1, <2>2
<1> QED BY <1>4, <1>5, LedgerOfSums

LEMMA StepKeepsLedger ==
    ASSUME IInv, LedgerBalances, [Next]_vars
    PROVE  LedgerBalances'
<1>1. orders \in Seq(Order) /\ orders' \in Seq(Order) /\ cash \in Int
      /\ InitialCash \in Int /\ position \in [Tickers -> Position]
  BY NextKeepsIInv, PaperAssumption DEF IInv, TypeOK
<1> DEFINE paid == SumFunctionOnSet(Costs(orders), FilledOf(orders))
           held(t) == SumFunctionOnSet(Moves(orders), FilledFor(orders, t))
<1>2. cash = InitialCash - paid /\ \A t \in Tickers : position[t].quantity = held(t)
  BY LedgerOfSums
<1>0. (/\ cash' = InitialCash - SumFunctionOnSet(Costs(orders'), FilledOf(orders'))
       /\ \A t \in Tickers :
             position'[t].quantity = SumFunctionOnSet(Moves(orders'), FilledFor(orders', t)))
      => LedgerBalances'
  BY DEF LedgerBalances, Filled, Costs, Moves, FilledOf, FilledFor
<1>3. CASE \E j \in DOMAIN orders : Books(j)
  <2> PICK j \in DOMAIN orders : Books(j)
    BY <1>3
  <2> DEFINE o == orders'[j]
  <2>1. DOMAIN orders' = DOMAIN orders
    <3>1. CASE cash' = cash /\ \A i \in DOMAIN orders : orders'[i] = orders[i]
      BY <3>1 DEF Books
    <3> QED BY <3>1, OrdersGrow
  <2>2. /\ orders[j].status # "filled" /\ orders'[j].status = "filled"
        /\ \A i \in DOMAIN orders \ {j} : orders'[i] = orders[i]
    BY DEF Books
  <2>3. Costs(orders')[j] = Sign(o) * (o.price * o.quantity) /\ Costs(orders')[j] \in Int
        /\ Moves(orders')[j] = Sign(o) * o.quantity /\ Moves(orders')[j] \in Int
    BY <1>1, <2>1, Summands
  <2>4. /\ SumFunctionOnSet(Costs(orders'), FilledOf(orders')) = paid + Costs(orders')[j]
        /\ SumFunctionOnSet(Moves(orders'), FilledFor(orders', o.ticker))
               = held(o.ticker) + Moves(orders')[j]
        /\ \A t : t # o.ticker =>
               SumFunctionOnSet(Moves(orders'), FilledFor(orders', t)) = held(t)
    BY <1>1, <2>1, <2>2, OneMoreFilled
  <2>5. o \in Order /\ o.ticker \in Tickers
    <3>1. o \in Order
      BY <1>1, <2>1
    <3> QED BY <3>1 DEF Order
  <2>6. paid \in Int
    <3>1. IsFiniteSet(FilledOf(orders)) /\ \A i \in FilledOf(orders) : Costs(orders)[i] \in Int
      BY <1>1, Summands DEF FilledOf
    <3> QED BY <3>1, SumType
  <2>7. cash' = cash - Costs(orders')[j]
    BY <2>3 DEF Books
  <2>8. position'[o.ticker].quantity = position[o.ticker].quantity + Moves(orders')[j]
        /\ \A t \in Tickers \ {o.ticker} : position'[t] = position[t]
    BY <2>3 DEF Books
  <2> HIDE DEF paid, held, o
  <2>9. cash' = InitialCash - (paid + Costs(orders')[j])
    BY <1>1, <1>2, <2>3, <2>6, <2>7
  <2>10. cash' = InitialCash - SumFunctionOnSet(Costs(orders'), FilledOf(orders'))
    BY <2>4, <2>9
  <2>11. \A t \in Tickers :
            position'[t].quantity = SumFunctionOnSet(Moves(orders'), FilledFor(orders', t))
    BY <1>2, <2>4, <2>5, <2>8
  <2> QED BY <1>0, <2>10, <2>11
<1>4. CASE ~ \E j \in DOMAIN orders : Books(j)
  <2>1. /\ cash' = cash /\ position' = position
        /\ \A i \in DOMAIN orders :
              orders'[i].status = "filled" => orders[i].status = "filled"
        /\ \A i \in DOMAIN orders : orders[i].status # "pending" => orders'[i] = orders[i]
    BY <1>4, StepBooksOnce DEF BookedStep
  <2>2. FilledOf(orders') = FilledOf(orders)
        /\ \A i \in FilledOf(orders) : orders'[i] = orders[i]
    BY <2>1, OrdersGrow DEF FilledOf
  <2>3. /\ SumFunctionOnSet(Costs(orders'), FilledOf(orders')) = paid
        /\ \A t : SumFunctionOnSet(Moves(orders'), FilledFor(orders', t)) = held(t)
    BY <1>1, <2>2, NothingFilled
  <2> HIDE DEF paid, held
  <2>4. cash' = InitialCash - SumFunctionOnSet(Costs(orders'), FilledOf(orders'))
    BY <1>2, <2>1, <2>3, Zenon
  <2>5. \A t \in Tickers :
            position'[t].quantity = SumFunctionOnSet(Moves(orders'), FilledFor(orders', t))
    BY <1>2, <2>1, <2>3, Zenon
  <2> QED BY <1>0, <2>4, <2>5
<1> QED BY <1>3, <1>4

(* Cash and shares are what the filled orders add up to, each at the price *)
(* it shows, however many schedulers fill and die.                         *)
THEOREM BooksBalance == Spec => []LedgerBalances
<1>1. IInv /\ LedgerBalances /\ [Next]_vars => LedgerBalances'
  BY StepKeepsLedger
<1> QED BY <1>1, InitLedger, Invariance, PTL DEF Spec

=============================================================================
