---------------------------- MODULE PaperFiller ----------------------------
(***************************************************************************)
(* The paper book: orders submitted through api/routes/paper.py against    *)
(* one portfolio, filled by any number of schedulers                       *)
(* (workers/paper_scheduler.py) running services/paper_filler.py.  Each    *)
(* order is a transaction of its own: lock the order, look at it again,    *)
(* ask for a quote, lock the portfolio, book.  Row locks (SELECT ... FOR   *)
(* UPDATE) are held to the end of the transaction; what was read under     *)
(* them is kept in the session and written back at commit.  The quote      *)
(* service is external: it answers with a price, with nothing, or raises.  *)
(*                                                                         *)
(* Portfolio and tickers are independent of each other in this code except *)
(* for the cash they share, so one portfolio is modelled.  Prices and      *)
(* quantities are integers (cents and shares).                             *)
(***************************************************************************)
EXTENDS Integers, Sequences, FiniteSetsExt

CONSTANTS
    Fillers,      \* schedulers
    Tickers,
    Quantities,   \* order sizes
    Quotes,       \* prices the quote service may give
    InitialCash,  \* cash_cents of a new portfolio
    Batch,        \* _MAX_FILLS_PER_TICK
    QuoteFails,   \* may the quote service have no price, or raise?
    MaxOrders     \* bound on the orders submitted

ASSUME PaperAssumption ==
    /\ Quantities \subseteq Nat \ {0}
    /\ Quotes \subseteq Nat \ {0}
    /\ InitialCash \in Nat
    /\ Batch \in Nat \ {0}
    /\ QuoteFails \in BOOLEAN
    /\ MaxOrders \in Nat

VARIABLES
    orders,    \* paper_orders, in the order of submitted_at
    cash,      \* paper_portfolios.cash_cents
    position,  \* the open paper_positions row of each ticker
    filler     \* what each scheduler is doing

vars == <<orders, cash, position, filler>>

-----------------------------------------------------------------------------
Order == [side: {"buy", "sell"}, ticker: Tickers, quantity: Nat \ {0},
          status: {"pending", "filled", "rejected"}, price: Nat]
Position == [open: BOOLEAN, quantity: Int, avgCost: Nat]
NoPosition == [open |-> FALSE, quantity |-> 0, avgCost |-> 0]

(* batch: candidates not looked at yet; doing: the order whose row lock is *)
(* held from "quoting" on; cash: cash_cents as read under the portfolio's  *)
(* lock, which is held in "booking".                                       *)
Filler == [pc: {"idle", "next", "quoting", "quoted", "booking"},
           batch: SUBSET Nat, doing: Nat, price: Nat, cash: Int]
Resting == [pc |-> "idle", batch |-> {}, doing |-> 0, price |-> 0, cash |-> 0]

TypeOK ==
    /\ orders \in Seq(Order)
    /\ cash \in Int
    /\ position \in [Tickers -> Position]
    /\ filler \in [Fillers -> Filler]

Init ==
    /\ orders = <<>> /\ cash = InitialCash
    /\ position = [t \in Tickers |-> NoPosition]
    /\ filler = [f \in Fillers |-> Resting]

-----------------------------------------------------------------------------
(* create_paper_order: a sell needs an open position at this moment; what  *)
(* other sells already ask of it is not looked at.                         *)
Submit(side, t, q) ==
    /\ Len(orders) < MaxOrders
    /\ side = "sell" => position[t].open /\ position[t].quantity > 0
    /\ orders' = Append(orders, [side |-> side, ticker |-> t, quantity |-> q,
                                 status |-> "pending", price |-> 0])
    /\ UNCHANGED <<cash, position, filler>>

-----------------------------------------------------------------------------
Open == {i \in DOMAIN orders : orders[i].status = "pending"}

(* _select_candidate_order_ids: the oldest open orders, at most Batch.     *)
Candidates == {i \in Open : Cardinality({j \in Open : j < i}) < Batch}

(* A tick of run_once while the market is open.                            *)
Select(f) ==
    /\ filler[f].pc = "idle"
    /\ filler' = [filler EXCEPT ![f].pc = "next", ![f].batch = Candidates]
    /\ UNCHANGED <<orders, cash, position>>

(* The tick is over.                                                       *)
TickOver(f) ==
    /\ filler[f].pc = "next" /\ filler[f].batch = {}
    /\ filler' = [filler EXCEPT ![f] = Resting]
    /\ UNCHANGED <<orders, cash, position>>

(* The row lock of order i is taken.                                       *)
OrderLocked(i) ==
    \E g \in Fillers : filler[g].pc \in {"quoting", "quoted", "booking"} /\ filler[g].doing = i

(* Mutant of LockOrder: no FOR UPDATE.                                     *)
LockOrderUnlocked(f) ==
    \E i \in filler[f].batch :
        /\ filler[f].pc = "next" /\ \A j \in filler[f].batch : i <= j
        /\ filler' = [filler EXCEPT ![f].batch = @ \ {i}, ![f].doing = i,
               ![f].pc = IF orders[i].status = "pending" THEN "quoting" ELSE "next"]
        /\ UNCHANGED <<orders, cash, position>>

(* _lock_order and the second look at the order: skipped if no longer open.*)
LockOrder(f) ==
    \E i \in filler[f].batch :
        /\ filler[f].pc = "next" /\ \A j \in filler[f].batch : i <= j
        /\ ~OrderLocked(i)
        /\ filler' = [filler EXCEPT ![f].batch = @ \ {i}, ![f].doing = i,
               ![f].pc = IF orders[i].status = "pending" THEN "quoting" ELSE "next"]
        /\ UNCHANGED <<orders, cash, position>>

GetQuote(f, p) ==
    /\ filler[f].pc = "quoting"
    /\ filler' = [filler EXCEPT ![f].pc = "quoted", ![f].price = p]
    /\ UNCHANGED <<orders, cash, position>>

(* No quote, or an exception: the transaction ends, the order stays open.  *)
NoQuote(f) ==
    /\ QuoteFails
    /\ filler[f].pc = "quoting"
    /\ filler' = [filler EXCEPT ![f].pc = "next"]
    /\ UNCHANGED <<orders, cash, position>>

(* Mutant of LockPortfolio: no FOR UPDATE.                                 *)
LockPortfolioUnlocked(f) ==
    /\ filler[f].pc = "quoted"
    /\ filler' = [filler EXCEPT ![f].pc = "booking", ![f].cash = cash]
    /\ UNCHANGED <<orders, cash, position>>

(* _lock_portfolio                                                         *)
LockPortfolio(f) ==
    /\ filler[f].pc = "quoted"
    /\ \A g \in Fillers : filler[g].pc # "booking"
    /\ filler' = [filler EXCEPT ![f].pc = "booking", ![f].cash = cash]
    /\ UNCHANGED <<orders, cash, position>>

-----------------------------------------------------------------------------
(* The booking.                                                            *)

Doing(f) == orders[filler[f].doing]
Notional(f) == filler[f].price * Doing(f).quantity

(* The order is settled and the scheduler goes on to the next.             *)
Settle(f, status) ==
    /\ orders' = [orders EXCEPT ![filler[f].doing] =
           [@ EXCEPT !.status = status,
                     !.price = IF status = "filled" THEN filler[f].price ELSE 0]]
    /\ filler' = [filler EXCEPT ![f].pc = "next"]

(* Mutant of CanBook: nobody counts the shares.                            *)
CanBookShort(f) ==
    IF Doing(f).side = "buy" THEN filler[f].cash >= Notional(f)
    ELSE position[Doing(f).ticker].open

(* Enough cash, or enough shares of an open position.                      *)
CanBook(f) ==
    IF Doing(f).side = "buy" THEN filler[f].cash >= Notional(f)
    ELSE /\ position[Doing(f).ticker].open
         /\ position[Doing(f).ticker].quantity >= Doing(f).quantity

(* A first buy opens the position, another one blends the cost, rounding   *)
(* down.                                                                   *)
Bought(p, q, price) ==
    IF p.open
    THEN [open |-> TRUE, quantity |-> p.quantity + q,
          avgCost |-> (p.avgCost * p.quantity + price * q) \div (p.quantity + q)]
    ELSE [open |-> TRUE, quantity |-> q, avgCost |-> price]

(* A sell that leaves nothing closes the position.                         *)
Sold(p, q) == IF p.quantity = q THEN NoPosition ELSE [p EXCEPT !.quantity = @ - q]

Buy(f) ==
    /\ filler[f].pc = "booking" /\ Doing(f).side = "buy" /\ CanBook(f)
    /\ cash' = filler[f].cash - Notional(f)
    /\ position' = [position EXCEPT ![Doing(f).ticker] =
           Bought(@, Doing(f).quantity, filler[f].price)]
    /\ Settle(f, "filled")

Sell(f) ==
    /\ filler[f].pc = "booking" /\ Doing(f).side = "sell" /\ CanBook(f)
    /\ cash' = filler[f].cash + Notional(f)
    /\ position' = [position EXCEPT ![Doing(f).ticker] = Sold(@, Doing(f).quantity)]
    /\ Settle(f, "filled")

(* Mutants of Reject: the order is left as it is; the reason is written as *)
(* its status.                                                             *)
RejectKeepsOpen(f) ==
    /\ filler[f].pc = "booking" /\ ~CanBook(f)
    /\ filler' = [filler EXCEPT ![f].pc = "next"]
    /\ UNCHANGED <<orders, cash, position>>

RejectReason(f) ==
    /\ filler[f].pc = "booking" /\ ~CanBook(f)
    /\ Settle(f, "insufficient cash")
    /\ UNCHANGED <<cash, position>>

Reject(f) ==
    /\ filler[f].pc = "booking" /\ ~CanBook(f)
    /\ Settle(f, "rejected")
    /\ UNCHANGED <<cash, position>>

(* The scheduler dies, or the transaction fails: everything is rolled back.*)
Crash(f) ==
    /\ filler[f].pc # "idle"
    /\ filler' = [filler EXCEPT ![f] = Resting]
    /\ UNCHANGED <<orders, cash, position>>

-----------------------------------------------------------------------------
Work(f) ==
    \/ Select(f) \/ TickOver(f) \/ LockOrder(f)
    \/ \E p \in Quotes : GetQuote(f, p)
    \/ LockPortfolio(f) \/ Buy(f) \/ Sell(f) \/ Reject(f)

Next ==
    \/ \E side \in {"buy", "sell"}, t \in Tickers, q \in Quantities : Submit(side, t, q)
    \/ \E f \in Fillers : Work(f) \/ NoQuote(f) \/ Crash(f)

Spec == Init /\ [][Next]_vars

(* A scheduler keeps ticking, and does not fail for ever: once it holds an *)
(* order's lock, the order is settled in infinitely many of its attempts.  *)
Fairness ==
    \A f \in Fillers :
        /\ WF_vars(Select(f)) /\ WF_vars(TickOver(f))
        /\ SF_vars(LockOrder(f)) /\ SF_vars(\E p \in Quotes : GetQuote(f, p))
        /\ SF_vars(LockPortfolio(f)) /\ SF_vars(Buy(f) \/ Sell(f) \/ Reject(f))

-----------------------------------------------------------------------------
(* The book never owes: no negative cash, no short position, and a         *)
(* position row is open exactly as long as it holds shares, though sells   *)
(* are accepted without counting those already waiting.                    *)
Solvent ==
    /\ cash >= 0
    /\ \A t \in Tickers : position[t].quantity >= 0
                          /\ (position[t].open <=> position[t].quantity > 0)

(* The state has its type, and the book never owes.                        *)
PaperInv == TypeOK /\ Solvent

Sign(o) == IF o.side = "buy" THEN 1 ELSE -1
Filled == {i \in DOMAIN orders : orders[i].status = "filled"}

(* Cash and shares are what the filled orders say, each booked once, at    *)
(* the price it shows, whoever crashed and whoever else was filling:       *)
(* "concurrent schedulers cannot double-fill" (paper_filler.py:70).        *)
LedgerBalances ==
    /\ cash = InitialCash
              - SumFunctionOnSet([i \in DOMAIN orders |->
                    Sign(orders[i]) * (orders[i].price * orders[i].quantity)], Filled)
    /\ \A t \in Tickers :
          position[t].quantity =
              SumFunctionOnSet([i \in DOMAIN orders |-> Sign(orders[i]) * orders[i].quantity],
                               {i \in Filled : orders[i].ticker = t})

(* The step books order i: its cash, its shares, and nothing else.         *)
Books(i) ==
    LET o == orders'[i] IN
    /\ orders[i].status = "pending" /\ o.status = "filled"
    /\ cash' = cash - Sign(o) * (o.price * o.quantity)
    /\ position'[o.ticker].quantity = position[o.ticker].quantity + Sign(o) * o.quantity
    /\ \A t \in Tickers \ {o.ticker} : position'[t] = position[t]
    /\ \A j \in DOMAIN orders \ {i} : orders'[j] = orders[j]

(* Money and shares move only by booking an open order in full, one at a   *)
(* time, and no order is filled without moving them; a settled order never *)
(* changes again.                                                          *)
BookedOnce ==
    [][/\ \/ \E i \in DOMAIN orders : Books(i)
          \/ /\ cash' = cash /\ position' = position
             /\ \A i \in DOMAIN orders :
                   orders'[i].status = "filled" => orders[i].status = "filled"
       /\ \A i \in DOMAIN orders : orders[i].status # "pending" => orders'[i] = orders[i]]_vars

(* Every order is filled or rejected at last: once no more are submitted   *)
(* none is open, whatever quotes are missing and whichever scheduler dies  *)
(* with an order locked.                                                   *)
OrdersSettle == <>[](Open = {})

=============================================================================
