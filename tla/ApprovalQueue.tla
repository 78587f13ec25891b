--------------------------- MODULE ApprovalQueue ----------------------------
(***************************************************************************)
(* The human-in-the-loop approval queue: rows of pending_approvals shared  *)
(* by the strategy runner's request_approval (approval_queue.py), the      *)
(* approve and reject endpoints (api/routes/approvals.py) and the expiry   *)
(* sweeper (approval_expiry_sweeper.py).  Each reads a clock, reads the    *)
(* row and writes it in separate steps, so the three can interleave.       *)
(*                                                                         *)
(* Granularity: one step per SQL statement that other sessions can         *)
(* observe.  An UPDATE and the COMMIT that follows it are one step: until  *)
(* the commit readers still see the old row and other writers wait on its  *)
(* lock.  A conditional UPDATE re-checks its WHERE on the current row; an  *)
(* ORM flush writes by primary key only.                                   *)
(***************************************************************************)
EXTENDS Naturals

CONSTANTS
    Requests,        \* approval requests, one pending_approvals row each
    Handlers,        \* calls of the approve / reject endpoints
    Modes,           \* run modes in use, a subset of {"paper", "live"}
    PaperDelay,      \* auto_approve_after_seconds > 0
    SweeperEnabled,  \* Settings.approval_expiry_sweeper_enabled
    ExpiresAfter,    \* live_expires_after_seconds, in clock ticks
    MaxTime          \* bound on the clock

ASSUME ConstantsAssumption ==
    /\ Modes \subseteq {"paper", "live"}
    /\ PaperDelay \in BOOLEAN
    /\ SweeperEnabled \in BOOLEAN
    /\ ExpiresAfter \in Nat \ {0}
    /\ MaxTime \in Nat \ {0}

VARIABLES
    now,       \* wall clock
    row,       \* row[r]: the pending_approvals row of r
    runner,    \* runner[r]: the request_approval call for r
    handler,   \* handler[h]: one call of _decide
    sweep      \* the sweeper's current pass

vars == <<now, row, runner, handler, sweep>>

-----------------------------------------------------------------------------
Decisions == {"approved", "rejected", "expired"}
Deciders == {"nobody", "auto", "human"}

Row == [status: Decisions \cup {"absent", "pending"}, by: Deciders, at: Nat,
        mode: {"paper", "live", "none"}, expires: Nat]

(* 0 stands for NULL in `at` and `expires`; the clock starts at 1.         *)
NoRow == [status |-> "absent", by |-> "nobody", at |-> 0,
          mode |-> "none", expires |-> 0]

RunnerPC == {"idle", "sleeping", "reading", "writing", "answered", "crashed"}
Runner == [pc: RunnerPC, t: Nat, answer: Decisions \cup {"none"},
           by: Deciders, at: Nat]
NewRunner == [pc |-> "idle", t |-> 0, answer |-> "none",
              by |-> "nobody", at |-> 0]

Replies == {"none", "approved", "rejected", "expired", "already_decided",
            "not_found"}
HandlerPC == {"idle", "update", "lookup", "expire", "reread", "replied"}
Handler == [pc: HandlerPC, req: Requests, want: {"approved", "rejected"},
            t: Nat, reply: Replies]

Sweep == [pc: {"idle", "writing"}, t: Nat, batch: SUBSET Requests]

TypeOK ==
    /\ now \in Nat
    /\ row \in [Requests -> Row]
    /\ runner \in [Requests -> Runner]
    /\ handler \in [Handlers -> Handler]
    /\ sweep \in Sweep

(* Set the three decision columns of a row.                                *)
Settled(x, status, by, t) == [x EXCEPT !.status = status, !.by = by, !.at = t]

(* expires_at is set and has passed at t.                                  *)
Overdue(x, t) == x.expires # 0 /\ x.expires <= t

NewRow(status, by, at, mode, expires) ==
    [status |-> status, by |-> by, at |-> at, mode |-> mode, expires |-> expires]

Init ==
    /\ now = 1
    /\ row = [r \in Requests |-> NoRow]
    /\ runner = [r \in Requests |-> NewRunner]
    /\ handler \in [Handlers -> [pc: {"idle"}, req: Requests,
                                 want: {"approved", "rejected"},
                                 t: {0}, reply: {"none"}]]
    /\ sweep = [pc |-> "idle", t |-> 0, batch |-> {}]

-----------------------------------------------------------------------------
(* request_approval, called by the runner.                                 *)

(* The call returns an ApprovalDecision copied from row x.                 *)
Returned(x, answer, by, at) ==
    [x EXCEPT !.pc = "answered", !.answer = answer, !.by = by, !.at = at]

(* Paper with no delay: the row is inserted approved and returned.         *)
RequestPaperNow(r) ==
    /\ runner[r].pc = "idle"
    /\ "paper" \in Modes
    /\ ~PaperDelay
    /\ row' = [row EXCEPT ![r] = NewRow("approved", "auto", now, "paper", 0)]
    /\ runner' = [runner EXCEPT ![r] = Returned(@, "approved", "auto", now)]
    /\ UNCHANGED <<now, handler, sweep>>

(* Paper with a delay: insert pending, never expires, sleep.               *)
RequestPaperDelayed(r) ==
    /\ runner[r].pc = "idle"
    /\ "paper" \in Modes
    /\ PaperDelay
    /\ row' = [row EXCEPT ![r] = NewRow("pending", "nobody", 0, "paper", 0)]
    /\ runner' = [runner EXCEPT ![r].pc = "sleeping"]
    /\ UNCHANGED <<now, handler, sweep>>

(* Live: insert pending with a deadline, then poll.  The bounded clock only *)
(* admits requests whose deadline it can reach.                            *)
RequestLive(r) ==
    /\ runner[r].pc = "idle"
    /\ "live" \in Modes
    /\ now + ExpiresAfter <= MaxTime
    /\ row' = [row EXCEPT ![r] = NewRow("pending", "nobody", 0, "live",
                                        now + ExpiresAfter)]
    /\ runner' = [runner EXCEPT ![r].pc = "sleeping"]
    /\ UNCHANGED <<now, handler, sweep>>

(* asyncio.sleep is over: read the clock, before the row.                  *)
Wake(r) ==
    /\ runner[r].pc = "sleeping"
    /\ runner' = [runner EXCEPT ![r].pc = "reading", ![r].t = now]
    /\ UNCHANGED <<now, row, handler, sweep>>

(* Mutant of ReadDecided: the poll loop forgets to test for "pending".     *)
ReadDecidedUnchecked(r) ==
    /\ runner[r].pc = "reading"
    /\ runner' = [runner EXCEPT ![r] =
                    Returned(@, row[r].status, row[r].by, row[r].at)]
    /\ UNCHANGED <<now, row, handler, sweep>>

(* Mutant of ReadDecided: the poll loop knows human decisions only and     *)
(* sleeps on over a row that the sweeper expired.                          *)
ReadDecidedByHumans(r) ==
    /\ runner[r].pc = "reading"
    /\ row[r].status # "pending"
    /\ runner' = [runner EXCEPT ![r] =
           IF row[r].status = "expired" THEN [@ EXCEPT !.pc = "sleeping"]
           ELSE Returned(@, row[r].status, row[r].by, row[r].at)]
    /\ UNCHANGED <<now, row, handler, sweep>>

(* The SELECT finds the row decided: return what it says.                  *)
ReadDecided(r) ==
    /\ runner[r].pc = "reading"
    /\ row[r].status # "pending"
    /\ runner' = [runner EXCEPT ![r] =
                    Returned(@, row[r].status, row[r].by, row[r].at)]
    /\ UNCHANGED <<now, row, handler, sweep>>

(* The SELECT finds the row pending: a live call before its deadline       *)
(* sleeps again; a paper call, or an overdue live one, goes on to write.   *)
ReadPending(r) ==
    /\ runner[r].pc = "reading"
    /\ row[r].status = "pending"
    /\ runner' = [runner EXCEPT ![r].pc =
                    IF row[r].mode = "live" /\ ~Overdue(row[r], runner[r].t)
                    THEN "sleeping" ELSE "writing"]
    /\ UNCHANGED <<now, row, handler, sweep>>

(* Paper: the ORM object is flushed by primary key, whatever happened to   *)
(* the row since it was read.                                              *)
SelfApprove(r) ==
    /\ runner[r].pc = "writing"
    /\ row[r].mode = "paper"
    /\ row' = [row EXCEPT ![r] = Settled(@, "approved", "auto", runner[r].t)]
    /\ runner' = [runner EXCEPT ![r] =
                    Returned(@, "approved", "auto", runner[r].t)]
    /\ UNCHANGED <<now, handler, sweep>>

(* Mutant of SelfExpire: the UPDATE lost its status = 'pending' clause.    *)
SelfExpireUnguarded(r) ==
    /\ runner[r].pc = "writing"
    /\ row[r].mode = "live"
    /\ row' = [row EXCEPT ![r] = Settled(@, "expired", "auto", runner[r].t)]
    /\ runner' = [runner EXCEPT ![r] =
                    Returned(@, "expired", "auto", runner[r].t)]
    /\ UNCHANGED <<now, handler, sweep>>

(* Live, overdue: UPDATE ... WHERE status = 'pending' matches.             *)
SelfExpire(r) ==
    /\ runner[r].pc = "writing"
    /\ row[r].mode = "live"
    /\ row[r].status = "pending"
    /\ row' = [row EXCEPT ![r] = Settled(@, "expired", "auto", runner[r].t)]
    /\ runner' = [runner EXCEPT ![r] =
                    Returned(@, "expired", "auto", runner[r].t)]
    /\ UNCHANGED <<now, handler, sweep>>

(* Live, overdue, but the row was decided in between (rowcount 0): the     *)
(* code selects the row again.  Whether that SELECT refreshes the object   *)
(* the session already holds, which the ORM UPDATE has just set to         *)
(* "expired" in memory (expire_on_commit is False), is the library's       *)
(* business, so both answers are allowed.                                  *)
SelfExpireLost(r) ==
    /\ runner[r].pc = "writing"
    /\ row[r].mode = "live"
    /\ row[r].status # "pending"
    /\ \/ runner' = [runner EXCEPT ![r] =
                        Returned(@, row[r].status, row[r].by, row[r].at)]
       \/ runner' = [runner EXCEPT ![r] =
                        Returned(@, "expired", "auto", runner[r].t)]
    /\ UNCHANGED <<now, row, handler, sweep>>

(* The runner's process dies while the request is out.                     *)
RunnerCrash(r) ==
    /\ runner[r].pc \in {"sleeping", "reading", "writing"}
    /\ runner' = [runner EXCEPT ![r].pc = "crashed"]
    /\ UNCHANGED <<now, row, handler, sweep>>

-----------------------------------------------------------------------------
(* _decide: one call of the approve or reject endpoint.                    *)

(* The handler reads the clock; the row id comes from the caller.          *)
DecideStart(h) ==
    /\ handler[h].pc = "idle"
    /\ handler' = [handler EXCEPT ![h].pc = "update", ![h].t = now]
    /\ UNCHANGED <<now, row, runner, sweep>>

(* Mutants of Decidable: the WHERE clause without its expiry test, and      *)
(* without its status test.                                                *)
DecidableStale(x, t) == x.status = "pending"
DecidableTwice(x, t) == x.status # "absent" /\ ~Overdue(x, t)

(* The WHERE clause of the conditional UPDATE.                             *)
Decidable(x, t) == x.status = "pending" /\ ~Overdue(x, t)

DecideUpdate(h) ==
    LET c == handler[h] IN
    /\ c.pc = "update"
    /\ IF Decidable(row[c.req], c.t)
       THEN /\ row' = [row EXCEPT ![c.req] = Settled(@, c.want, "human", c.t)]
            /\ handler' = [handler EXCEPT ![h].pc = "reread"]
       ELSE /\ handler' = [handler EXCEPT ![h].pc = "lookup"]
            /\ UNCHANGED row
    /\ UNCHANGED <<now, runner, sweep>>

(* After the commit the handler reads the row back and returns it.         *)
DecideReread(h) ==
    LET c == handler[h] IN
    /\ c.pc = "reread"
    /\ handler' = [handler EXCEPT ![h].pc = "replied",
                                  ![h].reply = row[c.req].status]
    /\ UNCHANGED <<now, row, runner, sweep>>

(* rowcount 0: find out why.  A missing row is 404, an overdue pending one *)
(* is expired first, anything else is 422 already_decided.                 *)
DecideLookup(h) ==
    LET c == handler[h] IN
    /\ c.pc = "lookup"
    /\ IF row[c.req].status = "pending" /\ Overdue(row[c.req], c.t)
       THEN handler' = [handler EXCEPT ![h].pc = "expire"]
       ELSE handler' = [handler EXCEPT
                ![h].pc = "replied",
                ![h].reply = IF row[c.req].status = "absent"
                             THEN "not_found" ELSE "already_decided"]
    /\ UNCHANGED <<now, row, runner, sweep>>

(* Mutant of DecideExpire: the late expiry writes by primary key.          *)
DecideExpireUnguarded(h) ==
    LET c == handler[h] IN
    /\ c.pc = "expire"
    /\ row' = [row EXCEPT ![c.req] = Settled(@, "expired", "auto", c.t)]
    /\ handler' = [handler EXCEPT ![h].pc = "replied", ![h].reply = "expired"]
    /\ UNCHANGED <<now, runner, sweep>>

(* The late expiry, again conditional on the row being pending.            *)
DecideExpire(h) ==
    LET c == handler[h] IN
    /\ c.pc = "expire"
    /\ row' = IF row[c.req].status = "pending"
              THEN [row EXCEPT ![c.req] = Settled(@, "expired", "auto", c.t)]
              ELSE row
    /\ handler' = [handler EXCEPT ![h].pc = "replied", ![h].reply = "expired"]
    /\ UNCHANGED <<now, runner, sweep>>

-----------------------------------------------------------------------------
(* ApprovalExpirySweeper.run_once.                                         *)

(* Mutant of SweepSelects: the mode filter is the wrong way round.         *)
SweepSelectsPaper(t) ==
    {r \in Requests : /\ row[r].status = "pending"
                      /\ row[r].mode = "paper"
                      /\ Overdue(row[r], t)}

(* The WHERE clause of the sweeper's SELECT.                               *)
SweepSelects(t) ==
    {r \in Requests : /\ row[r].status = "pending"
                      /\ row[r].mode = "live"
                      /\ Overdue(row[r], t)}

SweepSelect ==
    /\ SweeperEnabled
    /\ sweep.pc = "idle"
    /\ SweepSelects(now) # {}
    /\ sweep' = [pc |-> "writing", t |-> now, batch |-> SweepSelects(now)]
    /\ UNCHANGED <<now, row, runner, handler>>

(* The commit flushes every selected object by primary key.                *)
SweepWritten(r) ==
    IF r \in sweep.batch THEN Settled(row[r], "expired", "auto", sweep.t)
    ELSE row[r]

SweepWrite ==
    /\ sweep.pc = "writing"
    /\ row' = [r \in Requests |-> SweepWritten(r)]
    /\ sweep' = [pc |-> "idle", t |-> 0, batch |-> {}]
    /\ UNCHANGED <<now, runner, handler>>

Tick ==
    /\ now < MaxTime
    /\ now' = now + 1
    /\ UNCHANGED <<row, runner, handler, sweep>>

-----------------------------------------------------------------------------
Request(r) == RequestPaperNow(r) \/ RequestPaperDelayed(r) \/ RequestLive(r)

(* What the runner's event loop does once the request is out.              *)
RunnerStep(r) ==
    \/ Wake(r) \/ ReadDecided(r) \/ ReadPending(r)
    \/ SelfApprove(r) \/ SelfExpire(r) \/ SelfExpireLost(r)

HandlerStep(h) ==
    \/ DecideStart(h) \/ DecideUpdate(h) \/ DecideReread(h)
    \/ DecideLookup(h) \/ DecideExpire(h)

Next ==
    \/ \E r \in Requests : Request(r) \/ RunnerStep(r) \/ RunnerCrash(r)
    \/ \E h \in Handlers : HandlerStep(h)
    \/ SweepSelect \/ SweepWrite
    \/ Tick

Spec == Init /\ [][Next]_vars

(* The clock advances, a live poll loop keeps polling and the sweeper, when *)
(* enabled, wakes every interval.  Nobody has to click a button.           *)
FairSpec ==
    /\ Spec
    /\ WF_vars(Tick)
    /\ \A r \in Requests : WF_vars(RunnerStep(r))
    /\ WF_vars(SweepSelect) /\ WF_vars(SweepWrite)

-----------------------------------------------------------------------------
(* A live order is released only by a person: whenever request_approval    *)
(* returned "approved" for a live request, the decision it carries was     *)
(* made by a human handler whose clock had not reached the deadline        *)
(* (_decide's stale-pending rule, approvals.py), however the poll loop,    *)
(* the sweeper and other handlers interleaved.                             *)
LiveReleaseIsHuman ==
    \A r \in Requests :
        (row[r].mode = "live" /\ runner[r].answer = "approved") =>
            /\ runner[r].by = "human"
            /\ runner[r].at < row[r].expires

(* The record agrees with what was done: once the runner was told          *)
(* "approved", and so placed the order, the row says "approved".           *)
ReleaseMatchesRecord ==
    \A r \in Requests :
        runner[r].answer = "approved" => row[r].status = "approved"

(* A person's decision is final: no step changes the decision columns of a *)
(* row a human decided.                                                    *)
HumanDecisionFinal ==
    [][\A r \in Requests : row[r].by = "human" => row'[r] = row[r]]_vars

(* At most one endpoint call is told that it decided a request: of several *)
(* concurrent approve and reject calls exactly one wins.                   *)
OneWinner ==
    \A g, h \in Handlers :
        /\ handler[g].req = handler[h].req
        /\ handler[g].reply \in {"approved", "rejected"}
        /\ handler[h].reply \in {"approved", "rejected"}
        => g = h

(* The poll loop always ends: a live request that is out is answered, or   *)
(* its runner died.                                                        *)
EveryRequestAnswered ==
    \A r \in Requests :
        (runner[r].pc = "sleeping") ~> (runner[r].pc \in {"answered", "crashed"})

(* The sweeper's purpose ("defense-in-depth against a crashed runner"): a  *)
(* live row does not stay pending for ever, whoever died.                  *)
LiveRowsSettle ==
    \A r \in Requests :
        (row[r].status = "pending" /\ row[r].mode = "live")
            ~> (row[r].status \in Decisions)

(* The queue implements its contract.                                      *)
Contract == INSTANCE ApprovalContract
    WITH decision <- [r \in Requests |-> row[r].status],
         answer <- [r \in Requests |-> runner[r].answer]

ImplementsContract == Contract!Spec

=============================================================================
