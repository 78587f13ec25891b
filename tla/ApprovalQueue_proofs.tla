----------------------- MODULE ApprovalQueue_proofs ------------------------
(***************************************************************************)
(* Proofs about ApprovalQueue, for every set of requests and handlers and  *)
(* every deadline.  The type invariant and the release rule are not        *)
(* inductive alone: a reply copies a status another actor wrote, so the    *)
(* strengthening ties the rows to the state of the calls that hold them.   *)
(***************************************************************************)
EXTENDS ApprovalQueue, TLAPS

(* A row exists exactly from the moment its request is out.                *)
RowsExist ==
    \A r \in Requests :
        IF runner[r].pc = "idle"
        THEN /\ row[r] = NoRow /\ runner[r] = NewRunner /\ r \notin sweep.batch
        ELSE /\ row[r].status # "absent"
             /\ row[r].mode \in {"paper", "live"}

(* Live rows have a deadline, and only people approve them, in time.       *)
LiveRows ==
    \A r \in Requests :
        row[r].mode = "live" =>
            /\ row[r].expires # 0
            /\ row[r].status = "approved" =>
                   row[r].by = "human" /\ row[r].at < row[r].expires

(* A handler that reads its own update back finds a decided row.           *)
RereadDecided ==
    \A h \in Handlers :
        handler[h].pc = "reread" => row[handler[h].req].status \in Decisions

IInv == TypeOK /\ RowsExist /\ LiveRows /\ RereadDecided /\ LiveReleaseIsHuman

(* What every part of the invariant is made of.                            *)
LEMMA InitIInv == Init => IInv
  BY ConstantsAssumption
  DEF Init, IInv, TypeOK, RowsExist, LiveRows, RereadDecided,
      LiveReleaseIsHuman, NoRow, NewRunner, Row, Runner, Handler, Sweep,
      RunnerPC, HandlerPC, Replies, Decisions, Deciders

(* A runner's step replaces its own row and its own call, and nothing      *)
(* else: the invariant is kept when the new values x and y satisfy it.     *)
LEMMA RunnerKeepsIInv ==
  ASSUME IInv, now' = now, handler' = handler, sweep' = sweep,
         NEW r \in Requests, NEW x \in Row, NEW y \in Runner,
         row' = [row EXCEPT ![r] = x],
         runner' = [runner EXCEPT ![r] = y],
         y.pc # "idle", x.status # "absent", x.mode \in {"paper", "live"},
         row[r].status \in Decisions => x.status \in Decisions,
         x.mode = "live" => x.expires # 0,
         (x.mode = "live" /\ x.status = "approved") =>
             x.by = "human" /\ x.at < x.expires,
         (x.mode = "live" /\ y.answer = "approved") =>
             y.by = "human" /\ y.at < x.expires
  PROVE  IInv'
<1>1. TypeOK'
  BY DEF IInv, TypeOK
<1>2. /\ row'[r] = x /\ runner'[r] = y
      /\ \A q \in Requests : q # r => row'[q] = row[q] /\ runner'[q] = runner[q]
  BY DEF IInv, TypeOK
<1>3. RowsExist'
  BY <1>2 DEF IInv, RowsExist
<1>4. LiveRows'
  BY <1>2 DEF IInv, LiveRows
<1>5. RereadDecided'
  BY <1>2 DEF IInv, RereadDecided, TypeOK, Handler
<1>6. LiveReleaseIsHuman'
  BY <1>2 DEF IInv, LiveReleaseIsHuman
<1> QED BY <1>1, <1>3, <1>4, <1>5, <1>6 DEF IInv

LEMMA RequestIInv ==
  ASSUME IInv, NEW r \in Requests, Request(r)
  PROVE  IInv'
<1>0. /\ now \in Nat /\ now + ExpiresAfter \in Nat /\ now + ExpiresAfter # 0
      /\ NewRunner \in Runner /\ row \in [Requests -> Row]
      /\ runner \in [Requests -> Runner] /\ row[r] = NoRow
      /\ runner[r] = NewRunner
  BY ConstantsAssumption
  DEF IInv, TypeOK, RowsExist, NewRunner, Runner, RunnerPC, Decisions, Deciders,
      Request, RequestPaperNow, RequestPaperDelayed, RequestLive
<1>1. CASE RequestPaperNow(r)
  <2> DEFINE a == NewRow("approved", "auto", now, "paper", 0)
             b == Returned(runner[r], "approved", "auto", now)
  <2>1. a \in Row /\ a.status = "approved" /\ a.mode = "paper"
    BY <1>0 DEF NewRow, Row, Decisions, Deciders
  <2>2. b \in Runner /\ b.pc = "answered"
    BY <1>0 DEF Returned, Runner, RunnerPC, Decisions, Deciders
  <2>3. /\ row' = [row EXCEPT ![r] = a] /\ runner' = [runner EXCEPT ![r] = b]
        /\ now' = now /\ handler' = handler /\ sweep' = sweep
    BY <1>1 DEF RequestPaperNow
  <2> QED
    <3> HIDE DEF a, b
    <3> QED BY <2>1, <2>2, <2>3, RunnerKeepsIInv DEF Decisions
<1>2. CASE RequestPaperDelayed(r)
  <2> DEFINE a == NewRow("pending", "nobody", 0, "paper", 0)
             b == [runner[r] EXCEPT !.pc = "sleeping"]
  <2>1. a \in Row /\ a.status = "pending" /\ a.mode = "paper"
    BY DEF NewRow, Row, Decisions, Deciders
  <2>2. b \in Runner /\ b.pc = "sleeping"
    BY <1>0 DEF Runner, RunnerPC
  <2>3. /\ row' = [row EXCEPT ![r] = a] /\ runner' = [runner EXCEPT ![r] = b]
        /\ now' = now /\ handler' = handler /\ sweep' = sweep
    BY <1>2 DEF RequestPaperDelayed
  <2>4. row[r].status = "absent"
    BY <1>0 DEF NoRow
  <2> QED
    <3> HIDE DEF a, b
    <3> QED BY <2>1, <2>2, <2>3, <2>4, RunnerKeepsIInv DEF Decisions
<1>3. CASE RequestLive(r)
  <2> DEFINE a == NewRow("pending", "nobody", 0, "live", now + ExpiresAfter)
             b == [runner[r] EXCEPT !.pc = "sleeping"]
  <2>1. a \in Row /\ a.status = "pending" /\ a.mode = "live" /\ a.expires # 0
    BY <1>0 DEF NewRow, Row, Decisions, Deciders
  <2>2. b \in Runner /\ b.pc = "sleeping" /\ b.answer = "none"
    BY <1>0 DEF Runner, RunnerPC, NewRunner
  <2>3. /\ row' = [row EXCEPT ![r] = a] /\ runner' = [runner EXCEPT ![r] = b]
        /\ now' = now /\ handler' = handler /\ sweep' = sweep
    BY <1>3 DEF RequestLive
  <2>4. row[r].status = "absent"
    BY <1>0 DEF NoRow
  <2> QED
    <3> HIDE DEF a, b
    <3> QED BY <2>1, <2>2, <2>3, <2>4, RunnerKeepsIInv DEF Decisions
<1> QED BY <1>1, <1>2, <1>3 DEF Request

(* The steps of a call that is out: none of them touches another row.      *)
LEMMA RunnerStepIInv ==
  ASSUME IInv, NEW r \in Requests, RunnerStep(r) \/ RunnerCrash(r)
  PROVE  IInv'
<1> DEFINE p == row[r]  q == runner[r]
<1>0. /\ now \in Nat /\ p \in Row /\ q \in Runner
      /\ row \in [Requests -> Row] /\ runner \in [Requests -> Runner]
      /\ q.pc # "idle" /\ p.status # "absent" /\ p.mode \in {"paper", "live"}
      /\ p.mode = "live" => p.expires # 0
      /\ (p.mode = "live" /\ p.status = "approved") =>
             p.by = "human" /\ p.at < p.expires
      /\ (p.mode = "live" /\ q.answer = "approved") =>
             q.by = "human" /\ q.at < p.expires
  <2>1. q.pc # "idle"
    BY DEF RunnerStep, Wake, ReadDecided, ReadPending, SelfApprove, SelfExpire,
           SelfExpireLost, RunnerCrash
  <2> QED BY <2>1 DEF IInv, TypeOK, RowsExist, LiveRows, LiveReleaseIsHuman
<1>1. ASSUME NEW z \in Runner, z.pc # "idle",
             (p.mode = "live" /\ z.answer = "approved") =>
                 z.by = "human" /\ z.at < p.expires,
             runner' = [runner EXCEPT ![r] = z],
             UNCHANGED <<now, row, handler, sweep>>
      PROVE  IInv'
  <2>1. row' = [row EXCEPT ![r] = p]
    BY <1>0, <1>1
  <2> HIDE DEF p, q
  <2> QED BY <1>0, <1>1, <2>1, RunnerKeepsIInv DEF p
<1>2. CASE Wake(r)
  <2> DEFINE z == [q EXCEPT !.pc = "reading", !.t = now]
  <2>1. z \in Runner /\ z.pc = "reading" /\ z.answer = q.answer
        /\ z.by = q.by /\ z.at = q.at
    BY <1>0 DEF Runner, RunnerPC
  <2>2. runner' = [runner EXCEPT ![r] = z] /\ UNCHANGED <<now, row, handler, sweep>>
    BY <1>2 DEF Wake
  <2> HIDE DEF z
  <2> QED BY <1>0, <1>1, <2>1, <2>2
<1>3. CASE ReadDecided(r)
  <2> DEFINE z == Returned(q, p.status, p.by, p.at)
  <2>1. z \in Runner /\ z.pc = "answered" /\ z.answer = p.status
        /\ z.by = p.by /\ z.at = p.at
    BY <1>0, <1>3 DEF Runner, RunnerPC, Returned, Row, ReadDecided
  <2>2. runner' = [runner EXCEPT ![r] = z] /\ UNCHANGED <<now, row, handler, sweep>>
    BY <1>3 DEF ReadDecided
  <2> HIDE DEF z
  <2> QED BY <1>0, <1>1, <2>1, <2>2
<1>4. CASE ReadPending(r)
  <2>1. PICK pc \in RunnerPC :
            /\ pc # "idle" /\ runner' = [runner EXCEPT ![r].pc = pc]
            /\ UNCHANGED <<now, row, handler, sweep>>
    BY <1>4 DEF ReadPending, RunnerPC
  <2> DEFINE z == [q EXCEPT !.pc = pc]
  <2>2. z \in Runner /\ z.pc = pc /\ z.answer = q.answer
        /\ z.by = q.by /\ z.at = q.at
    BY <1>0 DEF Runner
  <2>3. runner' = [runner EXCEPT ![r] = z]
    BY <2>1
  <2> HIDE DEF z
  <2> QED BY <1>0, <1>1, <2>1, <2>2, <2>3
<1>5. CASE SelfApprove(r)
  <2> DEFINE a == Settled(p, "approved", "auto", q.t)
             z == Returned(q, "approved", "auto", q.t)
  <2>1. a \in Row /\ a.status = "approved" /\ a.mode = "paper"
    BY <1>0, <1>5 DEF Settled, Row, Runner, Decisions, Deciders, SelfApprove
  <2>2. z \in Runner /\ z.pc = "answered"
    BY <1>0 DEF Returned, Runner, RunnerPC, Decisions, Deciders
  <2>3. /\ row' = [row EXCEPT ![r] = a] /\ runner' = [runner EXCEPT ![r] = z]
        /\ now' = now /\ handler' = handler /\ sweep' = sweep
    BY <1>5 DEF SelfApprove
  <2> HIDE DEF a, z
  <2> QED BY <2>1, <2>2, <2>3, RunnerKeepsIInv DEF Decisions
<1>6. CASE SelfExpire(r)
  <2> DEFINE a == Settled(p, "expired", "auto", q.t)
             z == Returned(q, "expired", "auto", q.t)
  <2>1. a \in Row /\ a.status = "expired" /\ a.mode = "live" /\ a.expires # 0
    BY <1>0, <1>6 DEF Settled, Row, Runner, Decisions, Deciders, SelfExpire
  <2>2. z \in Runner /\ z.pc = "answered" /\ z.answer = "expired"
    BY <1>0 DEF Returned, Runner, RunnerPC, Decisions, Deciders
  <2>3. /\ row' = [row EXCEPT ![r] = a] /\ runner' = [runner EXCEPT ![r] = z]
        /\ now' = now /\ handler' = handler /\ sweep' = sweep
    BY <1>6 DEF SelfExpire
  <2> HIDE DEF a, z
  <2> QED BY <2>1, <2>2, <2>3, RunnerKeepsIInv DEF Decisions
<1>7. CASE SelfExpireLost(r)
  <2> DEFINE z == Returned(q, p.status, p.by, p.at)
             e == Returned(q, "expired", "auto", q.t)
  <2>1. z \in Runner /\ z.pc = "answered" /\ z.answer = p.status
        /\ z.by = p.by /\ z.at = p.at
    BY <1>0, <1>7 DEF Runner, RunnerPC, Returned, Row, SelfExpireLost
  <2>2. e \in Runner /\ e.pc = "answered" /\ e.answer = "expired"
    BY <1>0 DEF Returned, Runner, RunnerPC, Decisions, Deciders
  <2>3. /\ \/ runner' = [runner EXCEPT ![r] = z]
           \/ runner' = [runner EXCEPT ![r] = e]
        /\ UNCHANGED <<now, row, handler, sweep>>
    BY <1>7 DEF SelfExpireLost
  <2> HIDE DEF z, e
  <2> QED BY <1>0, <1>1, <2>1, <2>2, <2>3
<1>8. CASE RunnerCrash(r)
  <2> DEFINE z == [q EXCEPT !.pc = "crashed"]
  <2>1. z \in Runner /\ z.pc = "crashed" /\ z.answer = q.answer
        /\ z.by = q.by /\ z.at = q.at
    BY <1>0 DEF Runner, RunnerPC
  <2>2. runner' = [runner EXCEPT ![r] = z] /\ UNCHANGED <<now, row, handler, sweep>>
    BY <1>8 DEF RunnerCrash
  <2> HIDE DEF z
  <2> QED BY <1>0, <1>1, <2>1, <2>2
<1> QED
  BY <1>2, <1>3, <1>4, <1>5, <1>6, <1>7, <1>8 DEF RunnerStep

-----------------------------------------------------------------------------
(* A write by the endpoint or the sweeper settles existing rows and leaves *)
(* the runners alone.  W is the set of rows written: all exist, and        *)
(* approving one is a person's timely act.                                 *)
LEMMA OthersKeepRows ==
  ASSUME IInv, runner' = runner,
         NEW W \in SUBSET Requests,
         row' \in [Requests -> Row],
         \A r \in Requests \ W : row'[r] = row[r],
         \A r \in W : /\ runner[r].pc # "idle"
                      /\ row'[r].status \in Decisions
                      /\ row'[r].mode = row[r].mode
                      /\ row'[r].expires = row[r].expires
                      /\ (row[r].mode = "live" /\ row'[r].status = "approved") =>
                             row'[r].by = "human" /\ row'[r].at < row[r].expires,
         \A r \in Requests : r \in sweep'.batch => runner[r].pc # "idle"
  PROVE  RowsExist' /\ LiveRows' /\ LiveReleaseIsHuman'
<1>1. RowsExist'
  BY DEF IInv, RowsExist, Decisions
<1>2. LiveRows'
  BY DEF IInv, LiveRows
<1>3. LiveReleaseIsHuman'
  BY DEF IInv, LiveReleaseIsHuman
<1> QED BY <1>1, <1>2, <1>3

(* The endpoints: one step of one call.                                    *)
LEMMA HandlerIInv ==
  ASSUME IInv, NEW h \in Handlers, HandlerStep(h)
  PROVE  IInv'
<1> DEFINE c == handler[h]  p == row[c.req]
<1>0. /\ now \in Nat /\ c \in Handler /\ c.req \in Requests /\ p \in Row
      /\ row \in [Requests -> Row] /\ runner \in [Requests -> Runner]
      /\ handler \in [Handlers -> Handler] /\ sweep \in Sweep
      /\ runner' = runner /\ now' = now /\ sweep' = sweep
      /\ \A r \in Requests : r \in sweep.batch => runner[r].pc # "idle"
      /\ c.pc = "reread" => p.status \in Decisions
      /\ \A r \in Requests : row[r].status # "absent" => runner[r].pc # "idle"
    BY DEF IInv, TypeOK, Handler, RowsExist, RereadDecided, HandlerStep, NoRow,
        DecideStart, DecideUpdate, DecideReread, DecideLookup, DecideExpire
(* No row written: only the handler's own record moves on.                 *)
<1>1. ASSUME NEW z \in Handler, z.pc # "reread", row' = row,
             handler' = [handler EXCEPT ![h] = z]
      PROVE  IInv'
  <2>1. RowsExist' /\ LiveRows' /\ LiveReleaseIsHuman'
    BY <1>0, <1>1 DEF IInv, RowsExist, LiveRows, LiveReleaseIsHuman
  <2>2. TypeOK'
    BY <1>0, <1>1 DEF TypeOK
  <2>3. RereadDecided'
    BY <1>0, <1>1 DEF IInv, RereadDecided
  <2> QED BY <2>1, <2>2, <2>3 DEF IInv
(* One existing row settled with decision s by deciders b at time t.       *)
<1>2. ASSUME NEW z \in Handler, z.req = c.req,
             handler' = [handler EXCEPT ![h] = z],
             NEW s \in Decisions, NEW b \in Deciders, NEW t \in Nat,
             row' = [row EXCEPT ![c.req] = Settled(p, s, b, t)],
             p.status # "absent",
             (p.mode = "live" /\ s = "approved") => b = "human" /\ t < p.expires
      PROVE  IInv'
  <2> DEFINE a == Settled(p, s, b, t)
  <2>1. /\ a \in Row /\ a.status = s /\ a.by = b /\ a.at = t
        /\ a.mode = p.mode /\ a.expires = p.expires
    BY <1>0, <1>2 DEF Settled, Row
  <2>2. row' = [row EXCEPT ![c.req] = a]
    BY <1>2
  <2> HIDE DEF a
  <2>3. /\ row' \in [Requests -> Row] /\ row'[c.req] = a
        /\ \A r \in Requests \ {c.req} : row'[r] = row[r]
    BY <1>0, <2>1, <2>2
  <2>4. TypeOK'
    BY <1>0, <1>2, <2>3 DEF TypeOK
  <2>5. RereadDecided'
    <3> SUFFICES ASSUME NEW g \in Handlers, handler'[g].pc = "reread"
                 PROVE  row'[handler'[g].req].status \in Decisions
      BY DEF RereadDecided
    <3>1. CASE g = h
      BY <1>0, <1>2, <2>1, <2>3, <3>1
    <3>2. CASE g # h
      <4>1. handler'[g] = handler[g] /\ handler[g].req \in Requests
        BY <1>0, <1>2, <3>2 DEF Handler
      <4> QED BY <1>2, <2>1, <2>3, <4>1 DEF IInv, RereadDecided
    <3> QED BY <3>1, <3>2
  <2>6. RowsExist' /\ LiveRows' /\ LiveReleaseIsHuman'
    <3> DEFINE W == {c.req}
    <3>1. W \in SUBSET Requests /\ \A r \in W : r = c.req
      BY <1>0
    <3> HIDE DEF W
    <3>2. \A r \in Requests \ W : row'[r] = row[r]
      BY <2>3 DEF W
    <3> HIDE DEF c, p
    <3> QED
      BY <1>0, <1>2, <2>1, <2>3, <3>1, <3>2, OthersKeepRows DEF p
  <2> QED BY <2>4, <2>5, <2>6 DEF IInv
<1>3. CASE DecideStart(h)
  <2> DEFINE z == [c EXCEPT !.pc = "update", !.t = now]
  <2>1. z \in Handler /\ z.pc = "update"
    BY <1>0 DEF Handler, HandlerPC
  <2>2. row' = row /\ handler' = [handler EXCEPT ![h] = z]
    BY <1>3 DEF DecideStart
  <2> HIDE DEF z
  <2> QED BY <1>1, <2>1, <2>2
<1>4. CASE DecideUpdate(h)
  <2> DEFINE z == [c EXCEPT !.pc = "reread"]  y == [c EXCEPT !.pc = "lookup"]
  <2>1. /\ z \in Handler /\ z.req = c.req
        /\ y \in Handler /\ y.pc = "lookup"
    BY <1>0 DEF Handler, HandlerPC
  <2>2. CASE Decidable(p, c.t)
    <3>1. /\ row' = [row EXCEPT ![c.req] = Settled(p, c.want, "human", c.t)]
          /\ handler' = [handler EXCEPT ![h] = z]
      BY <1>4, <2>2 DEF DecideUpdate
    <3>2. /\ c.want \in Decisions /\ "human" \in Deciders /\ c.t \in Nat
          /\ p.status # "absent"
      BY <1>0, <2>2 DEF Handler, Decisions, Deciders, Decidable
    <3>3. p.mode = "live" => c.t < p.expires
      BY <1>0, <2>2, <3>2 DEF Decidable, Overdue, IInv, LiveRows, Row
    <3> HIDE DEF z, y, c, p
    <3> QED BY <1>2, <2>1, <3>1, <3>2, <3>3
  <2>3. CASE ~Decidable(p, c.t)
    <3>1. row' = row /\ handler' = [handler EXCEPT ![h] = y]
      BY <1>4, <2>3 DEF DecideUpdate
    <3> HIDE DEF z, y
    <3> QED BY <1>1, <2>1, <3>1
  <2> QED BY <2>2, <2>3
<1>5. CASE DecideReread(h)
  <2> DEFINE z == [c EXCEPT !.pc = "replied", !.reply = p.status]
  <2>1. z \in Handler /\ z.pc = "replied"
    BY <1>0, <1>5 DEF DecideReread, Handler, HandlerPC, Replies, Decisions
  <2>2. row' = row /\ handler' = [handler EXCEPT ![h] = z]
    BY <1>5 DEF DecideReread
  <2> HIDE DEF z
  <2> QED BY <1>1, <2>1, <2>2
<1>6. CASE DecideLookup(h)
  <2>1. row' = row
    BY <1>6 DEF DecideLookup
  <2>2. PICK pc \in HandlerPC, rp \in Replies :
          /\ pc # "reread"
          /\ \/ handler' = [handler EXCEPT ![h].pc = pc]
             \/ handler' = [handler EXCEPT ![h].pc = pc, ![h].reply = rp]
    BY <1>6 DEF DecideLookup, HandlerPC, Replies
  <2> DEFINE z == [c EXCEPT !.pc = pc]  y == [c EXCEPT !.pc = pc, !.reply = rp]
  <2>3. z \in Handler /\ z.pc = pc /\ y \in Handler /\ y.pc = pc
    BY <1>0 DEF Handler
  <2>4. \/ handler' = [handler EXCEPT ![h] = z]
        \/ handler' = [handler EXCEPT ![h] = y]
    BY <2>2
  <2> HIDE DEF z, y
  <2> QED BY <1>1, <2>1, <2>2, <2>3, <2>4
<1>7. CASE DecideExpire(h)
  <2> DEFINE z == [c EXCEPT !.pc = "replied", !.reply = "expired"]
  <2>1. z \in Handler /\ z.pc = "replied" /\ z.req = c.req /\ c.t \in Nat
    BY <1>0 DEF Handler, HandlerPC, Replies
  <2>2. handler' = [handler EXCEPT ![h] = z]
    BY <1>7 DEF DecideExpire
  <2>3. CASE p.status = "pending"
    <3>1. row' = [row EXCEPT ![c.req] = Settled(p, "expired", "auto", c.t)]
      BY <1>7, <2>3 DEF DecideExpire
    <3>2. "expired" \in Decisions /\ "auto" \in Deciders
      BY DEF Decisions, Deciders
    <3> HIDE DEF z, c, p
    <3> QED BY <1>2, <2>1, <2>2, <2>3, <3>1, <3>2
  <2>4. CASE p.status # "pending"
    <3>1. row' = row
      BY <1>7, <2>4 DEF DecideExpire
    <3> HIDE DEF z
    <3> QED BY <1>1, <2>1, <2>2, <3>1
  <2> QED BY <2>3, <2>4
<1> QED
  BY <1>3, <1>4, <1>5, <1>6, <1>7 DEF HandlerStep

-----------------------------------------------------------------------------
(* The sweeper selects existing rows and expires them.                     *)
LEMMA SweeperIInv ==
  ASSUME IInv, SweepSelect \/ SweepWrite
  PROVE  IInv'
<1>0. /\ now \in Nat /\ row \in [Requests -> Row] /\ sweep \in Sweep
      /\ runner' = runner /\ now' = now /\ handler' = handler
      /\ \A r \in Requests : row[r].status # "absent" => runner[r].pc # "idle"
      /\ \A r \in Requests : r \in sweep.batch => runner[r].pc # "idle"
  BY DEF IInv, TypeOK, RowsExist, NoRow, SweepSelect, SweepWrite
<1>1. CASE SweepSelect
  <2>1. /\ row' = row /\ sweep' \in Sweep
        /\ \A r \in Requests : r \in sweep'.batch => row[r].status = "pending"
    BY <1>0, <1>1 DEF SweepSelect, SweepSelects, Sweep
  <2>2. TypeOK'
    BY <1>0, <2>1 DEF IInv, TypeOK
  <2>3. RowsExist'
    BY <1>0, <2>1 DEF IInv, RowsExist
  <2> QED
    BY <1>0, <2>1, <2>2, <2>3
    DEF IInv, LiveRows, RereadDecided, LiveReleaseIsHuman
<1>2. CASE SweepWrite
  <2>1. /\ row' = [r \in Requests |-> SweepWritten(r)]
        /\ sweep'.batch = {} /\ sweep' \in Sweep
    BY <1>2 DEF SweepWrite, Sweep
  <2>2. ASSUME NEW r \in Requests
        PROVE  /\ row'[r] \in Row
               /\ r \notin sweep.batch => row'[r] = row[r]
               /\ r \in sweep.batch =>
                      /\ row'[r].status = "expired"
                      /\ row'[r].mode = row[r].mode
                      /\ row'[r].expires = row[r].expires
    <3>1. row[r] \in Row /\ sweep.t \in Nat
      BY <1>0 DEF Sweep
    <3> DEFINE p == row[r]  t == sweep.t
    <3>2. row'[r] = IF r \in sweep.batch THEN Settled(p, "expired", "auto", t)
                    ELSE p
      BY <2>1 DEF SweepWritten
    <3> HIDE DEF p, t
    <3> QED BY <3>1, <3>2 DEF Settled, Row, Decisions, Deciders, p, t
  <2>3. row' \in [Requests -> Row]
    BY <2>1, <2>2
  <2>4. RowsExist' /\ LiveRows' /\ LiveReleaseIsHuman'
    <3> DEFINE W == {r \in Requests : r \in sweep.batch}
    <3>1. "expired" \in Decisions /\ "expired" # "approved"
      BY DEF Decisions
    <3>2. W \in SUBSET Requests
      OBVIOUS
    <3>3. \A r \in Requests \ W : row'[r] = row[r]
      BY <2>2
    <3>4. \A r \in W : /\ runner[r].pc # "idle"
                       /\ row'[r].status = "expired"
                       /\ row'[r].mode = row[r].mode
                       /\ row'[r].expires = row[r].expires
      BY <1>0, <2>2
    <3> HIDE DEF W
    <3> QED BY <1>0, <2>1, <2>3, <3>1, <3>2, <3>3, <3>4, OthersKeepRows
  <2>5. TypeOK'
    BY <1>0, <2>1, <2>3 DEF IInv, TypeOK
  <2>6. RereadDecided'
    <3> SUFFICES ASSUME NEW h \in Handlers, handler'[h].pc = "reread"
                 PROVE  row'[handler'[h].req].status \in Decisions
      BY DEF RereadDecided
    <3>1. handler[h].req \in Requests /\ row[handler[h].req].status \in Decisions
      BY <1>0 DEF IInv, TypeOK, Handler, RereadDecided
    <3> QED BY <1>0, <2>2, <3>1 DEF Decisions
  <2> QED BY <2>4, <2>5, <2>6 DEF IInv
<1> QED BY <1>1, <1>2

(* Every step keeps the invariant.                                         *)
LEMMA NextIInv == IInv /\ [Next]_vars => IInv'
<1> SUFFICES ASSUME IInv, [Next]_vars PROVE IInv'
  OBVIOUS
<1>1. ASSUME NEW r \in Requests, Request(r) \/ RunnerStep(r) \/ RunnerCrash(r)
      PROVE  IInv'
  BY <1>1, RequestIInv, RunnerStepIInv
<1>2. ASSUME NEW h \in Handlers, HandlerStep(h)
      PROVE  IInv'
  BY <1>2, HandlerIInv
<1>3. CASE SweepSelect \/ SweepWrite
  BY <1>3, SweeperIInv
<1>4. CASE Tick
  BY <1>4 DEF Tick, IInv, TypeOK, RowsExist, LiveRows, RereadDecided,
              LiveReleaseIsHuman
<1>5. CASE UNCHANGED vars
  BY <1>5 DEF vars, IInv, TypeOK, RowsExist, LiveRows, RereadDecided,
              LiveReleaseIsHuman
<1> QED BY <1>1, <1>2, <1>3, <1>4, <1>5 DEF Next

(* The strengthened invariant holds in every reachable state.              *)
THEOREM Invariance == Spec => []IInv
  BY InitIInv, NextIInv, PTL DEF Spec

(* The variables always have their types: in particular a reply or an      *)
(* answer is never copied from a row that is absent or still pending.      *)
THEOREM TypeCorrect == Spec => []TypeOK
<1>1. IInv => TypeOK
  BY DEF IInv
<1> QED BY <1>1, Invariance, PTL

(* A live order is released only by a person's decision made before the    *)
(* deadline, for any number of requests, endpoint calls and sweeps.        *)
THEOREM LiveRelease == Spec => []LiveReleaseIsHuman
<1>1. IInv => LiveReleaseIsHuman
  BY DEF IInv
<1> QED BY <1>1, Invariance, PTL

-----------------------------------------------------------------------------
(* Without the sweeper and without a paper delay nobody writes a row by    *)
(* primary key after somebody else may have decided it.                    *)
QuietInv ==
    /\ sweep.pc = "idle"
    /\ \A r \in Requests :
        /\ row[r].mode = "paper" => runner[r].pc = "answered"
        /\ runner[r].answer = "none" <=> runner[r].pc # "answered"
        /\ runner[r].answer = "approved" => row[r].status = "approved"
        /\ runner[r].answer # "none" => row[r].status \in Decisions

(* Under the same conditions no step touches a decided row, and every step *)
(* is a step of the contract or leaves its two variables alone.            *)
LEMMA QuietNext ==
  ASSUME ~SweeperEnabled, ~PaperDelay, IInv, QuietInv, [Next]_vars
  PROVE  /\ QuietInv'
         /\ \A r \in Requests : row[r].status \in Decisions => row'[r] = row[r]
         /\ [Contract!Next]_(Contract!vars)
<1> DEFINE Keeps == \A r \in Requests :
                       row[r].status \in Decisions => row'[r] = row[r]
           dec == [r \in Requests |-> row[r].status]
           ans == [r \in Requests |-> runner[r].answer]
<1>0. /\ row \in [Requests -> Row] /\ runner \in [Requests -> Runner]
      /\ handler \in [Handlers -> Handler]
      /\ \A h \in Handlers : handler[h].req \in Requests
                             /\ handler[h].want \in {"approved", "rejected"}
      /\ \A r \in Requests : runner[r].pc = "idle" => row[r] = NoRow
      /\ \A r \in Requests : runner[r].pc # "idle" =>
            row[r].status \in Decisions \cup {"pending"} /\ row[r].mode # "none"
  BY DEF IInv, TypeOK, RowsExist, Handler, Row
(* Runner steps: row r becomes x and call r becomes y.                     *)
<1>1. ASSUME NEW r \in Requests, NEW x, NEW y,
             row' = [row EXCEPT ![r] = x], runner' = [runner EXCEPT ![r] = y],
             sweep' = sweep,
             row[r].status \in Decisions => x = row[r],
             x.mode = "paper" => y.pc = "answered",
             y.answer = "none" <=> y.pc # "answered",
             y.answer = "approved" => x.status = "approved",
             y.answer # "none" => x.status \in Decisions,
             \/ x.status = row[r].status /\ y.answer = runner[r].answer
             \/ /\ row[r].status = "absent"
                /\ \/ x.status = "pending" /\ y.answer = runner[r].answer
                   \/ x.status = "approved" /\ y.answer = "approved"
             \/ /\ row[r].status \in Decisions /\ runner[r].answer = "none"
                /\ y.answer \in {row[r].status, "expired"}
             \/ /\ row[r].status = "pending" /\ runner[r].answer = "none"
                /\ x.status = "expired" /\ y.answer = "expired"
      PROVE  QuietInv' /\ Keeps /\ [Contract!Next]_(Contract!vars)
  <2>1. /\ row'[r] = x /\ runner'[r] = y
        /\ \A q \in Requests : q # r => row'[q] = row[q] /\ runner'[q] = runner[q]
    BY <1>0, <1>1
  <2>2. QuietInv' /\ Keeps
    BY <1>1, <2>1 DEF QuietInv
  <2>3. /\ dec' = [dec EXCEPT ![r] = x.status]
        /\ ans' = [ans EXCEPT ![r] = y.answer]
        /\ dec[r] = row[r].status /\ ans[r] = runner[r].answer
    BY <2>1
  <2>4. \/ dec' = dec /\ ans' = ans
        \/ Contract!File(r) \/ Contract!Answer(r) \/ Contract!Expire(r)
    <3>1. CASE x.status = row[r].status /\ y.answer = runner[r].answer
      BY <2>3, <3>1
    <3>2. CASE row[r].status = "absent" /\
               \/ x.status = "pending" /\ y.answer = runner[r].answer
               \/ x.status = "approved" /\ y.answer = "approved"
      BY <2>3, <3>2 DEF Contract!File
    <3>3. CASE /\ row[r].status \in Decisions /\ runner[r].answer = "none"
               /\ y.answer \in {row[r].status, "expired"}
      <4>1. dec' = dec
        BY <1>1, <2>1, <3>3
      <4> QED BY <2>3, <3>3, <4>1 DEF Contract!Answer, Contract!Decisions, Decisions
    <3>4. CASE /\ row[r].status = "pending" /\ runner[r].answer = "none"
               /\ x.status = "expired" /\ y.answer = "expired"
      BY <2>3, <3>4 DEF Contract!Expire
    <3> QED BY <1>1, <3>1, <3>2, <3>3, <3>4
  <2> QED BY <2>2, <2>4 DEF Contract!Next, Contract!vars
<1>2. ASSUME NEW r \in Requests, Request(r)
      PROVE  QuietInv' /\ Keeps /\ [Contract!Next]_(Contract!vars)
  <2>0. row[r] = NoRow /\ runner[r] = NewRunner
    BY <1>2 DEF IInv, RowsExist, Request, RequestPaperNow,
                RequestPaperDelayed, RequestLive
  <2>a. row[r].status = "absent" /\ row[r].status \notin Decisions
    BY <2>0 DEF NoRow, Decisions
  <2>1. CASE RequestPaperNow(r)
    <3> DEFINE x == NewRow("approved", "auto", now, "paper", 0)
               y == Returned(runner[r], "approved", "auto", now)
    <3>1. x.status = "approved" /\ y.answer = "approved" /\ y.pc = "answered"
      BY <1>0 DEF NewRow, Returned, Runner
    <3>2. /\ row' = [row EXCEPT ![r] = x] /\ runner' = [runner EXCEPT ![r] = y]
          /\ sweep' = sweep
      BY <2>1 DEF RequestPaperNow
    <3>3. x.status \in Decisions
      BY <3>1 DEF Decisions
    <3> HIDE DEF x, y
    <3> QED BY <1>1, <2>a, <3>1, <3>2, <3>3
  <2>2. CASE RequestLive(r)
    <3> DEFINE x == NewRow("pending", "nobody", 0, "live", now + ExpiresAfter)
               y == [runner[r] EXCEPT !.pc = "sleeping"]
    <3>1. /\ x.status = "pending" /\ x.mode = "live"
          /\ y.answer = runner[r].answer /\ y.pc = "sleeping"
      BY <1>0 DEF NewRow, Runner
    <3>2. /\ row' = [row EXCEPT ![r] = x] /\ runner' = [runner EXCEPT ![r] = y]
          /\ sweep' = sweep
      BY <2>2 DEF RequestLive
    <3>3. runner[r].answer = "none"
      BY <2>0 DEF NewRunner
    <3> HIDE DEF x, y
    <3> QED BY <1>1, <2>a, <3>1, <3>2, <3>3
  <2> QED BY <1>2, <2>1, <2>2 DEF Request, RequestPaperDelayed
<1>3. ASSUME NEW r \in Requests, RunnerStep(r) \/ RunnerCrash(r)
      PROVE  QuietInv' /\ Keeps /\ [Contract!Next]_(Contract!vars)
  <2> DEFINE p == row[r]  q == runner[r]
  <2>0. /\ p \in Row /\ q \in Runner /\ row \in [Requests -> Row]
        /\ q.pc # "idle" /\ q.pc # "answered" /\ q.answer = "none"
        /\ p.mode # "paper" /\ p.status \in Decisions \cup {"pending"}
    <3>1. q.pc # "idle" /\ q.pc # "answered"
      BY <1>3 DEF RunnerStep, RunnerCrash, Wake, ReadDecided, ReadPending,
                  SelfApprove, SelfExpire, SelfExpireLost
    <3> QED BY <1>0, <3>1 DEF QuietInv
  (* The row is left alone and the call goes on, unanswered.               *)
  <2>1. ASSUME NEW y, y.pc # "answered", y.answer = q.answer, row' = row,
               runner' = [runner EXCEPT ![r] = y], sweep' = sweep
        PROVE  QuietInv' /\ Keeps /\ [Contract!Next]_(Contract!vars)
    <3>1. row' = [row EXCEPT ![r] = p]
      BY <2>0, <2>1
    <3> HIDE DEF p, q
    <3> QED BY <1>1, <2>0, <2>1, <3>1 DEF p, q
  (* The row is left alone and the call is answered.                       *)
  <2>2. ASSUME NEW y, y.pc = "answered", y.answer \in {p.status, "expired"},
               p.status # "pending", row' = row,
               runner' = [runner EXCEPT ![r] = y], sweep' = sweep
        PROVE  QuietInv' /\ Keeps /\ [Contract!Next]_(Contract!vars)
    <3>1. row' = [row EXCEPT ![r] = p] /\ p.status \in Decisions
      BY <2>0, <2>2
    <3>2. /\ y.answer # "none"
          /\ y.answer = "approved" => p.status = "approved"
      BY <2>2, <3>1 DEF Decisions
    <3> HIDE DEF p, q
    <3> QED BY <1>1, <2>0, <2>2, <3>1, <3>2 DEF p, q
  <2>3. CASE Wake(r) \/ ReadPending(r) \/ RunnerCrash(r)
    <3>1. PICK pc \in RunnerPC, t \in Nat :
            /\ pc # "answered" /\ row' = row /\ sweep' = sweep
            /\ \/ runner' = [runner EXCEPT ![r].pc = pc, ![r].t = t]
               \/ runner' = [runner EXCEPT ![r].pc = pc]
      BY <2>3 DEF Wake, ReadPending, RunnerCrash, RunnerPC, IInv, TypeOK
    <3> DEFINE y == [q EXCEPT !.pc = pc, !.t = t]  z == [q EXCEPT !.pc = pc]
    <3>2. /\ y.pc = pc /\ y.answer = q.answer /\ z.pc = pc /\ z.answer = q.answer
      BY <2>0 DEF Runner
    <3>3. \/ runner' = [runner EXCEPT ![r] = y]
          \/ runner' = [runner EXCEPT ![r] = z]
      BY <3>1
    <3> HIDE DEF y, z
    <3> QED BY <2>1, <3>1, <3>2, <3>3
  <2>4. CASE ReadDecided(r) \/ SelfExpireLost(r)
    <3> DEFINE y == Returned(q, p.status, p.by, p.at)
               z == Returned(q, "expired", "auto", q.t)
    <3>1. /\ y.pc = "answered" /\ y.answer = p.status
          /\ z.pc = "answered" /\ z.answer = "expired"
      BY <2>0 DEF Runner, Returned
    <3>2. /\ \/ runner' = [runner EXCEPT ![r] = y]
             \/ runner' = [runner EXCEPT ![r] = z]
          /\ row' = row /\ sweep' = sweep /\ p.status # "pending"
      BY <2>4 DEF ReadDecided, SelfExpireLost
    <3> HIDE DEF y, z
    <3> QED BY <2>2, <3>1, <3>2
  <2>5. CASE SelfExpire(r)
    <3> DEFINE x == Settled(p, "expired", "auto", q.t)
               y == Returned(q, "expired", "auto", q.t)
    <3>1. /\ x.status = "expired" /\ x.mode = "live" /\ p.status = "pending"
          /\ y.pc = "answered" /\ y.answer = "expired"
      BY <2>0, <2>5 DEF Row, Runner, Settled, Returned, SelfExpire
    <3>2. /\ row' = [row EXCEPT ![r] = x] /\ runner' = [runner EXCEPT ![r] = y]
          /\ sweep' = sweep
      BY <2>5 DEF SelfExpire
    <3> HIDE DEF x, y
    <3> QED BY <1>1, <2>0, <3>1, <3>2 DEF Decisions
  <2>6. ~SelfApprove(r)
    BY <2>0 DEF SelfApprove
  <2> QED BY <1>3, <2>3, <2>4, <2>5, <2>6 DEF RunnerStep
<1>4. ASSUME NEW h \in Handlers, HandlerStep(h)
      PROVE  QuietInv' /\ Keeps /\ [Contract!Next]_(Contract!vars)
  <2> DEFINE c == handler[h]  p == row[c.req]
  <2>0. runner' = runner /\ sweep' = sweep
    BY <1>4 DEF HandlerStep, DecideStart, DecideUpdate, DecideReread,
                DecideLookup, DecideExpire
  <2>1. CASE row' = row
    BY <2>0, <2>1 DEF QuietInv, Contract!vars
  <2>2. ASSUME NEW d \in Decisions, NEW x, x.status = d, x.mode = p.mode,
               p.status = "pending", row' = [row EXCEPT ![c.req] = x]
        PROVE  QuietInv' /\ Keeps /\ [Contract!Next]_(Contract!vars)
    <3>1. /\ c.req \in Requests /\ row'[c.req] = x
          /\ \A q \in Requests : q # c.req => row'[q] = row[q]
      BY <1>0, <2>2
    <3>2. QuietInv' /\ Keeps
      BY <2>0, <2>2, <3>1 DEF QuietInv, Decisions
    <3>3. Contract!Decide
      <4>1. {c.req} \in SUBSET {r \in Requests : dec[r] = "pending"}
        BY <2>2, <3>1
      <4>2. dec' = [r \in Requests |-> IF r \in {c.req} THEN d ELSE dec[r]]
        BY <2>2, <3>1
      <4>3. ans' = ans
        BY <2>0
      <4> QED
        BY <4>1, <4>2, <4>3 DEF Contract!Decide, Contract!Decisions, Decisions
    <3> QED BY <3>2, <3>3 DEF Contract!Next
  <2>3. CASE DecideUpdate(h) /\ Decidable(p, c.t)
    <3> DEFINE x == Settled(p, c.want, "human", c.t)
    <3>1. p \in Row /\ c.want \in Decisions
      BY <1>0 DEF Decisions
    <3>2. x.status = c.want /\ x.mode = p.mode
      BY <3>1 DEF Settled, Row
    <3>3. row' = [row EXCEPT ![c.req] = x] /\ p.status = "pending"
      BY <2>3 DEF DecideUpdate, Decidable
    <3> HIDE DEF x, c, p
    <3> QED BY <2>2, <3>1, <3>2, <3>3
  <2>4. CASE DecideExpire(h) /\ p.status = "pending"
    <3> DEFINE x == Settled(p, "expired", "auto", c.t)
    <3>1. p \in Row /\ "expired" \in Decisions
      BY <1>0 DEF Decisions
    <3>2. x.status = "expired" /\ x.mode = p.mode
      BY <3>1 DEF Settled, Row
    <3>3. row' = [row EXCEPT ![c.req] = x]
      BY <2>4 DEF DecideExpire
    <3> HIDE DEF x, c, p
    <3> QED BY <2>2, <2>4, <3>1, <3>2, <3>3
  <2>5. \/ row' = row
        \/ DecideUpdate(h) /\ Decidable(p, c.t)
        \/ DecideExpire(h) /\ p.status = "pending"
    BY <1>4 DEF HandlerStep, DecideStart, DecideUpdate, DecideReread,
                DecideLookup, DecideExpire
  <2> QED BY <2>1, <2>3, <2>4, <2>5
<1>5. CASE Tick \/ UNCHANGED vars
  BY <1>5 DEF Tick, vars, QuietInv, Contract!vars
<1>6. ~SweepSelect /\ ~SweepWrite
  BY DEF SweepSelect, SweepWrite, QuietInv
<1> QED BY <1>2, <1>3, <1>4, <1>5, <1>6 DEF Next

LEMMA QuietInit == Init => QuietInv /\ Contract!Init
  BY DEF Init, QuietInv, NoRow, NewRunner, Contract!Init

(* With the sweeper off and no paper delay the queue implements its        *)
(* contract: a request is decided once, the record is final, and the       *)
(* runner acts on "approved" only if the record says so.                   *)
THEOREM ContractImplemented ==
  ASSUME ~SweeperEnabled, ~PaperDelay
  PROVE  Spec => ImplementsContract
<1>1. IInv /\ QuietInv /\ [Next]_vars => QuietInv' /\ [Contract!Next]_(Contract!vars)
  BY QuietNext
<1> QED
  BY <1>1, QuietInit, Invariance, PTL DEF Spec, ImplementsContract, Contract!Spec

(* Under the same conditions an order that was released stays recorded as  *)
(* approved.                                                               *)
THEOREM RecordKept ==
  ASSUME ~SweeperEnabled, ~PaperDelay
  PROVE  Spec => []ReleaseMatchesRecord
<1>1. IInv /\ QuietInv /\ [Next]_vars => QuietInv'
  BY QuietNext
<1>2. QuietInv => ReleaseMatchesRecord
  BY DEF QuietInv, ReleaseMatchesRecord
<1> QED
  BY <1>1, <1>2, QuietInit, Invariance, PTL DEF Spec

(* A row carries a person's name only together with that person's decision. *)
SignedRows == \A r \in Requests : row[r].by = "human" => row[r].status \in Decisions

(* What a step may leave in a row: what was there, an unsigned row, or a   *)
(* decision.                                                               *)
LEMMA RowWritten ==
  ASSUME IInv, [Next]_vars, NEW r \in Requests
  PROVE  row'[r] = row[r] \/ row'[r].by # "human" \/ row'[r].status \in Decisions
<1> DEFINE Goal == row'[r] = row[r] \/ row'[r].by # "human" \/ row'[r].status \in Decisions
<1>0. /\ row \in [Requests -> Row] /\ runner \in [Requests -> Runner]
      /\ \A h \in Handlers : handler[h].req \in Requests
                             /\ handler[h].want \in {"approved", "rejected"}
  BY DEF IInv, TypeOK, Handler
<1>1. ASSUME NEW q \in Requests, Request(q) PROVE Goal
  <2>1. \/ row' = [row EXCEPT ![q] = NewRow("approved", "auto", now, "paper", 0)]
        \/ row' = [row EXCEPT ![q] = NewRow("pending", "nobody", 0, "paper", 0)]
        \/ row' = [row EXCEPT ![q] = NewRow("pending", "nobody", 0, "live",
                                           now + ExpiresAfter)]
    BY <1>1 DEF Request, RequestPaperNow, RequestPaperDelayed, RequestLive
  <2> QED BY <1>0, <2>1 DEF NewRow
<1>2. ASSUME NEW q \in Requests, NEW d \in Decisions, NEW b, NEW t,
             row' = [row EXCEPT ![q] = Settled(@, d, b, t)]
      PROVE  Goal
  BY <1>0, <1>2 DEF Settled, Row
<1>3. ASSUME NEW q \in Requests, RunnerStep(q) \/ RunnerCrash(q) PROVE Goal
  <2>1. \/ row' = row
        \/ row' = [row EXCEPT ![q] = Settled(@, "approved", "auto", runner[q].t)]
        \/ row' = [row EXCEPT ![q] = Settled(@, "expired", "auto", runner[q].t)]
    BY <1>3 DEF RunnerStep, RunnerCrash, Wake, ReadDecided, ReadPending,
                SelfApprove, SelfExpire, SelfExpireLost
  <2>2. "approved" \in Decisions /\ "expired" \in Decisions
    BY DEF Decisions
  <2> QED BY <1>2, <2>1, <2>2
<1>4. ASSUME NEW h \in Handlers, HandlerStep(h) PROVE Goal
  <2> DEFINE c == handler[h]
  <2>1. \/ row' = row
        \/ row' = [row EXCEPT ![c.req] = Settled(@, c.want, "human", c.t)]
        \/ row' = [row EXCEPT ![c.req] = Settled(@, "expired", "auto", c.t)]
    BY <1>4 DEF HandlerStep, DecideStart, DecideUpdate, DecideReread,
                DecideLookup, DecideExpire
  <2>2. c.req \in Requests /\ c.want \in Decisions /\ "expired" \in Decisions
    BY <1>0 DEF Decisions
  <2> QED BY <1>2, <2>1, <2>2
<1>5. CASE SweepWrite
  BY <1>0, <1>5 DEF SweepWrite, SweepWritten, Settled, Row, Decisions
<1>6. CASE SweepSelect \/ Tick \/ UNCHANGED vars
  BY <1>6 DEF SweepSelect, Tick, vars
<1> QED BY <1>1, <1>3, <1>4, <1>5, <1>6 DEF Next

(* With the sweeper off and no paper delay no step changes the decision    *)
(* columns of a row a person decided.                                      *)
THEOREM HumanDecisionsKept ==
  ASSUME ~SweeperEnabled, ~PaperDelay
  PROVE  Spec => HumanDecisionFinal
<1>1. IInv /\ QuietInv /\ [Next]_vars => QuietInv'
  BY QuietNext
<1>2. Init => SignedRows
  BY DEF Init, SignedRows, NoRow
<1>3. IInv /\ SignedRows /\ [Next]_vars => SignedRows'
  BY RowWritten DEF SignedRows
<1>4. IInv /\ QuietInv /\ SignedRows /\ [Next]_vars
      => \A r \in Requests : row[r].by = "human" => row'[r] = row[r]
  BY QuietNext DEF SignedRows
<1>5. IInv /\ QuietInv /\ SignedRows /\ [Next]_vars
      => [\A r \in Requests : row[r].by = "human" => row'[r] = row[r]]_vars
  BY <1>4
<1> QED
  BY <1>1, <1>2, <1>3, <1>5, QuietInit, Invariance, PTL
     DEF Spec, HumanDecisionFinal

-----------------------------------------------------------------------------
(* A call has won once its conditional UPDATE matched: it is about to read *)
(* the row back, or has been told that it decided.                         *)
Won(h) == handler[h].pc = "reread" \/ handler[h].reply \in {"approved", "rejected"}

(* Two calls for one request have not both won.                            *)
WinnerUnique ==
    \A g, h \in Handlers :
        Won(g) /\ Won(h) /\ handler[g].req = handler[h].req => g = h

(* The row of a winner is decided, so no later UPDATE matches.             *)
WinnersDecided ==
    \A h \in Handlers : Won(h) => row[handler[h].req].status \in Decisions

(* Whatever overwrites a decided row leaves it decided.                    *)
LEMMA DecidedStays ==
  ASSUME IInv, [Next]_vars, NEW r \in Requests, row[r].status \in Decisions
  PROVE  row'[r].status \in Decisions
<1> DEFINE Goal == row'[r].status \in Decisions
<1>0. /\ row \in [Requests -> Row] /\ runner \in [Requests -> Runner]
      /\ \A h \in Handlers : handler[h].req \in Requests
                             /\ handler[h].want \in {"approved", "rejected"}
  BY DEF IInv, TypeOK, Handler
<1>1. ASSUME NEW q \in Requests, Request(q) PROVE Goal
  <2>1. runner[q].pc = "idle" /\ \E x : row' = [row EXCEPT ![q] = x]
    BY <1>1 DEF Request, RequestPaperNow, RequestPaperDelayed, RequestLive
  <2>2. q # r
    BY <2>1 DEF IInv, RowsExist, NoRow, Decisions
  <2> QED BY <1>0, <2>1, <2>2
<1>2. ASSUME NEW q \in Requests, NEW d \in Decisions, NEW b, NEW t,
             row' = [row EXCEPT ![q] = Settled(@, d, b, t)]
      PROVE  Goal
  BY <1>0, <1>2 DEF Settled, Row
<1>3. ASSUME NEW q \in Requests, RunnerStep(q) \/ RunnerCrash(q) PROVE Goal
  <2>1. \/ row' = row
        \/ row' = [row EXCEPT ![q] = Settled(@, "approved", "auto", runner[q].t)]
        \/ row' = [row EXCEPT ![q] = Settled(@, "expired", "auto", runner[q].t)]
    BY <1>3 DEF RunnerStep, RunnerCrash, Wake, ReadDecided, ReadPending,
                SelfApprove, SelfExpire, SelfExpireLost
  <2>2. "approved" \in Decisions /\ "expired" \in Decisions
    BY DEF Decisions
  <2> QED BY <1>2, <2>1, <2>2
<1>4. ASSUME NEW h \in Handlers, HandlerStep(h) PROVE Goal
  <2> DEFINE c == handler[h]
  <2>1. \/ row' = row
        \/ row' = [row EXCEPT ![c.req] = Settled(@, c.want, "human", c.t)]
        \/ row' = [row EXCEPT ![c.req] = Settled(@, "expired", "auto", c.t)]
    BY <1>4 DEF HandlerStep, DecideStart, DecideUpdate, DecideReread,
                DecideLookup, DecideExpire
  <2>2. c.req \in Requests /\ c.want \in Decisions /\ "expired" \in Decisions
    BY <1>0 DEF Decisions
  <2> QED BY <1>2, <2>1, <2>2
<1>5. CASE SweepWrite
  BY <1>0, <1>5 DEF SweepWrite, SweepWritten, Settled, Row, Decisions
<1>6. CASE SweepSelect \/ Tick \/ UNCHANGED vars
  BY <1>6 DEF SweepSelect, Tick, vars
<1> QED BY <1>1, <1>3, <1>4, <1>5, <1>6 DEF Next

(* A call comes to have won only by an UPDATE that found the row pending   *)
(* and left it decided; its request never changes.                         *)
LEMMA WinningUpdate ==
  ASSUME IInv, [Next]_vars, NEW h \in Handlers
  PROVE  /\ handler'[h].req = handler[h].req
         /\ Won(h)' => \/ Won(h)
                       \/ /\ row[handler[h].req].status = "pending"
                          /\ row'[handler[h].req].status \in Decisions
                          /\ \A g \in Handlers \ {h} : handler'[g] = handler[g]
<1> DEFINE Goal(k) ==
      /\ handler'[k].req = handler[k].req
      /\ Won(k)' => \/ Won(k)
                    \/ /\ row[handler[k].req].status = "pending"
                       /\ row'[handler[k].req].status \in Decisions
                       /\ \A g \in Handlers \ {k} : handler'[g] = handler[g]
<1>0. handler \in [Handlers -> Handler] /\ row \in [Requests -> Row]
  BY DEF IInv, TypeOK
<1>1. CASE handler' = handler
  BY <1>1 DEF Won
<1>2. ASSUME NEW g \in Handlers, HandlerStep(g) PROVE Goal(h)
  <2> DEFINE c == handler[g]
  <2>1. \E y : handler' = [handler EXCEPT ![g] = y]
    BY <1>0, <1>2 DEF HandlerStep, DecideStart, DecideUpdate, DecideReread,
                      DecideLookup, DecideExpire
  <2>2. CASE g # h
    BY <1>0, <2>1, <2>2 DEF Won
  <2>3. CASE g = h
    <3>1. CASE DecideStart(h)
      BY <1>0, <3>1 DEF DecideStart, Won, Handler
    <3>2. CASE DecideUpdate(h)
      <4>1. CASE Decidable(row[handler[h].req], handler[h].t)
        <5>1. /\ handler' = [handler EXCEPT ![h].pc = "reread"]
              /\ row' = [row EXCEPT ![handler[h].req] =
                            Settled(@, handler[h].want, "human", handler[h].t)]
          BY <3>2, <4>1 DEF DecideUpdate
        <5>2. handler[h].req \in Requests /\ handler[h].want \in Decisions
          BY <1>0 DEF Handler, Decisions
        <5>3. row'[handler[h].req].status \in Decisions
          BY <1>0, <5>1, <5>2 DEF Settled, Row
        <5>4. row[handler[h].req].status = "pending"
          BY <4>1 DEF Decidable
        <5> QED BY <1>0, <5>1, <5>3, <5>4 DEF Handler
      <4>2. CASE ~Decidable(row[handler[h].req], handler[h].t)
        BY <1>0, <3>2, <4>2 DEF DecideUpdate, Won, Handler
      <4> QED BY <4>1, <4>2
    <3>3. CASE DecideReread(h)
      BY <1>0, <3>3 DEF DecideReread, Won, Handler
    <3>4. CASE DecideLookup(h)
      BY <1>0, <3>4 DEF DecideLookup, Won, Handler
    <3>5. CASE DecideExpire(h)
      BY <1>0, <3>5 DEF DecideExpire, Won, Handler
    <3> QED BY <1>2, <2>3, <3>1, <3>2, <3>3, <3>4, <3>5 DEF HandlerStep
  <2> QED BY <2>2, <2>3
<1>3. handler' = handler \/ \E g \in Handlers : HandlerStep(g)
  BY DEF Next, vars, Request, RequestPaperNow, RequestPaperDelayed, RequestLive,
         RunnerStep, RunnerCrash, Wake, ReadDecided, ReadPending, SelfApprove,
         SelfExpire, SelfExpireLost, SweepSelect, SweepWrite, Tick
<1> QED BY <1>1, <1>2, <1>3

(* Of several approve and reject calls for one request at most one is told *)
(* that it decided, in every configuration, sweeper and paper delay        *)
(* included: the row a winner decided never becomes pending again.         *)
THEOREM OneCallWins == Spec => []OneWinner
<1> DEFINE WinInv == WinnerUnique /\ WinnersDecided
<1>1. Init => WinInv
  BY DEF Init, WinnerUnique, WinnersDecided, Won
<1>2. IInv /\ WinInv /\ [Next]_vars => WinInv'
  <2> SUFFICES ASSUME IInv, WinInv, [Next]_vars PROVE WinInv'
    OBVIOUS
  <2>0. \A h \in Handlers : handler[h].req \in Requests
    BY DEF IInv, TypeOK, Handler
  <2>1. WinnersDecided'
    <3> SUFFICES ASSUME NEW h \in Handlers, Won(h)'
                 PROVE  row'[handler'[h].req].status \in Decisions
      BY DEF WinnersDecided
    <3>1. CASE Won(h)
      BY <2>0, <3>1, DecidedStays, WinningUpdate DEF WinnersDecided
    <3> QED BY <3>1, WinningUpdate
  <2>2. WinnerUnique'
    <3> SUFFICES ASSUME NEW g \in Handlers, NEW h \in Handlers, Won(g)', Won(h)',
                        handler'[g].req = handler'[h].req
                 PROVE  g = h
      BY DEF WinnerUnique
    <3>1. handler[g].req = handler[h].req
      BY WinningUpdate
    <3>2. CASE Won(g) /\ Won(h)
      BY <3>1, <3>2 DEF WinnerUnique
    <3>3. ASSUME NEW k \in Handlers, NEW l \in Handlers, Won(k)', Won(l)', ~Won(k),
                 handler[k].req = handler[l].req
          PROVE  k = l
      <4>1. /\ row[handler[k].req].status = "pending"
            /\ \A i \in Handlers \ {k} : handler'[i] = handler[i]
        BY <3>3, WinningUpdate
      <4>2. ~Won(l)
        BY <3>3, <4>1 DEF WinnersDecided, Decisions
      <4>3. k # l => (Won(l)' <=> Won(l))
        BY <4>1 DEF Won
      <4> QED BY <3>3, <4>2, <4>3
    <3> QED BY <3>1, <3>2, <3>3
  <2> QED BY <2>1, <2>2
<1>3. WinInv => OneWinner
  BY DEF WinnerUnique, OneWinner, Won
<1> QED BY <1>1, <1>2, <1>3, Invariance, PTL DEF Spec

=============================================================================
