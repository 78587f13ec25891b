------------------------------ MODULE Beliefs ------------------------------
(***************************************************************************)
(* Hypotheses and their beliefs (services/belief, services/belief_update,  *)
(* services/hypothesis, api/routes/hypotheses.py and events.py).           *)
(*                                                                         *)
(* Fan-out items persist the relations of their evidence and recompute the *)
(* beliefs of the hypotheses these touch, several items at a time; the     *)
(* belief update pass, a later stage of the run, has an LLM judge the      *)
(* chunks that have no relation yet.  Meanwhile other sessions move        *)
(* hypotheses through their life.  All sessions are READ COMMITTED: an     *)
(* UPDATE waits for the lock of its row, writes what was computed from an  *)
(* earlier read, and only the columns that changed.                        *)
(*                                                                         *)
(* A belief is modelled by the set of relations it was computed from; the  *)
(* decay of old evidence, valid_until (which nothing sets) and the         *)
(* stagnation flag (which nothing reads but the page that shows it) are    *)
(* left out.  A session's relations are all about one hypothesis.          *)
(***************************************************************************)
EXTENDS Naturals, FiniteSets

CONSTANTS
    Hyps,       \* hypotheses, each with its mirror entity
    Chunks,     \* evidence chunks
    Writers,    \* items of the fan-out
    Editors,    \* sessions that change statuses
    NoHyp,
    MaxBusy      \* bound on the sessions that are open at the same time

VARIABLES
    status,     \* Hypothesis.status
    archived,   \* rows with archived_at set
    links,      \* committed belief relations of each hypothesis
    belief,     \* the relations the belief was computed from; Unknown: NULL
    writer,     \* the session of each item
    pass,       \* the belief update pass
    editor,     \* the other sessions
    lag,        \* why a belief may lag behind the relations
    crossed     \* rows written by a session that had read them before
                \* another one's write

beliefVars == <<status, archived, links, belief, writer, pass, editor, lag, crossed>>
hypVars == <<status, archived, editor, crossed>>

-----------------------------------------------------------------------------
Open == {"proposed", "active"}
Settled == {"validated", "falsified", "expired", "superseded"}
(* A chunk supports or contradicts a hypothesis.                           *)
Relation == Chunks \X {"supports", "contradicts"}
Unknown == {<<"none", "none">>}

(* weighted_avg_decay_v1 by its extremes: 1 if all relations support, 0 if *)
(* all contradict, and something between the thresholds otherwise.         *)
Belief(S) ==
    IF S = Unknown THEN "none"
    ELSE IF S # {} /\ \A r \in S : r[2] = "supports" THEN "high"
    ELSE IF S # {} /\ \A r \in S : r[2] = "contradicts" THEN "low"
    ELSE "between"

IdleWriter == [pc |-> "idle", h |-> NoHyp, own |-> {}, read |-> {}, missed |-> FALSE]
IdlePass == [pc |-> "idle", todo |-> [h \in Hyps |-> {}], written |-> {}]
(* What a session has read of a hypothesis; truth: what the relations said *)
(* then, unless the belief lagged; stale: another session wrote it since.  *)
IdleEditor == [h |-> NoHyp, status |-> "none", verdict |-> "none", truth |-> "none",
               stale |-> FALSE]

(* Sessions of the fan-out and of those who edit.                          *)
Session == [pc: {"idle", "inserted", "loaded", "flushed"}, h: Hyps \cup {NoHyp},
            own: SUBSET Relation, read: SUBSET Relation, missed: BOOLEAN]
Reading == [h: Hyps \cup {NoHyp}, status: Open \cup Settled \cup {"none"},
            verdict: {"none", "low", "between", "high"},
            truth: {"none", "low", "between", "high"}, stale: BOOLEAN]

BeliefTypeOK ==
    /\ status \in [Hyps -> Open \cup Settled]
    /\ archived \subseteq Hyps /\ crossed \subseteq Hyps
    /\ links \in [Hyps -> SUBSET Relation]
    /\ belief \in [Hyps -> {Unknown} \cup SUBSET Relation]
    /\ lag \in [Hyps -> {"no", "overlap", "halt"}]
    /\ writer \in [Writers -> Session]
    /\ pass \in [pc: {"idle", "judging"}, todo: [Hyps -> SUBSET Chunks], written: SUBSET Hyps]
    /\ editor \in [Editors -> Reading]

BeliefInit ==
    /\ status \in [Hyps -> Open]
    /\ archived = {} /\ crossed = {}
    /\ links = [h \in Hyps |-> {}]
    /\ belief = [h \in Hyps |-> Unknown]
    /\ writer = [s \in Writers |-> IdleWriter]
    /\ pass = IdlePass
    /\ editor = [e \in Editors |-> IdleEditor]
    /\ lag = [h \in Hyps |-> "no"]

(* The bound on the sessions that are in the middle of something.          *)
Room ==
    Cardinality({s \in Writers : writer[s].pc # "idle"})
        + Cardinality({e \in Editors : editor[e].h # NoHyp})
        + (IF pass.pc = "idle" THEN 0 ELSE 1) < MaxBusy

(* An uncommitted UPDATE locks its row.                                    *)
RowFree(h) == \A s \in Writers : writer[s].pc = "flushed" => writer[s].h # h

-----------------------------------------------------------------------------
(* persist_sector_candidates, persist_company_candidates.                  *)

(* The relation is flushed; other sessions do not see it yet.  There is    *)
(* one worker, so the fan-out and the pass, stages both, do not overlap.   *)
AddRelation(s, h) ==
    /\ writer[s].pc = "idle" /\ pass.pc = "idle" /\ Room
    /\ \E r \in Relation \ links[h] :
          writer' = [writer EXCEPT ![s] = [IdleWriter EXCEPT !.pc = "inserted", !.h = h, !.own = {r}]]
    /\ UNCHANGED <<hypVars, links, belief, pass, lag>>

(* Mutant of Load: the inputs are read before the relation is flushed.     *)
LoadCommitted(s) ==
    /\ writer[s].pc = "inserted"
    /\ writer' = [writer EXCEPT ![s].pc = "loaded", ![s].read = links[writer[s].h]]
    /\ UNCHANGED <<hypVars, links, belief, pass, lag>>

(* _load_belief_inputs: what is committed, and the session's own.          *)
Load(s) ==
    /\ writer[s].pc = "inserted"
    /\ writer' = [writer EXCEPT ![s].pc = "loaded",
                                ![s].read = links[writer[s].h] \cup writer[s].own]
    /\ UNCHANGED <<hypVars, links, belief, pass, lag>>

(* The belief is computed and its UPDATE gets the lock of the row.         *)
FlushBelief(s) ==
    /\ writer[s].pc = "loaded" /\ RowFree(writer[s].h)
    /\ writer' = [writer EXCEPT ![s].pc = "flushed"]
    /\ UNCHANGED <<hypVars, links, belief, pass, lag>>

Commit(s) ==
    LET h == writer[s].h IN
    /\ writer[s].pc = "flushed"
    /\ links' = [links EXCEPT ![h] = @ \cup writer[s].own]
    /\ belief' = [belief EXCEPT ![h] = writer[s].read]
    /\ writer' = [t \in Writers |-> IF t = s THEN IdleWriter
                     ELSE IF writer[t].pc = "loaded" /\ writer[t].h = h
                          THEN [writer[t] EXCEPT !.missed = TRUE] ELSE writer[t]]
    /\ lag' = [lag EXCEPT ![h] = IF writer[s].missed THEN "overlap" ELSE "no"]
    /\ UNCHANGED <<hypVars, pass>>

(* The run is cancelled, or its process dies, before the commit.           *)
Rollback(s) ==
    /\ writer[s].pc # "idle"
    /\ writer' = [writer EXCEPT ![s] = IdleWriter]
    /\ UNCHANGED <<hypVars, links, belief, pass, lag>>

-----------------------------------------------------------------------------
(* run_belief_update_pass.                                                 *)

(* Chunks with a relation to the hypothesis are filtered out.              *)
Unjudged(h) == {k \in Chunks : \A r \in links[h] : r[1] # k}

SelectInputs ==
    /\ pass.pc = "idle" /\ (\A s \in Writers : writer[s].pc = "idle") /\ Room
    /\ pass' = [pc |-> "judging", written |-> {},
                todo |-> [h \in Hyps |-> IF status[h] \in Open /\ h \notin archived
                                         THEN Unjudged(h) ELSE {}]]
    /\ UNCHANGED <<hypVars, links, belief, writer, lag>>

(* One LLM call for one hypothesis; the relations are committed at once.   *)
(* An answer that cannot be used gives none.                               *)
Judge(h) ==
    /\ pass.pc = "judging" /\ pass.todo[h] # {}
    /\ \E supporting, contradicting \in SUBSET pass.todo[h] :
          /\ supporting \cap contradicting = {}
          /\ LET new == supporting \X {"supports"} \cup contradicting \X {"contradicts"} IN
             /\ links' = [links EXCEPT ![h] = @ \cup new]
             /\ pass' = [pass EXCEPT !.todo[h] = {},
                                     !.written = IF new = {} THEN @ ELSE @ \cup {h}]
    /\ UNCHANGED <<hypVars, belief, writer, lag>>

(* The budget halts the pass, or its process dies: what is judged so far   *)
(* stays, what is to be recomputed is forgotten.                           *)
HaltPass ==
    /\ pass.pc = "judging"
    /\ pass' = IdlePass
    /\ lag' = [h \in Hyps |-> IF h \in pass.written THEN "halt" ELSE lag[h]]
    /\ UNCHANGED <<hypVars, links, belief, writer>>

(* At the end all beliefs are recomputed in one session.                   *)
Recompute ==
    /\ pass.pc = "judging" /\ \A h \in Hyps : pass.todo[h] = {}
    /\ belief' = [h \in Hyps |-> IF h \in pass.written THEN links[h] ELSE belief[h]]
    /\ lag' = [h \in Hyps |-> IF h \in pass.written THEN "no" ELSE lag[h]]
    /\ pass' = IdlePass
    /\ UNCHANGED <<hypVars, links, writer>>

-----------------------------------------------------------------------------
(* Sessions that change statuses: a read, and later the write.  The rows   *)
(* of a sweep do not depend on each other and are taken one by one.        *)

ReadHyp(e, h) ==
    /\ editor[e].h = NoHyp /\ Room
    /\ editor' = [editor EXCEPT ![e] =
                     [h |-> h, status |-> status[h], verdict |-> Belief(belief[h]),
                      truth |-> IF lag[h] = "no" /\ h \notin pass.written
                                THEN Belief(links[h]) ELSE Belief(belief[h]),
                      stale |-> FALSE]]
    /\ UNCHANGED <<status, archived, links, belief, writer, pass, lag, crossed>>

(* Session e, which has read h, writes it and ends.                        *)
Write(e, h) ==
    /\ h = editor[e].h /\ RowFree(h)
    /\ crossed' = IF editor[e].stale THEN crossed \cup {h} ELSE crossed
    /\ editor' = [d \in Editors |->
                     IF d = e THEN IdleEditor
                     ELSE IF editor[d].h = h THEN [editor[d] EXCEPT !.stale = TRUE]
                     ELSE editor[d]]
    /\ UNCHANGED <<links, belief, writer, pass, lag>>

(* Mutant of Below: with the threshold for validation.                     *)
BelowHigh(e) == editor[e].status \in Open /\ editor[e].verdict \in {"low", "between"}

(* run_lifecycle_sweep: below the floor an open hypothesis expires.  That  *)
(* comes first, so the pass that falsifies never finds one.                *)
Below(e) == editor[e].status \in Open /\ editor[e].verdict = "low"
Above(e) == editor[e].status = "active" /\ editor[e].verdict = "high"

Sweep(e, h) ==
    /\ Below(e) \/ Above(e)
    /\ status' = [status EXCEPT ![h] = IF Below(e) THEN "expired" ELSE "validated"]
    /\ archived' = IF Below(e) THEN archived \cup {h} ELSE archived
    /\ Write(e, h)

(* apply_outcome_to_hypothesis: the event of an open hypothesis is beaten  *)
(* or missed.                                                              *)
ResolveEvent(e, h) ==
    /\ editor[e].status \in Open
    /\ \E to \in {"validated", "falsified"} : status' = [status EXCEPT ![h] = to]
    /\ Write(e, h)
    /\ UNCHANGED archived

AllowedTransitions(from) ==
    CASE from = "proposed" -> {"active", "expired", "superseded"}
      [] from = "active"   -> {"validated", "falsified", "expired", "superseded"}
      [] OTHER             -> {}

(* Mutant of Transition: archived_at is not stamped.                       *)
TransitionUnarchived(e, h) ==
    /\ \E to \in AllowedTransitions(editor[e].status) : status' = [status EXCEPT ![h] = to]
    /\ Write(e, h)
    /\ UNCHANGED archived

(* The transition and activate endpoints.                                  *)
Transition(e, h) ==
    /\ \E to \in AllowedTransitions(editor[e].status) :
          /\ status' = [status EXCEPT ![h] = to]
          /\ archived' = IF to \in {"expired", "superseded"} THEN archived \cup {h} ELSE archived
    /\ Write(e, h)

(* resolve_duplicate: the LLM, asked after the read, takes a new claim for *)
(* a sharper form of h; the new row gets its belief by itself.             *)
Supersede(e, h) ==
    /\ editor[e].status \in Open
    /\ status' = [status EXCEPT ![h] = "superseded"]
    /\ archived' = archived \cup {h}
    /\ Write(e, h)

(* Nothing to do, a 409, or a rollback.                                    *)
Leave(e) ==
    /\ editor[e].h # NoHyp
    /\ editor' = [editor EXCEPT ![e] = IdleEditor]
    /\ UNCHANGED <<status, archived, links, belief, writer, pass, lag, crossed>>

-----------------------------------------------------------------------------
BeliefNext ==
    \/ \E s \in Writers :
          (\E h \in Hyps : AddRelation(s, h)) \/ Load(s) \/ FlushBelief(s) \/ Commit(s) \/ Rollback(s)
    \/ SelectInputs \/ (\E h \in Hyps : Judge(h)) \/ HaltPass \/ Recompute
    \/ \E e \in Editors :
          \/ Leave(e)
          \/ \E h \in Hyps : \/ ReadHyp(e, h) \/ Sweep(e, h) \/ ResolveEvent(e, h)
                             \/ Transition(e, h) \/ Supersede(e, h)

BeliefSpec == BeliefInit /\ [][BeliefNext]_beliefVars

-----------------------------------------------------------------------------
(* A belief counts every committed relation of its hypothesis, except for  *)
(* three reasons: the pass that wrote them is still to recompute it, that  *)
(* pass was halted, or an item committed a relation between another one's  *)
(* read of the inputs and its UPDATE.                                      *)
BeliefCurrent ==
    \A h \in Hyps :
        links[h] # {} /\ belief[h] # links[h] =>
            lag[h] # "no" \/ h \in pass.written

(* Archived rows are the expired and superseded ones, unless two sessions  *)
(* crossed in the row: columns are written one by one, and selector.py and *)
(* dedup.py pass archived rows by, so an open one gets no evidence.        *)
ArchivedWhenGone ==
    \A h \in Hyps \ crossed :
        h \in archived <=> status[h] \in {"expired", "superseded"}

(* The sweep validates only on relations that all support, and expires     *)
(* only on relations that all contradict, as they were when it read the    *)
(* belief; a belief that lagged then is taken as it was.                   *)
SweepHonest ==
    \A e \in Editors, h \in Hyps :
        Sweep(e, h) => editor[e].truth = IF status'[h] = "validated" THEN "high" ELSE "low"

(* All three: beliefs follow the relations, rows and statuses agree, and   *)
(* the sweep acts on what was true.                                        *)
BeliefsSound == [](BeliefCurrent /\ ArchivedWhenGone) /\ [][SweepHonest]_beliefVars

=============================================================================
