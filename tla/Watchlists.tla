----------------------------- MODULE Watchlists -----------------------------
(***************************************************************************)
(* Watchlists and the start of the runner service: the members a user      *)
(* edits (api/routes/watchlists.py, cli/watchlists.py), the research list  *)
(* that is rebuilt from the hypotheses (services/                          *)
(* research_watchlist_builder.py), and the service that looks for the list *)
(* of its strategy and ticker, or creates it, and spawns a run per member  *)
(* (workers/strategy_runner_service.py, services/strategy_runner_spawn.py).*)
(*                                                                         *)
(* Neither names nor members are unique in the schema: a user may create a *)
(* list of the service's name, of either source.  Sessions are READ        *)
(* COMMITTED: what is looked at in one step is acted on in the next.       *)
(***************************************************************************)
EXTENDS Naturals, FiniteSets, FiniteSetsExt

CONSTANTS
    OtherLists,  \* research lists of other names
    MaxLists,    \* bound on the lists with the service's name, 1, 2, ...
    MaxByUser,   \* bound on those that a user creates
    Tickers,
    Mine,        \* the ticker of the service
    Sessions,    \* requests, commands, rebuilds and starts of the service
    MaxRows,     \* bound on the member rows ever inserted
    MaxRuns      \* bound on the strategy_runs rows

ASSUME WatchlistAssumption ==
    /\ IsFiniteSet(Tickers) /\ MaxLists \in Nat
    /\ OtherLists \cap 1..MaxLists = {}

VARIABLES
    lists,     \* ids of the lists with the service's name
    byUser,    \* those that a user created
    research,  \* lists of source research, which a rebuild may replace
    rows,      \* member rows, [id, list, ticker]
    lastId,    \* ids of rows already handed out
    session,   \* what each session has looked at
    runs,      \* strategy_runs rows of the service, [ticker, status]
    raced,     \* <<list, ticker>> inserted although it had come meanwhile
    doubled,   \* two starts of the service overlapped
    edited     \* lists from which a member was removed

watchlistVars ==
    <<lists, byUser, research, rows, lastId, session, runs, raced, doubled, edited>>

-----------------------------------------------------------------------------
Rows(l, t) == {r \in rows : r.list = l /\ r.ticker = t}
Members(l) == {r \in rows : r.list = l}
Idle == [pc |-> "idle", list |-> 0, ticker |-> Mine, seen |-> {}]

WatchlistInit ==
    /\ lists = {} /\ byUser = {} /\ research = OtherLists /\ rows = {} /\ lastId = 0 /\ runs = {}
    /\ session = [s \in Sessions |-> Idle]
    /\ raced = {} /\ doubled = FALSE /\ edited = {}

Goto(s, rec) == session' = [session EXCEPT ![s] = rec]
Stays == UNCHANGED <<lists, byUser, research, rows, lastId, runs, raced, doubled, edited>>

(* The rows inserted for tickers ts into list l, with fresh ids.           *)
Fresh(l, ts) ==
    CHOOSE new \in SUBSET [id: lastId + 1 .. lastId + Cardinality(ts),
                           list: {l}, ticker: ts] :
        /\ {r.ticker : r \in new} = ts
        /\ Cardinality(new) = Cardinality(ts)
        /\ {r.id : r \in new} = lastId + 1 .. lastId + Cardinality(ts)

-----------------------------------------------------------------------------
(* A user creates an empty list under the service's name, of source manual *)
(* or research: nothing compares the names.                                *)
CreateByUser(s) ==
    LET l == Cardinality(lists) + 1
    IN  /\ session[s].pc = "idle" /\ l <= MaxLists /\ Cardinality(byUser) < MaxByUser
        /\ lists' = lists \cup {l} /\ byUser' = byUser \cup {l}
        /\ research' \in {research, research \cup {l}}
        /\ UNCHANGED <<rows, lastId, session, runs, raced, doubled, edited>>

(* The check of an addition, by the API or by the command line: whether    *)
(* the ticker is a member.  The API raises if it is one twice.             *)
Look(s, l, t) ==
    /\ session[s].pc = "idle" /\ l \in lists \cup OtherLists
    /\ Rows(l, t) = {}
    /\ Goto(s, [pc |-> "adding", list |-> l, ticker |-> t, seen |-> {}])
    /\ Stays

(* The insertion, committed.  A member that came since the check stays.    *)
Add(s) ==
    LET l == session[s].list   t == session[s].ticker
    IN  /\ session[s].pc = "adding" /\ lastId < MaxRows
        /\ rows' = rows \cup Fresh(l, {t}) /\ lastId' = lastId + 1
        /\ raced' = IF Rows(l, t) = {} THEN raced ELSE raced \cup {<<l, t>>}
        /\ Goto(s, Idle)
        /\ UNCHANGED <<lists, byUser, research, runs, doubled, edited>>

(* The API removes a member that is there once and raises otherwise.       *)
RemoveByApi(s, l, t) ==
    /\ session[s].pc = "idle" /\ l \in lists \cup OtherLists
    /\ Cardinality(Rows(l, t)) = 1
    /\ rows' = rows \ Rows(l, t)
    /\ edited' = edited \cup {l}
    /\ UNCHANGED <<lists, byUser, research, lastId, session, runs, raced, doubled>>

(* The command line removes the first row it is given.                     *)
RemoveByCommand(s, l, t) ==
    /\ session[s].pc = "idle" /\ l \in lists \cup OtherLists
    /\ \E r \in Rows(l, t) : rows' = rows \ {r}
    /\ edited' = edited \cup {l}
    /\ UNCHANGED <<lists, byUser, research, lastId, session, runs, raced, doubled>>

-----------------------------------------------------------------------------
(* A rebuild of a research list deletes the members its statement sees; the*)
(* hypotheses name ts.  A member committed later survives it.              *)
Delete(s, l) ==
    /\ session[s].pc = "idle" /\ l \in research
    /\ Goto(s, [Idle EXCEPT !.pc = "rebuilding", !.list = l, !.seen = Members(l)])
    /\ Stays

(* Mutant of Replace: the old members are left.                            *)
ReplaceAdds(s, ts) ==
    LET l == session[s].list IN
    /\ session[s].pc = "rebuilding" /\ lastId + Cardinality(ts) <= MaxRows
    /\ rows' = rows \cup Fresh(l, ts)
    /\ lastId' = lastId + Cardinality(ts)
    /\ raced' = raced \cup {<<l, t>> : t \in {u \in ts :
                   Rows(l, u) \ session[s].seen # {}}}
    /\ Goto(s, Idle)
    /\ UNCHANGED <<lists, byUser, research, runs, doubled, edited>>

Replace(s, ts) ==
    LET l == session[s].list IN
    /\ session[s].pc = "rebuilding" /\ lastId + Cardinality(ts) <= MaxRows
    /\ rows' = (rows \ session[s].seen) \cup Fresh(l, ts)
    /\ lastId' = lastId + Cardinality(ts)
    /\ raced' = raced \cup {<<l, t>> : t \in {u \in ts :
                   Rows(l, u) \ session[s].seen # {}}}
    /\ Goto(s, Idle)
    /\ UNCHANGED <<lists, byUser, research, runs, doubled, edited>>

-----------------------------------------------------------------------------
(* A start of the service finds the list of its name, finds none, or       *)
(* raises because there are two.                                           *)
Starting == {s \in Sessions : session[s].pc \in {"creating", "spawning", "spawned"}}

(* Mutant of Find: the list is not looked for.                             *)
FindNone(s) ==
    /\ session[s].pc = "idle"
    /\ Goto(s, [Idle EXCEPT !.pc = "creating"])
    /\ doubled' = (doubled \/ Starting # {})
    /\ UNCHANGED <<lists, byUser, research, rows, lastId, runs, raced, edited>>

Find(s) ==
    /\ session[s].pc = "idle" /\ Cardinality(lists) <= 1
    /\ Goto(s, IF lists = {} THEN [Idle EXCEPT !.pc = "creating"]
               ELSE [Idle EXCEPT !.pc = "spawning", !.list = Max(lists)])
    /\ doubled' = (doubled \/ Starting # {})
    /\ UNCHANGED <<lists, byUser, research, rows, lastId, runs, raced, edited>>

(* The list and its one member, committed together.                        *)
Create(s) ==
    LET l == Cardinality(lists) + 1
    IN  /\ session[s].pc = "creating" /\ l <= MaxLists /\ lastId < MaxRows
        /\ lists' = lists \cup {l}
        /\ rows' = rows \cup Fresh(l, {Mine}) /\ lastId' = lastId + 1
        /\ Goto(s, [Idle EXCEPT !.pc = "spawning", !.list = l])
        /\ UNCHANGED <<byUser, research, runs, raced, doubled, edited>>

(* A pending run for every member; an empty list raises.                   *)
Spawn(s) ==
    LET found == Members(session[s].list)
        new == {[id |-> Cardinality(runs) + r.id, row |-> r, status |-> "pending"]
                   : r \in found}
    IN  /\ session[s].pc = "spawning"
        /\ IF found = {} THEN Goto(s, Idle) /\ UNCHANGED runs
           ELSE /\ Cardinality(runs) + Cardinality(found) <= MaxRuns
                /\ runs' = runs \cup new
                /\ Goto(s, [session[s] EXCEPT !.pc = "spawned", !.seen = new])
        /\ UNCHANGED <<lists, byUser, research, rows, lastId, raced, doubled, edited>>

(* Mutant of Run: the first context is run, however many there are.        *)
RunAny(s) ==
    LET new == session[s].seen
    IN  /\ session[s].pc = "spawned"
        /\ \E run \in new :
              runs' = (runs \ {run}) \cup {[run EXCEPT !.status = "running"]}
        /\ Goto(s, Idle)
        /\ UNCHANGED <<lists, byUser, research, rows, lastId, raced, doubled, edited>>

(* One context is run, whatever its ticker; otherwise the service raises   *)
(* and the rows stay pending.                                              *)
Run(s) ==
    LET new == session[s].seen
    IN  /\ session[s].pc = "spawned"
        /\ IF Cardinality(new) = 1
           THEN \E run \in new :
                   runs' = (runs \ {run}) \cup {[run EXCEPT !.status = "running"]}
           ELSE UNCHANGED runs
        /\ Goto(s, Idle)
        /\ UNCHANGED <<lists, byUser, research, rows, lastId, raced, doubled, edited>>

(* The process of a session dies; what it committed stays.                 *)
Dies(s) == session[s].pc # "idle" /\ Goto(s, Idle) /\ Stays

-----------------------------------------------------------------------------
WatchlistNext ==
    \E s \in Sessions :
        \/ \E l \in lists \cup OtherLists, t \in Tickers :
              Look(s, l, t) \/ RemoveByApi(s, l, t) \/ RemoveByCommand(s, l, t)
        \/ \E l \in lists \cup OtherLists : Delete(s, l)
        \/ Add(s) \/ CreateByUser(s) \/ Dies(s)
        \/ \E ts \in SUBSET Tickers : Replace(s, ts)
        \/ Find(s) \/ Create(s) \/ Spawn(s) \/ Run(s)

WatchlistSpec == WatchlistInit /\ [][WatchlistNext]_watchlistVars

-----------------------------------------------------------------------------
(* A member is there twice only if it was inserted by a session that had   *)
(* looked before another one committed the same: an addition's check and a *)
(* rebuild's deletion are enough on their own when they do not overlap.    *)
MemberOnce ==
    \A l \in lists \cup OtherLists, t \in Tickers :
        Cardinality(Rows(l, t)) > 1 => <<l, t>> \in raced

(* Restarts of the service do not duplicate its list: of the lists with its*)
(* name it created one at most, unless two starts overlapped.  (A user may *)
(* create another; with two, every later start raises.)                    *)
OneList == Cardinality(lists \ byUser) > 1 => doubled

(* The service runs a ticker other than its own only from a list that a    *)
(* user created or took a member out of: nothing compares the ticker of    *)
(* the context with the one it was started for.                            *)
RunsMine ==
    \A run \in runs :
        run.status = "running" /\ run.row.ticker # Mine => run.row.list \in edited \cup byUser

(* The lists and the runs of the service together.                         *)
UniverseSound == MemberOnce /\ OneList /\ RunsMine
=============================================================================
