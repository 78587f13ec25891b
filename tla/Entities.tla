------------------------------ MODULE Entities ------------------------------
(***************************************************************************)
(* Entity bootstrap, resolution and merge.  A run first inserts the rows of*)
(* a registry that are missing (funnel_research/core.py calls              *)
(* bootstrap_from_gics before its stages).  Then its sessions              *)
(* (sector/graph.py, company/graph.py) resolve the names of their          *)
(* candidates one after the other, seeing what is committed and what they  *)
(* have created themselves, insert a relation between two of them and      *)
(* commit everything at once; merges (entity_merge/core.py) happen in      *)
(* between.  No disambiguator is passed to the pipeline anywhere, so an    *)
(* ambiguous name becomes a new entity.                                    *)
(***************************************************************************)
EXTENDS Naturals, FiniteSets

CONSTANTS
    Ids,        \* 1..n, handed out in order; bounds the entities created
    Candidates, \* [span, xid] records; xid 0 for no external id in the text
    Registry,   \* its rows, [span, xid], in the order of their ids; two of
                \* them may have one name (Energy is 10 and 1010 in the GICS)
    Near,       \* pairs of names whose score is at least 0.80
    Close,      \* those whose score is at least 0.85
    Resolvers

ASSUME EntityAssumption ==
    /\ Ids \subseteq Nat \ {0}
    /\ \A r \in Registry : r.xid \in Nat \ {0}
    /\ \A r, q \in Registry : r.xid = q.xid => r = q

VARIABLES
    entity,    \* rows, committed or not: aliases, external id, merged_into
    owner,     \* the session that has created a row and not committed it
    at,        \* the candidate a session has come to, 1 or 2; then the
               \* relation, 3; Start or Bootstrap before
    missing,   \* registry rows a session has found missing
    found,     \* entity_id_by_span of its two candidates
    relations, \* committed relations, <<from, to>>
    late,      \* those of sessions that had resolved a name before a merge
    createdTwice \* names created by two sessions, or rows inserted by two
                 \* bootstraps, before either committed

entityVars == <<entity, owner, at, missing, found, relations, late, createdTwice>>

-----------------------------------------------------------------------------
NoEntity == 0
Nobody == "nobody"
Blank == [aliases |-> {}, xid |-> 0, into |-> NoEntity]
Named(c) == [aliases |-> {c.span}, xid |-> 0, into |-> NoEntity]
Start == 0
Bootstrap == 4
Used == {e \in Ids : entity[e] # Blank}
Live(e) == entity[e].into = NoEntity
NextId == CHOOSE e \in Ids \ Used : \A f \in Ids \ Used : e <= f

(* Mutant of Visible: the rows of the session itself are not flushed.      *)
VisibleCommitted(s) == {e \in Used : Live(e) /\ owner[e] = Nobody}

(* The rows without merged_into_id that a session selects.                 *)
Visible(s) == {e \in Used : Live(e) /\ owner[e] \in {Nobody, s}}

(* step_1_alias_match and step_2_external_id_match                         *)
AliasHits(s, c) == {e \in Visible(s) : c.span \in entity[e].aliases}
ExternalHits(s, c) == {e \in Visible(s) : c.xid # 0 /\ entity[e].xid = c.xid}

(* step_3_fuzzy_match: the best score is at least 0.85 and no other entity *)
(* reaches 0.80.                                                           *)
Scoring(s, c, pairs) ==
    {e \in Visible(s) : \E n \in entity[e].aliases : n = c.span \/ {n, c.span} \in pairs}
FuzzyHits(s, c) ==
    IF Cardinality(Scoring(s, c, Near)) = 1 THEN Scoring(s, c, Close) ELSE {}

(* resolve_candidate: the first step with a single hit decides.            *)
Resolution(s, c) ==
    LET Single(hits) == Cardinality(hits) = 1
        The(hits) == CHOOSE e \in hits : TRUE
    IN CASE Single(AliasHits(s, c)) -> The(AliasHits(s, c))
         [] ~Single(AliasHits(s, c)) /\ Single(ExternalHits(s, c)) -> The(ExternalHits(s, c))
         [] ~Single(AliasHits(s, c)) /\ ~Single(ExternalHits(s, c)) /\ Single(FuzzyHits(s, c)) ->
              The(FuzzyHits(s, c))
         [] OTHER -> NoEntity

EntityInit ==
    /\ entity = [e \in Ids |-> Blank]
    /\ owner = [e \in Ids |-> Nobody]
    /\ at = [s \in Resolvers |-> Start]
    /\ missing = [s \in Resolvers |-> {}]
    /\ found = [s \in Resolvers |-> <<NoEntity, NoEntity>>]
    /\ relations = {} /\ late = {} /\ createdTwice = {}

CommittedBy(s) == [e \in Ids |-> IF owner[e] = s THEN Nobody ELSE owner[e]]

-----------------------------------------------------------------------------
(* A bootstrap that has found row r missing and not committed it yet.      *)
Inserting(q, r) ==
    /\ at[q] = Bootstrap
    /\ r \in missing[q] \/ \E e \in Used : owner[e] = q /\ entity[e].xid = r.xid

(* Rows that s finds missing, of which another bootstrap did so before it. *)
Looked(s, rows) ==
    /\ missing' = [missing EXCEPT ![s] = rows]
    /\ createdTwice' = createdTwice \cup
          {r.span : r \in {q \in rows : \E other \in Resolvers \ {s} : Inserting(other, q)}}
    /\ at' = [at EXCEPT ![s] = Bootstrap]
    /\ UNCHANGED <<entity, owner, found, relations, late>>

(* Mutant of LookUpRegistry: merged entities are not looked for.           *)
LookUpLive(s) ==
    /\ at[s] \in {Start, 1}
    /\ Looked(s, {r \in Registry :
          ~\E e \in Used : Live(e) /\ owner[e] = Nobody /\ entity[e].xid = r.xid})

(* fetch_existing_by_primary_value, as a run begins: by external id, among *)
(* the committed entities and those that are merged.                       *)
LookUpRegistry(s) ==
    /\ at[s] \in {Start, 1}
    /\ Looked(s, {r \in Registry : ~\E e \in Used : owner[e] = Nobody /\ entity[e].xid = r.xid})

(* insert_or_get_entity of a row that is missing.  (One that is not keeps  *)
(* its entity, which has the row's name and id already.)                   *)
InsertRow(s) ==
    LET least == CHOOSE r \in missing[s] : \A q \in missing[s] : r.xid <= q.xid
    IN  /\ at[s] = Bootstrap /\ missing[s] # {} /\ Used # Ids
        /\ entity' = [entity EXCEPT ![NextId] = [Named(least) EXCEPT !.xid = least.xid]]
        /\ owner' = [owner EXCEPT ![NextId] = s]
        /\ missing' = [missing EXCEPT ![s] = @ \ {least}]
        /\ UNCHANGED <<at, found, relations, late, createdTwice>>

CommitRegistry(s) ==
    /\ at[s] = Bootstrap /\ missing[s] = {}
    /\ owner' = CommittedBy(s)
    /\ at' = [at EXCEPT ![s] = 1]
    /\ UNCHANGED <<entity, missing, found, relations, late, createdTwice>>

-----------------------------------------------------------------------------
Found(s, e) ==
    /\ found' = [found EXCEPT ![s][at[s]] = e]
    /\ at' = [at EXCEPT ![s] = @ + 1]
    /\ UNCHANGED <<missing, relations, late>>

(* The candidate is an entity that the session can see.                    *)
Resolve(s, c) ==
    /\ at[s] \in 1..2
    /\ Resolution(s, c) # NoEntity
    /\ Found(s, Resolution(s, c))
    /\ UNCHANGED <<entity, owner, createdTwice>>

(* step_5_create_new_entity_with_review: flushed, not committed.           *)
CreateEntity(s, c) ==
    /\ at[s] \in 1..2 /\ Used # Ids
    /\ Resolution(s, c) = NoEntity
    /\ entity' = [entity EXCEPT ![NextId] = Named(c)]
    /\ owner' = [owner EXCEPT ![NextId] = s]
    /\ createdTwice' = IF \E e \in Used : c.span \in entity[e].aliases /\ owner[e] \notin {Nobody, s}
                THEN createdTwice \cup {c.span} ELSE createdTwice
    /\ Found(s, NextId)

(* _persist_relation and the commit: a self-loop is skipped.  The ids are  *)
(* those of the resolution, whatever has become of the rows.               *)
PersistRelation(s) ==
    /\ at[s] = 3
    /\ LET relation == IF found[s][1] = found[s][2] THEN {} ELSE {found[s]}
           gone == \E i \in 1..2 : ~Live(found[s][i])
       IN /\ relations' = relations \cup relation
          /\ late' = IF gone THEN late \cup relation ELSE late
    /\ owner' = CommittedBy(s)
    /\ at' = [at EXCEPT ![s] = 1]
    /\ found' = [found EXCEPT ![s] = <<NoEntity, NoEntity>>]
    /\ UNCHANGED <<entity, missing, createdTwice>>

-----------------------------------------------------------------------------
(* The relations after a merge: the direct ones are deleted.               *)
Rewired(rs, survivor, merged) ==
    LET Moved(e) == IF e = merged THEN survivor ELSE e
        direct == {r \in rs : {r[1], r[2]} = {survivor, merged}}
    IN {<<Moved(r[1]), Moved(r[2])>> : r \in rs \ direct}

MergedRow(survivor, merged) ==
    [aliases |-> entity[survivor].aliases \cup entity[merged].aliases,
     xid |-> IF entity[survivor].xid # 0 THEN entity[survivor].xid ELSE entity[merged].xid,
     into |-> NoEntity]

(* Mutants of Merge: the relations to the merged entity stay; the names of *)
(* the merged entity are forgotten.                                        *)
MergeUnwired(survivor, merged) ==
    /\ survivor # merged
    /\ {survivor, merged} \subseteq {e \in Used : Live(e) /\ owner[e] = Nobody}
    /\ entity' = [entity EXCEPT ![survivor] = MergedRow(survivor, merged), ![merged].into = survivor]
    /\ UNCHANGED <<owner, at, missing, found, relations, late, createdTwice>>
MergeForgets(survivor, merged) ==
    /\ survivor # merged
    /\ {survivor, merged} \subseteq {e \in Used : Live(e) /\ owner[e] = Nobody}
    /\ entity' = [entity EXCEPT ![merged].into = survivor]
    /\ relations' = Rewired(relations, survivor, merged)
    /\ late' = Rewired(late, survivor, merged)
    /\ UNCHANGED <<owner, at, missing, found, createdTwice>>

(* merge_entities, between two committed entities that are not tombstones; *)
(* one merge at a time.                                                    *)
Merge(survivor, merged) ==
    /\ survivor # merged
    /\ {survivor, merged} \subseteq {e \in Used : Live(e) /\ owner[e] = Nobody}
    /\ entity' = [entity EXCEPT ![survivor] = MergedRow(survivor, merged), ![merged].into = survivor]
    /\ relations' = Rewired(relations, survivor, merged)
    /\ late' = Rewired(late, survivor, merged)
    /\ UNCHANGED <<owner, at, missing, found, createdTwice>>

EntityNext ==
    \/ \E s \in Resolvers :
         \/ LookUpRegistry(s) \/ InsertRow(s) \/ CommitRegistry(s)
         \/ \E c \in Candidates : Resolve(s, c) \/ CreateEntity(s, c)
         \/ PersistRelation(s)
    \/ \E survivor, merged \in Ids : Merge(survivor, merged)

EntitySpec == EntityInit /\ [][EntityNext]_entityVars

-----------------------------------------------------------------------------
(* Names that the registry gives to two entities.  Every mention of one is *)
(* ambiguous from the first bootstrap on and makes another entity.         *)
ListedTwice == {r.span : r \in {q \in Registry : \E p \in Registry \ {q} : p.span = q.span}}

(* Any other name belongs to at most one live entity, unless two sessions  *)
(* that could not see each other's rows have both created it (from then on *)
(* the name is ambiguous, and every mention of it makes another entity).   *)
NamesUnique ==
    \A n \in {c.span : c \in Candidates \cup Registry} \ (createdTwice \cup ListedTwice) :
        Cardinality({e \in Used : Live(e) /\ owner[e] = Nobody /\ n \in entity[e].aliases}) <= 1

(* Where the chain of merges of an entity ends.                            *)
Root[e \in Ids] == IF Live(e) THEN e ELSE Root[entity[e].into]

(* A merge sticks: through chains of merges every name of a tombstone ends *)
(* at a live entity that answers to it, so that resolution does not make   *)
(* the merged entity again.                                                *)
MergesStick ==
    \A e \in Used : entity[e].aliases \subseteq entity[Root[e]].aliases

(* Bootstrapping again brings no merged entity back: whatever carries the  *)
(* id of a registry row, a survivor or a tombstone, is one entity in the   *)
(* end, unless two bootstraps overlapped.                                  *)
RowsOnce ==
    \A r \in Registry : r.span \notin createdTwice =>
        \A e, f \in Used : entity[e].xid = r.xid /\ entity[f].xid = r.xid => Root[e] = Root[f]

(* No relation of an entity to itself, and none to a tombstone except from *)
(* a session that resolved the name before the merge and committed after.  *)
RelationsLive ==
    \A r \in relations : r[1] # r[2] /\ (r \in late \/ (Live(r[1]) /\ Live(r[2])))

(* Names, registry rows, merges and relations together.                    *)
NamesSound == NamesUnique /\ MergesStick /\ RowsOnce /\ RelationsLive
=============================================================================
