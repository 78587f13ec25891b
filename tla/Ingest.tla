------------------------------- MODULE Ingest -------------------------------
(***************************************************************************)
(* Evidence ingestion: _persist.py (insert_or_get_evidence for archival    *)
(* sources, insert_or_replace_evidence for live snapshots, insert_chunks)  *)
(* as the macro stage (funnel_research/_ingest.py) and the company and     *)
(* sector stages (company/evidence.py) call it, from several runs at once. *)
(* A step is one SQL statement; a transaction waits for the row and key    *)
(* locks of another as Postgres does at READ COMMITTED.  The content of a  *)
(* payload stands for its hash; all the chunks of a row are one version.   *)
(***************************************************************************)
EXTENDS Naturals, Sequences, FiniteSetsExt, Functions

CONSTANTS
    Docs,        \* sequence of the documents a reader ingests
    LiveDocs,    \* those of live-snapshot sources
    Contents,    \* payload contents, i.e. content hashes
    Readers,     \* stages ingesting at the same time
    MacroReaders, \* those that are run_ingest; the others isolate failures
    MaxPublish   \* bound: changes of upstream payloads

(* A reader asks each source once.                                         *)
ASSUME IngestAssumption ==
    /\ Docs \in Seq(Range(Docs)) /\ IsInjective(Docs)
    /\ Contents \subseteq Nat \ {0}

VARIABLES
    upstream,  \* what a source would answer now
    row,       \* committed evidence: its content_hash and its chunks
    pc,        \* step of the reader, within its transaction
    todo,      \* places in Docs of what it has still to ingest
    payload,   \* what it has fetched
    cleared,   \* whether its DELETE removed the chunks it found
    got,       \* evidence rows it goes on with
    lost,      \* documents it fetched and could not ingest
    read,      \* chunks it has materialised at the end
    alone,     \* no other transaction has overlapped with its own
    published  \* changes so far

ingestVars == <<upstream, row, pc, todo, payload, cleared, got, lost, read, alone, published>>

-----------------------------------------------------------------------------
DocSet == Range(Docs)
Nothing == 0                      \* no payload, no row, no chunks

(* A row of the evidence table; there is none with hash Nothing.           *)
NoRow == [hash |-> Nothing, chunks |-> Nothing]
Ingestion(c) == [hash |-> c, chunks |-> c]
Exists(d) == row[d] # NoRow

Doc(r) == Docs[Min(todo[r])]
Rest(r) == todo[r] \ {Min(todo[r])}
Content(r) == payload[r][Doc(r)]
InTransaction(r) == pc[r] \in {"insert", "lookup", "byhash", "delete", "blocked", "deleted", "updated", "new"}

(* Key locks: an inserted or updated row, not committed, holds its document *)
(* and its hash, and an updated one its old hash as well.                   *)
Holds(q, doc, hash) ==
    /\ pc[q] \in {"new", "updated"}
    /\ \/ Doc(q) = doc
       \/ hash \in {Content(q), row[Doc(q)].hash}

(* Row locks on the chunks a DELETE has removed.                           *)
HoldsChunks(q, doc) == pc[q] \in {"deleted", "updated"} /\ cleared[q] /\ Doc(q) = doc

(* Earlier runs may have ingested some of the documents.                   *)
IngestInit ==
    /\ upstream \in [DocSet -> Contents]
    /\ row \in {f \in [DocSet -> {NoRow} \cup {Ingestion(c) : c \in Contents}] :
                  \A d, e \in DocSet : d # e /\ f[d] # NoRow => f[d] # f[e]}
    /\ pc = [r \in Readers |-> IF r \in MacroReaders THEN "gather" ELSE "fetch"]
    /\ todo = [r \in Readers |-> DOMAIN Docs]
    /\ payload = [r \in Readers |-> [d \in DocSet |-> Nothing]]
    /\ cleared = [r \in Readers |-> FALSE]
    /\ got = [r \in Readers |-> {}] /\ lost = [r \in Readers |-> {}]
    /\ read = [r \in Readers |-> [d \in DocSet |-> Nothing]]
    /\ alone = [r \in Readers |-> TRUE]
    /\ published = 0

-----------------------------------------------------------------------------
(* A source has something new.                                             *)
Publish(d) ==
    /\ published < MaxPublish
    /\ \E c \in Contents \ {upstream[d]} : upstream' = [upstream EXCEPT ![d] = c]
    /\ published' = published + 1
    /\ UNCHANGED <<row, pc, todo, payload, cleared, got, lost, read, alone>>

(* The macro stage fetches all its sources first; some may fail or have    *)
(* nothing, and are left out.                                              *)
Gather(r) ==
    /\ pc[r] = "gather"
    /\ \E answered \in SUBSET DocSet :
         /\ payload' = [payload EXCEPT ![r] = [d \in DocSet |-> IF d \in answered THEN upstream[d] ELSE Nothing]]
         /\ todo' = [todo EXCEPT ![r] = {i \in @ : Docs[i] \in answered}]
    /\ pc' = [pc EXCEPT ![r] = "next"]
    /\ UNCHANGED <<upstream, row, cleared, got, lost, read, alone, published>>

(* The other stages fetch source by source; a fetch that fails or is empty *)
(* is a warning.                                                           *)
Fetch(r) ==
    /\ pc[r] = "fetch" /\ todo[r] # {}
    /\ \/ /\ payload' = [payload EXCEPT ![r][Doc(r)] = upstream[Doc(r)]]
          /\ pc' = [pc EXCEPT ![r] = "next"]
          /\ UNCHANGED todo
       \/ /\ todo' = [todo EXCEPT ![r] = Rest(r)]
          /\ UNCHANGED <<payload, pc>>
    /\ UNCHANGED <<upstream, row, cleared, got, lost, read, alone, published>>

Begin(r) ==
    /\ pc[r] = "next" /\ todo[r] # {}
    /\ pc' = [pc EXCEPT ![r] = "insert"]
    /\ LET others == {q \in Readers \ {r} : InTransaction(q)} IN
       alone' = [q \in Readers |->
                   IF q = r THEN alone[r] /\ others = {} ELSE alone[q] /\ q \notin others]
    /\ UNCHANGED <<upstream, row, todo, payload, cleared, got, lost, read, published>>

(* INSERT in a savepoint: it waits for the holder of one of its keys, and  *)
(* fails on a committed row with the same document or hash.                *)
Insert(r) ==
    /\ pc[r] = "insert"
    /\ \A q \in Readers \ {r} : ~Holds(q, Doc(r), Content(r))
    /\ LET clash == Exists(Doc(r)) \/ \E d \in DocSet : row[d].hash = Content(r) IN
       pc' = [pc EXCEPT ![r] = IF clash THEN "lookup" ELSE "new"]
    /\ UNCHANGED <<upstream, row, todo, payload, cleared, got, lost, read, alone, published>>

(* The transaction ends and row e is among the evidence.                   *)
After(r) == IF r \in MacroReaders THEN "next" ELSE "fetch"
Ingested(r, e) ==
    /\ got' = [got EXCEPT ![r] = @ \cup {e}]
    /\ todo' = [todo EXCEPT ![r] = Rest(r)]
    /\ pc' = [pc EXCEPT ![r] = After(r)]
    /\ UNCHANGED <<upstream, payload, lost, read, alone, published>>

(* It is rolled back: run_ingest lets the exception end the run, the other *)
(* stages warn and go on without the source.                               *)
Raised(r) ==
    /\ lost' = [lost EXCEPT ![r] = @ \cup {Doc(r)}]
    /\ todo' = [todo EXCEPT ![r] = Rest(r)]
    /\ pc' = [pc EXCEPT ![r] = IF r \in MacroReaders THEN "failed" ELSE "fetch"]
    /\ UNCHANGED <<upstream, row, payload, cleared, got, read, alone, published>>

(* Mutant of Lookup: a row with the same document is good enough.          *)
LookupByDocument(r) ==
    /\ pc[r] = "lookup"
    /\ IF Exists(Doc(r)) THEN Ingested(r, Doc(r)) /\ UNCHANGED <<row, cleared>>
       ELSE /\ pc' = [pc EXCEPT ![r] = "byhash"]
            /\ UNCHANGED <<upstream, row, todo, payload, cleared, got, lost, read, alone, published>>

(* The row of the document: the same payload is an idempotent hit, another *)
(* one is a conflict for an archival source and an upgrade for a live one. *)
Lookup(r) ==
    /\ pc[r] = "lookup"
    /\ CASE Exists(Doc(r)) /\ row[Doc(r)].hash = Content(r) ->
              Ingested(r, Doc(r)) /\ UNCHANGED <<row, cleared>>
         [] Exists(Doc(r)) /\ row[Doc(r)].hash # Content(r) /\ Doc(r) \notin LiveDocs -> Raised(r)
         [] OTHER ->
              /\ pc' = [pc EXCEPT ![r] = IF Exists(Doc(r)) THEN "delete" ELSE "byhash"]
              /\ UNCHANGED <<upstream, row, todo, payload, cleared, got, lost, read, alone, published>>

(* Mutant of ByHash: only the document is looked up.                       *)
ByHashNot(r) == pc[r] = "byhash" /\ Raised(r)

(* Another document with the same payload stands in for this one; if it    *)
(* has been replaced meanwhile there is no matching row.                   *)
ByHash(r) ==
    /\ pc[r] = "byhash"
    /\ \/ \E d \in DocSet :
            row[d].hash = Content(r) /\ Ingested(r, d) /\ UNCHANGED <<row, cleared>>
       \/ (\A d \in DocSet : row[d].hash # Content(r)) /\ Raised(r)

(* DELETE of the old chunks.  Behind another DELETE it waits: it finds     *)
(* nothing if that one commits (Replaced), and the rows if it rolls back.  *)
DeleteChunks(r) ==
    /\ pc[r] = "delete"
    /\ cleared' = [cleared EXCEPT ![r] = TRUE]
    /\ pc' = [pc EXCEPT ![r] = IF \E q \in Readers \ {r} : HoldsChunks(q, Doc(r)) THEN "blocked" ELSE "deleted"]
    /\ UNCHANGED <<upstream, row, todo, payload, got, lost, read, alone, published>>

DeleteGoesOn(r) ==
    /\ pc[r] = "blocked"
    /\ \A q \in Readers \ {r} : ~HoldsChunks(q, Doc(r))
    /\ pc' = [pc EXCEPT ![r] = "deleted"]
    /\ UNCHANGED <<upstream, row, todo, payload, cleared, got, lost, read, alone, published>>

(* UPDATE of the row: the hash is unique.                                  *)
Update(r) ==
    /\ pc[r] = "deleted"
    /\ \A q \in Readers \ {r} : ~Holds(q, Doc(r), Content(r))
    /\ IF \E d \in DocSet \ {Doc(r)} : row[d].hash = Content(r) THEN Raised(r)
       ELSE /\ pc' = [pc EXCEPT ![r] = "updated"]
            /\ UNCHANGED <<upstream, row, todo, payload, cleared, got, lost, read, alone, published>>

(* Mutant of Replaced: was_inserted is not reported, nothing is chunked.   *)
ReplacedUnchunked(r) ==
    /\ pc[r] = "updated" /\ cleared[r]
    /\ row' = [row EXCEPT ![Doc(r)] = [hash |-> Content(r), chunks |-> Nothing]]
    /\ cleared' = [q \in Readers |-> cleared[q] /\ ~(pc[q] = "blocked" /\ Doc(q) = Doc(r))]
    /\ Ingested(r, Doc(r))

(* The new chunks are inserted and the transaction commits.                *)
Replaced(r) ==
    /\ pc[r] = "updated" /\ cleared[r]
    /\ row' = [row EXCEPT ![Doc(r)] = Ingestion(Content(r))]
    /\ cleared' = [q \in Readers |-> cleared[q] /\ ~(pc[q] = "blocked" /\ Doc(q) = Doc(r))]
    /\ Ingested(r, Doc(r))

(* The chunks another run has committed meanwhile are in the way:          *)
(* (evidence_id, chunk_index) is unique.                                   *)
ChunkClash(r) == pc[r] = "updated" /\ ~cleared[r] /\ Raised(r)

(* A new row and its chunks are committed.                                 *)
Inserted(r) ==
    /\ pc[r] = "new"
    /\ row' = [row EXCEPT ![Doc(r)] = Ingestion(Content(r))]
    /\ Ingested(r, Doc(r))
    /\ UNCHANGED cleared

(* All the chunks of the evidence, as they are now; the macro stage fails  *)
(* without any evidence.                                                   *)
Materialise(r) ==
    /\ pc[r] \in {"next", "fetch"} /\ todo[r] = {}
    /\ pc' = [pc EXCEPT ![r] = IF r \in MacroReaders /\ got[r] = {} THEN "failed" ELSE "done"]
    /\ read' = [read EXCEPT ![r] = [e \in DocSet |-> IF e \in got[r] THEN row[e].chunks ELSE Nothing]]
    /\ UNCHANGED <<upstream, row, todo, payload, cleared, got, lost, alone, published>>

IngestNext ==
    \/ \E d \in DocSet : Publish(d)
    \/ \E r \in Readers :
         \/ Gather(r) \/ Fetch(r) \/ Begin(r) \/ Insert(r) \/ Lookup(r) \/ ByHash(r)
         \/ DeleteChunks(r) \/ DeleteGoesOn(r) \/ Update(r) \/ Replaced(r) \/ ChunkClash(r)
         \/ Inserted(r) \/ Materialise(r)

IngestSpec == IngestInit /\ [][IngestNext]_ingestVars

-----------------------------------------------------------------------------
(* A row that others can see has chunks, and they are those of the payload *)
(* its hash stands for, however the replacements of two runs interleave.   *)
ChunksOfHash == \A d \in DocSet : row[d].chunks = row[d].hash

(* What a stage goes on to read is what it fetched, unless the row belongs *)
(* to a live snapshot, which another run may have replaced since.          *)
ReadsFetched ==
    \A r \in Readers : pc[r] = "done" =>
        \A e \in got[r] \ LiveDocs :
            \E d \in DocSet \ lost[r] : read[r][e] = payload[r][d]

(* A stage that no other overlaps with loses a payload it fetched only if  *)
(* the document is archival and has changed, or if another document has    *)
(* the payload: everything else is an idempotent hit or an upgrade.        *)
LostForCause ==
    [][\A r \in Readers : alone[r] =>
          \A d \in lost'[r] \ lost[r] :
             \/ d \notin LiveDocs /\ Exists(d) /\ row[d].hash # payload[r][d]
             \/ d \in LiveDocs /\ \E e \in DocSet \ {d} : row[e].hash = payload[r][d]]_ingestVars

(* All three: what a stage reads is what its sources said, whatever other  *)
(* stages store meanwhile, and it misses none of it without a cause.       *)
EvidenceSound == [](ChunksOfHash /\ ReadsFetched) /\ LostForCause

=============================================================================
