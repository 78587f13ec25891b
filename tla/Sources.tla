------------------------------ MODULE Sources -------------------------------
(***************************************************************************)
(* What the funnel keeps of one source from run to run.  Every fetch is    *)
(* ingested under a document id that the source's module in                *)
(* services/ingestion makes out of the answer, and the hash of the answer  *)
(* (the bytes of its body) decides whether it is new, known, or in         *)
(* conflict with what is stored under that id.  The statements of one      *)
(* ingestion are in module Ingest; here they are one step, and time is the *)
(* changes of the answer between the stages of successive runs.            *)
(***************************************************************************)
EXTENDS Naturals, FiniteSets

CONSTANTS
    Width,       \* how many item keys fit in the 200 characters of an id
    ListLength,  \* how many of the newest items a source lists
    Fallback,    \* capitol_trades_base_url is configured
    MaxChanges   \* bound: changes of the answer

ASSUME SourcesAssumption == {Width, ListLength} \subseteq Nat \ {0}

VARIABLES
    source,    \* the one that is followed
    answer,    \* what it would answer now
    stored,    \* its evidence rows
    fate,      \* what became of the last fetch
    queried,   \* what it was answered
    fetched,   \* the evidence row that came out of it, if any
    holders,   \* entities with the company's ticker (ticker_normalized)
    attrs,     \* the fields that profiles have given to such an entity
    told,      \* the last value of those fields answered since it is there
    former,    \* values answered before another one, or before it was there
    changes    \* changes so far

feedVars ==
    <<source, answer, stored, fate, queried, fetched, holders, attrs, told, former, changes>>

-----------------------------------------------------------------------------
Macro == {"fred", "polymarket_events", "kalshi_markets", "congress_bills", "tiingo_news"}
Sector == {"polygon_aggregates", "tiingo_news"}
Company == {"polygon_aggregates", "tiingo_news", "congress_trades", "sec_edgar",
            "finnhub_recommendation", "finnhub_price_target", "finnhub_insider",
            "finnhub_peers", "finnhub_profile"}

(* Answers: items by age, a field the id may contain (a day, the date of   *)
(* the last update, the fields of a profile; NoFields if it has none),       *)
(* the version of everything else, and who answered.                       *)
NoFields == 0
Dated == {"polygon_aggregates", "finnhub_price_target", "finnhub_profile"}

(* Sources whose items do not change once published: the list moves on.    *)
Feeds == {"tiingo_news", "congress_trades", "finnhub_insider"}

-----------------------------------------------------------------------------
(* The document ids, and with them whether a stored row is replaced and    *)
(* how many chunks are made of an answer.                                  *)

(* Mutant of Listed: the number of items is left out.                      *)
ListedUncounted(items) ==
    {k \in items : Cardinality({j \in items : j < k}) < Width}

(* The number of items and as many of their sorted keys as there is room.  *)
Listed(items) ==
    <<Cardinality(items), {k \in items : Cardinality({j \in items : j < k}) < Width}>>

Document(id, a) == [id |-> id, live |-> FALSE, chunks |-> Cardinality(a.items)]

TiingoNews(a) == Document(Listed(a.items), a)
FinnhubInsider(a) == Document(Listed(a.items), a)
FinnhubRecommendation(a) == Document(Listed(a.items), a)
FinnhubPeers(a) == [Document(Listed(a.items), a) EXCEPT !.chunks = 1]
KalshiMarkets(a) == Document(Listed(a.items), a)
PolymarketEvents(a) == [Document(Listed(a.items), a) EXCEPT !.live = TRUE]
CongressBills(a) == [Document(Listed(a.items), a) EXCEPT !.live = TRUE]
CongressTrades(a) == Document(<<a.by, Listed(a.items)>>, a)
PolygonAggregates(a) == Document(a.dated, a)
FinnhubPriceTarget(a) == [Document(a.dated, a) EXCEPT !.chunks = 1]
FinnhubProfile(a) == [Document(a.dated, a) EXCEPT !.chunks = 1]

(* Whatever the answer: the range of the whole series, the CIK.            *)
Fred(a) == Document("series", a)
SecFilings(a) == Document("submissions", a)

DocumentOf(a) ==
    CASE source = "tiingo_news"            -> TiingoNews(a)
      [] source = "finnhub_insider"        -> FinnhubInsider(a)
      [] source = "finnhub_recommendation" -> FinnhubRecommendation(a)
      [] source = "finnhub_peers"          -> FinnhubPeers(a)
      [] source = "kalshi_markets"         -> KalshiMarkets(a)
      [] source = "polymarket_events"      -> PolymarketEvents(a)
      [] source = "congress_bills"         -> CongressBills(a)
      [] source = "congress_trades"        -> CongressTrades(a)
      [] source = "polygon_aggregates"     -> PolygonAggregates(a)
      [] source = "finnhub_price_target"   -> FinnhubPriceTarget(a)
      [] source = "finnhub_profile"        -> FinnhubProfile(a)
      [] source = "fred"                   -> Fred(a)
      [] source = "sec_edgar"              -> SecFilings(a)

-----------------------------------------------------------------------------
FeedInit ==
    /\ source \in Macro \cup Sector \cup Company
    /\ answer = [items |-> {1}, dated |-> 1, rest |-> 0, by |-> "ainvest_congress"]
    /\ queried = answer
    /\ stored = {} /\ fetched = {}
    /\ fate = "none"
    /\ holders = 0 /\ attrs = NoFields /\ told = NoFields /\ former = {}
    /\ changes = 0

Newest(items) == {k \in items : Cardinality({j \in items : j > k}) < ListLength}
LastKey(items) == CHOOSE k \in items : \A j \in items : j <= k

(* The source has a new item, or its oldest one falls out of the window    *)
(* that is asked for.                                                      *)
MoveOn ==
    LET items == answer.items IN
    \/ answer' = [answer EXCEPT !.items = Newest(items \cup {LastKey(items) + 1})]
    \/ /\ Cardinality(items) > 1
       /\ answer' = [answer EXCEPT !.items = {k \in items : \E j \in items : j < k}]

(* A bar, a price, a count, or the order of a list changes.                *)
Revise ==
    /\ source \notin Feeds
    /\ answer' = [answer EXCEPT !.rest = @ + 1]

(* The day, the date of the update, or the fields of the profile change;   *)
(* a profile may lose them, and days do not come back.                     *)
Restate ==
    /\ source \in Dated
    /\ \E d \in IF source = "finnhub_profile" THEN {NoFields, 1, 2} \ {answer.dated}
                ELSE {answer.dated + 1} :
          answer' = [answer EXCEPT !.dated = d, !.rest = @ + 1]

AnswerChanges ==
    /\ changes < MaxChanges
    /\ changes' = changes + 1
    /\ MoveOn \/ Revise \/ Restate
    /\ UNCHANGED <<source, stored, fate, queried, fetched, holders, attrs, told, former>>

(* A registry of companies is loaded and inserts an entity with the ticker.*)
(* SEC's, Polygon's and Tiingo's rows have ids of their own, so that one   *)
(* does not find the entity of another; entities made by resolution have no*)
(* ticker.                                                                 *)
Registered ==
    /\ source = "finnhub_profile" /\ holders < 2
    /\ holders' = holders + 1
    /\ told' = IF holders = 0 THEN NoFields ELSE told
    /\ former' = former \cup {told}
    /\ UNCHANGED <<source, answer, stored, fate, queried, fetched, attrs, changes>>

-----------------------------------------------------------------------------
(* insert_or_get_evidence and insert_or_replace_evidence.                  *)

Row(a) == [id |-> DocumentOf(a).id, body |-> a, chunks |-> DocumentOf(a).chunks]
SameId(a) == {r \in stored : r.id = DocumentOf(a).id}
SameBody(a) == {r \in SameId(a) : r.body = a}

Unused(f) ==
    /\ fate' = f /\ fetched' = {}
    /\ UNCHANGED <<source, answer, stored, holders, attrs, changes>>

Kept(a) ==
    /\ fate' = "kept" /\ fetched' = {Row(a)}
    /\ UNCHANGED <<source, answer, holders, changes>>

(* Mutant of Backfilled: missing fields overwrite those of the entity.     *)
BackfilledBlank(a) ==
    attrs' = IF source = "finnhub_profile" /\ holders = 1 THEN a.dated ELSE attrs

(* _backfill_entity_attributes: fields that are missing are kept, and      *)
(* nothing is written if no entity has the ticker.                         *)
Backfilled(a) ==
    attrs' = IF source = "finnhub_profile" /\ holders = 1 /\ a.dated # NoFields
             THEN a.dated ELSE attrs

(* With two entities its lookup raises, and the whole ingestion is undone. *)
HolderAmbiguous == source = "finnhub_profile" /\ holders > 1

(* Mutant of Conflict: the stored row is taken for the answer.             *)
ConflictIgnored(a, stage) ==
    /\ SameId(a) # {} /\ SameBody(a) = {} /\ ~DocumentOf(a).live
    /\ fate' = "kept" /\ fetched' = SameId(a)
    /\ UNCHANGED <<source, answer, stored, holders, attrs, changes>>

(* The macro stage lets the exception end the run, the others warn.        *)
Conflict(a, stage) ==
    /\ SameId(a) # {} /\ SameBody(a) = {} /\ ~DocumentOf(a).live
    /\ Unused(IF stage = "macro" THEN "raised" ELSE "lost")

Accepted(a) ==
    /\ SameId(a) = {} \/ SameBody(a) # {} \/ DocumentOf(a).live
    /\ ~HolderAmbiguous
    /\ stored' = (stored \ SameId(a)) \cup {Row(a)}
    /\ Kept(a)
    /\ Backfilled(a)

Undone(a) ==
    /\ SameId(a) = {} \/ SameBody(a) # {} \/ DocumentOf(a).live
    /\ HolderAmbiguous
    /\ Unused("lost")

(* What the entity should say is the last answer that had the fields.      *)
TellsOf(a) ==
    IF source = "finnhub_profile" /\ a.dated \notin {NoFields, told}
    THEN told' = a.dated /\ former' = former \cup {told}
    ELSE UNCHANGED <<told, former>>

Ingest(a, stage) ==
    /\ queried' = a
    /\ Accepted(a) \/ Undone(a) \/ Conflict(a, stage)
    /\ TellsOf(a)

Skipped == Unused("skipped") /\ UNCHANGED <<queried, told, former>>

-----------------------------------------------------------------------------
(* The stages.  A fetch may raise, an answer may be empty, and a company   *)
(* may have no ticker: a warning.                                          *)

Fetching(name, stage) == source = name /\ (Ingest(answer, stage) \/ Skipped)

MacroFetch == \E name \in Macro : Fetching(name, "macro")

SectorAggregates == Fetching("polygon_aggregates", "sector")
SectorNews == Fetching("tiingo_news", "sector")

FetchAggregates == Fetching("polygon_aggregates", "company")
FetchNews == Fetching("tiingo_news", "company")
FetchSec == Fetching("sec_edgar", "company")
FetchFinnhubRecommendation == Fetching("finnhub_recommendation", "company")
FetchFinnhubPriceTarget == Fetching("finnhub_price_target", "company")
FetchFinnhubInsider == Fetching("finnhub_insider", "company")
FetchFinnhubPeers == Fetching("finnhub_peers", "company")
FetchFinnhubProfile == Fetching("finnhub_profile", "company")

(* fetch_congress_trades_for_ticker: when Ainvest is down, not when it     *)
(* refuses, Capitol Trades is asked for the same trades.                   *)
FetchCongressTrades ==
    \/ Fetching("congress_trades", "company")
    \/ /\ source = "congress_trades" /\ Fallback
       /\ Ingest([answer EXCEPT !.by = "capitol_trades"], "company")

FeedNext ==
    \/ AnswerChanges \/ Registered
    \/ MacroFetch \/ SectorAggregates \/ SectorNews
    \/ FetchAggregates \/ FetchNews \/ FetchSec \/ FetchCongressTrades
    \/ FetchFinnhubRecommendation \/ FetchFinnhubPriceTarget \/ FetchFinnhubInsider
    \/ FetchFinnhubPeers \/ FetchFinnhubProfile

FeedSpec == FeedInit /\ [][FeedNext]_feedVars

-----------------------------------------------------------------------------
(* A feed that only moves on is never in conflict, although its id is cut: *)
(* sorted from the oldest, and with their number in front, the keys that   *)
(* fit tell its lists apart.                                               *)
FeedsKept == source \in Feeds => fate \notin {"lost", "raised"}

(* The macro stage, which does not catch the conflict, dies of no other    *)
(* source than FRED and Kalshi.                                            *)
MacroFailsFor == fate = "raised" => source \in {"fred", "kalshi_markets"}

(* What a stage goes on with is what it was answered, in the chunks of     *)
(* that answer, and never a version stored by an earlier run.              *)
NeverOutdated == \A r \in fetched : r = Row(queried)

(* If exactly one entity has the company's ticker, it has the fields of the*)
(* last profile that was answered since it is there, also when the profile *)
(* itself was a conflict, unless those fields had been answered before:    *)
(* then the row of that time is in the way.  (Without an entity nobody is  *)
(* told anything; with two every profile is lost.)                         *)
EntityCurrent ==
    /\ holders = 1 /\ told # attrs => told \in former
    /\ holders = 0 => attrs = NoFields

(* All of what a run may rely on of its sources.                           *)
SourcesSound == FeedsKept /\ MacroFailsFor /\ NeverOutdated /\ EntityCurrent

=============================================================================
