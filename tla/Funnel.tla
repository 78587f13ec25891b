------------------------------- MODULE Funnel -------------------------------
(***************************************************************************)
(* The rows of one research run from stage to stage: the macro brief, the  *)
(* sector briefs and company theses selected from it, and the portfolio    *)
(* that sums them up, while a budget halt ends an attempt anywhere and a   *)
(* resumed run goes over all stages again (strategies/funnel_research).    *)
(* How one brief comes about is in Briefs, what the tasks of a fan-out     *)
(* spend in Fanout.  Sectors, companies and ideas are numbered in the      *)
(* order of their names; one worker runs the job.                          *)
(***************************************************************************)
EXTENDS Integers, Sequences, FiniteSets, SequencesExt

CONSTANTS
    MacroContents,    \* verified, calls: sequence of [sector, direction, conviction], claims
    SectorContents,   \* verified, judge, direction, conviction, claims, ideas: sequence of
                      \* [idea, direction, conviction]
    ThesisContents,   \* verified, judge, direction, conviction, claims
    Configured,       \* sectors with constituents
    Key,              \* of an idea: its ticker, or its normalised name without one
    Entity,           \* of an idea: the company its ticker, name or alias is known for, or 0
    MaxSectors, MaxCompanies, Concurrency, MaxAttempts

(* Convictions and ranks of sectors and ideas are numbers, a verdict is one*)
(* of three.                                                               *)
ASSUME FunnelAssumption ==
    /\ {MaxSectors, MaxCompanies} \subseteq Nat
    /\ \A m \in MacroContents :
        m.calls \in Seq([sector : Int, direction : STRING, conviction : Int])
    /\ \A b \in SectorContents :
        b.ideas \in Seq([idea : Int, direction : STRING, conviction : Int])
    /\ \A b \in SectorContents \cup ThesisContents :
        b.conviction \in Int /\ b.judge \in {"passed", "flagged", "not_run"}

VARIABLES
    macro,      \* the rows: a brief or Missing,
    sectors,    \* one per sector: brief, attempt,
    theses,     \* one per company entity: brief, idea, sector, attempt,
    portfolio,  \* and the summary or Missing
    stage, picked, item, tries

funnelVars == <<macro, sectors, theses, portfolio, stage, picked, item, tries>>

-----------------------------------------------------------------------------
Missing == [attempt |-> 0]
Empty == [x \in {} |-> Missing]
With(rows, key, r) == [k \in DOMAIN rows \cup {key} |-> IF k = key THEN r ELSE rows[k]]

(* Sort keys are compared like tuples.                                     *)
Precedes(a, b) ==
    \E n \in DOMAIN a : a[n] < b[n] /\ \A k \in 1..n - 1 : a[k] = b[k]

(* The value at a place of the list is the one with as many before it.     *)
Place(e, S) == Cardinality({d \in S : Precedes(d.key, e.key)})
Sorted(S) ==
    [n \in 1..Cardinality(S) |-> (CHOOSE e \in S : Place(e, S) = n - 1).value]
Taken(s, n) == IF Len(s) <= n THEN s ELSE SubSeq(s, 1, n)

NonNeutral(s) == {i \in DOMAIN s : s[i].direction # "neutral"}

(* select_sectors: a sector that is called twice is selected twice.        *)
SelectSectors(m) ==
    Taken(Sorted({[key |-> <<-m.calls[i].conviction, m.calls[i].sector, i>>,
                   value |-> [idea |-> 0, sector |-> m.calls[i].sector]] :
                     i \in NonNeutral(m.calls)}), MaxSectors)

(* select_companies: the ideas of all sector briefs, verified or not, the  *)
(* first one with each key.                                                *)
Ideas(rows) ==
    UNION {{[key |-> <<-rows[s].brief.ideas[i].conviction, s, i>>,
             value |-> [idea |-> rows[s].brief.ideas[i].idea, sector |-> s]] :
                i \in NonNeutral(rows[s].brief.ideas)} : s \in DOMAIN rows}
FirstOfKey(S) ==
    {p \in S : ~\E q \in S : Key[q.value.idea] = Key[p.value.idea] /\ Precedes(q.key, p.key)}

(* Mutant of SelectCompanies: neither deduplicated nor cut.                *)
EveryIdea(rows) == Sorted(Ideas(rows))

SelectCompanies(rows) == Taken(Sorted(FirstOfKey(Ideas(rows))), MaxCompanies)

-----------------------------------------------------------------------------
(* aggregate_portfolio.                                                    *)
DirectionRank(d) == IF d = "neutral" THEN 1 ELSE 0
JudgeRank(j) == CASE j = "passed" -> 0 [] j = "flagged" -> 1 [] j = "not_run" -> 2

SectorKey(s) ==
    LET b == sectors[s].brief
    IN <<DirectionRank(b.direction), JudgeRank(b.judge), -b.conviction, s>>
SectorEntries == Sorted({[key |-> SectorKey(s), value |-> s] : s \in DOMAIN sectors})

CompanyKey(c) ==
    LET b == theses[c].brief
    IN <<DirectionRank(b.direction), JudgeRank(b.judge), -b.conviction,
         theses[c].sector, theses[c].idea>>
CompanyEntries == Sorted({[key |-> CompanyKey(c), value |-> c] : c \in DOMAIN theses})

(* The briefs that are summed up.                                          *)
Upstream ==
    {macro.brief} \cup {sectors[s].brief : s \in DOMAIN sectors}
                  \cup {theses[c].brief : c \in DOMAIN theses}

CollateClaims == UNION {b.claims : b \in Upstream}

(* Mutant of RollupVerified: the theses are forgotten.                     *)
MacroAndSectorsVerified ==
    macro.brief.verified /\ \A s \in DOMAIN sectors : sectors[s].brief.verified

RollupVerified == \A b \in Upstream : b.verified

CountOf(rows, field, value) == Cardinality({k \in DOMAIN rows : rows[k].brief[field] = value})
Coverage(rows) ==
    [selected |-> Cardinality(DOMAIN rows),
     verified |-> CountOf(rows, "verified", TRUE),
     passed |-> CountOf(rows, "judge", "passed"),
     flagged |-> CountOf(rows, "judge", "flagged")]

Aggregate ==
    [sectors |-> SectorEntries, companies |-> CompanyEntries, claims |-> CollateClaims,
     coverage |-> <<Coverage(sectors), Coverage(theses)>>, verified |-> RollupVerified]

-----------------------------------------------------------------------------
FunnelInit ==
    /\ macro = Missing /\ sectors = Empty /\ theses = Empty /\ portfolio = Missing
    /\ stage = "macro" /\ picked = <<>> /\ item = <<>> /\ tries = 1

rowVars == <<macro, sectors, theses, portfolio>>

(* A fan-out creates all its tasks at once.                                *)
StartFanout(s, selected) ==
    /\ stage' = s /\ picked' = selected
    /\ item' = [i \in DOMAIN selected |-> "waiting"]

(* The macro stages: a row that is there is used.                          *)
WriteMacro ==
    /\ stage = "macro" /\ macro = Missing
    /\ \E m \in MacroContents :
        /\ macro' = [brief |-> m, attempt |-> tries]
        /\ StartFanout("sectors", SelectSectors(m))
    /\ UNCHANGED <<sectors, theses, portfolio, tries>>

LoadMacro ==
    /\ stage = "macro" /\ macro # Missing
    /\ StartFanout("sectors", SelectSectors(macro.brief))
    /\ UNCHANGED <<rowVars, tries>>

(* The evidence cannot be ingested, which is done in any case, or the macro*)
(* brief does not come about.                                              *)
MacroFails ==
    /\ stage = "macro"
    /\ stage' = "macro_failed"
    /\ UNCHANGED <<rowVars, picked, item, tries>>

-----------------------------------------------------------------------------
Active == Cardinality({i \in DOMAIN item : item[i] = "running"})

HasRow(i) == IF stage = "sectors" THEN picked[i].sector \in DOMAIN sectors
             ELSE Entity[picked[i].idea] \in DOMAIN theses
Workable(i) == IF stage = "sectors" THEN picked[i].sector \in Configured
               ELSE Entity[picked[i].idea] # 0

(* Mutant of CheckItem: nobody looks for a row of an earlier attempt.          *)
CheckNothing(i) ==
    /\ stage \in {"sectors", "companies"} /\ item[i] = "waiting" /\ Active < Concurrency
    /\ item' = [item EXCEPT ![i] = IF Workable(i) THEN "running" ELSE "skipped"]
    /\ UNCHANGED <<rowVars, stage, picked, tries>>

(* _run_one_sector, _run_one_company under the semaphore: an item with a   *)
(* row counts as persisted, one that cannot be worked on is skipped.       *)
CheckItem(i) ==
    /\ stage \in {"sectors", "companies"} /\ item[i] = "waiting" /\ Active < Concurrency
    /\ item' = [item EXCEPT ![i] = IF HasRow(i) THEN "persisted"
                                   ELSE IF Workable(i) THEN "running" ELSE "skipped"]
    /\ UNCHANGED <<rowVars, stage, picked, tries>>

(* There is no evidence, or a step of the pipeline fails.                  *)
EndWithout(i) ==
    /\ stage \in {"sectors", "companies"} /\ item[i] = "running"
    /\ \E how \in {"skipped", "failed"} : item' = [item EXCEPT ![i] = how]
    /\ UNCHANGED <<rowVars, stage, picked, tries>>

(* persist_sector_brief: the second row of a sector violates the unique    *)
(* constraint of (run, sector), and its task counts as failed.             *)
SaveSector(i) ==
    /\ stage = "sectors" /\ item[i] = "running"
    /\ IF HasRow(i)
       THEN item' = [item EXCEPT ![i] = "failed"] /\ UNCHANGED sectors
       ELSE /\ item' = [item EXCEPT ![i] = "persisted"]
            /\ \E b \in SectorContents :
                sectors' = With(sectors, picked[i].sector, [brief |-> b, attempt |-> tries])
    /\ UNCHANGED <<macro, theses, portfolio, stage, picked, tries>>

(* persist_company_thesis, likewise: two ideas may be known for one entity.*)
SaveThesis(i) ==
    /\ stage = "companies" /\ item[i] = "running"
    /\ IF HasRow(i)
       THEN item' = [item EXCEPT ![i] = "failed"] /\ UNCHANGED theses
       ELSE /\ item' = [item EXCEPT ![i] = "persisted"]
            /\ \E b \in ThesisContents :
                theses' = With(theses, Entity[picked[i].idea],
                               [brief |-> b, idea |-> picked[i].idea,
                                sector |-> picked[i].sector, attempt |-> tries])
    /\ UNCHANGED <<macro, sectors, portfolio, stage, picked, tries>>

(* All tasks are over: the run fails if every one of them failed, and goes *)
(* on otherwise, with no items at all too.                                 *)
AllOver == \A i \in DOMAIN item : item[i] \notin {"waiting", "running"}

AllFailed == item # <<>> /\ \A i \in DOMAIN item : item[i] = "failed"

SectorsOver ==
    /\ stage = "sectors" /\ AllOver
    /\ IF AllFailed THEN stage' = "sectors_failed" /\ UNCHANGED <<picked, item>>
       ELSE StartFanout("companies", SelectCompanies(sectors))
    /\ UNCHANGED <<rowVars, tries>>

CompaniesOver ==
    /\ stage = "companies" /\ AllOver
    /\ stage' = IF AllFailed THEN "companies_failed" ELSE "portfolio"
    /\ UNCHANGED <<rowVars, picked, item, tries>>

(* run_portfolio_brief: a row that is there is left as it is.  The judge's *)
(* advice on it changes nothing else.                                      *)
WritePortfolio ==
    /\ stage = "portfolio"
    /\ portfolio' = IF portfolio # Missing THEN portfolio
                    ELSE [brief |-> Aggregate, attempt |-> tries]
    /\ stage' = "belief_update"
    /\ UNCHANGED <<macro, sectors, theses, picked, item, tries>>

FinishRun ==
    /\ stage = "belief_update"
    /\ stage' = "succeeded"
    /\ UNCHANGED <<rowVars, picked, item, tries>>

(* The budget guard pauses the run in any call: what is in hand is rolled  *)
(* back, the other tasks are cancelled.                                    *)
Pause ==
    /\ \/ stage \in {"macro", "portfolio", "belief_update"}
       \/ stage \in {"sectors", "companies"} /\ Active > 0
    /\ stage = "macro" => macro = Missing
    /\ stage = "portfolio" => portfolio = Missing
    /\ stage' = "paused" /\ picked' = <<>> /\ item' = <<>>
    /\ UNCHANGED <<rowVars, tries>>

Resume ==
    /\ stage = "paused" /\ tries < MaxAttempts
    /\ stage' = "macro" /\ tries' = tries + 1
    /\ UNCHANGED <<rowVars, picked, item>>

FunnelNext ==
    \/ WriteMacro \/ LoadMacro \/ MacroFails
    \/ \E i \in DOMAIN item : CheckItem(i) \/ EndWithout(i) \/ SaveSector(i) \/ SaveThesis(i)
    \/ SectorsOver \/ CompaniesOver \/ WritePortfolio \/ FinishRun \/ Pause \/ Resume

FunnelSpec == FunnelInit /\ [][FunnelNext]_funnelVars

-----------------------------------------------------------------------------
(* The portfolio lists every brief of the run once, in the order of rank,  *)
(* and says verified only if each of them is; what it does not list was    *)
(* written by a later attempt, after a pause, when a sector or company that*)
(* had failed before was tried again.                                      *)
PortfolioComplete ==
    portfolio # Missing =>
        LET p == portfolio.brief
            listed == {sectors[p.sectors[n]] : n \in DOMAIN p.sectors}
                      \cup {theses[p.companies[n]] : n \in DOMAIN p.companies}
        IN /\ \A s \in DOMAIN sectors \ ToSet(p.sectors) : sectors[s].attempt > portfolio.attempt
           /\ \A c \in DOMAIN theses \ ToSet(p.companies) : theses[c].attempt > portfolio.attempt
           /\ p.verified <=> macro.brief.verified /\ \A r \in listed : r.brief.verified
           /\ \A r \in listed : r.brief.claims \subseteq p.claims
           /\ \A n, k \in DOMAIN p.companies :
                n < k => ~Precedes(CompanyKey(p.companies[k]), CompanyKey(p.companies[n]))
           /\ p.coverage[1].selected = Len(p.sectors) /\ p.coverage[2].selected = Len(p.companies)

(* No more sectors have briefs than are selected, however often the run is *)
(* resumed.  The companies are selected anew from the sectors that have    *)
(* briefs by then: an attempt adds at most the selected number, their sum  *)
(* may be larger, and each is one of a sector with a brief.                *)
SelectionBounded ==
    /\ \A s \in DOMAIN sectors : [idea |-> 0, sector |-> s] \in ToSet(SelectSectors(macro.brief))
    /\ \A a \in 1..tries :
        Cardinality({c \in DOMAIN theses : theses[c].attempt = a}) <= MaxCompanies
    /\ \A c \in DOMAIN theses : theses[c].sector \in DOMAIN sectors

(* A fan-out fails the run only if it has nothing to show for it: not when *)
(* one of its items has a row from an earlier attempt, and not when two    *)
(* tasks clash over one row.                                               *)
FailsWithNothing ==
    /\ stage = "sectors_failed" => sectors = Empty
    /\ stage = "companies_failed" =>
          \A i \in DOMAIN picked : Entity[picked[i].idea] \notin DOMAIN theses

(* All three: what the rows of a run say of one another.                   *)
FunnelSound == PortfolioComplete /\ SelectionBounded /\ FailsWithNothing

=============================================================================
