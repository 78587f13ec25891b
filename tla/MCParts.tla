------------------------------ MODULE MCParts ------------------------------
(***************************************************************************)
(* The parts of the system whose models share no state with another one,   *)
(* one at a time: which part a behaviour is about is chosen at its start,  *)
(* and the others never begin.                                             *)
(***************************************************************************)
EXTENDS TrailManager, BarStream, Judge, Briefs, SourceClient, Entities, Watchlists, Backtest,
        LlmBudget, Ingest, Counterfactual, Beliefs, Dataset, EventStream,
        Strategies, Sources, Funnel

VARIABLES
    part,
    runRow, jobs, done, work, user

-----------------------------------------------------------------------------
(* The trail manager on seven prices, with thresholds of a calm and of a   *)
(* more volatile bar.                                                      *)
MCPrices == 0..6
MCStopPts == {1, 2}
MCThresholds ==
    {[break_even |-> 1, trigger |-> 2, distance |-> 1],
     [break_even |-> 2, trigger |-> 3, distance |-> 2],
     [break_even |-> 1, trigger |-> 3, distance |-> 3]}

(* Four events at two times, read in batches of three.                     *)
MCEvents == 1..4

(* Two calls of one run and one of another, which share the day's budget.  *)
MCRunOf == [c \in {"a1", "a2", "b"} |-> IF c = "b" THEN "r2" ELSE "r1"]
MCCaps == [hard |-> 4, catastrophic |-> 9, daily |-> 4, stage |-> [s \in {"stage"} |-> 9]]

(* A filing and a live document, read by two stages.                       *)
MCDocs == <<"filing", "events">>

(* Two rows of the registry that have one name, as the GICS has Energy for *)
(* 10 and 1010, and a name near to it; room for two entities more.         *)
MCIds == 1..4
MCCandidates == {[span |-> "Energy", xid |-> 0], [span |-> "Energies", xid |-> 0]}
MCRegistry == {[span |-> "Energy", xid |-> 1], [span |-> "Energy", xid |-> 2]}
MCPairs == {{"Energy", "Energies"}}

(* A day is seven minutes, and the window of four bars shorter than it.    *)
MCStrategies == {"orb_safe", "gap_fill", "ict", "macd_rsi_adx", "bb_rsi", "confluence_long"}
MCLevels == 1..2

(* One worker and a user who resumes the run.                              *)
Life == INSTANCE ResearchRun WITH
    Workers <- {1}, Users <- {1}, Operations <- {"resume"},
    Kind <- <<"macro", "fanout", "fanout", "portfolio", "belief">>, MaxJobs <- 2, row <- runRow

(* Sessions of three bars, which rise, fall, or stay.                      *)
MCShapes ==
    {[close |-> 3, high |-> 3, low |-> 3], [close |-> 4, high |-> 5, low |-> 4],
     [close |-> 3, high |-> 4, low |-> 2]}

(* Briefs on two chunks, which cite one of them and one that was not read. *)
MCClaims ==
    {[chunk |-> "c1", quoted |-> TRUE], [chunk |-> "c2", quoted |-> FALSE],
     [chunk |-> "c3", quoted |-> TRUE]}

(* Three sectors, one of them without constituents and one that may be     *)
(* called twice; four ideas, two of them of one company.                   *)
SectorCall(s, d, c) == [sector |-> s, direction |-> d, conviction |-> c]
Idea(i, d, c) == [idea |-> i, direction |-> d, conviction |-> c]
MCMacros ==
    {[verified |-> TRUE, claims |-> {1},
      calls |-> <<SectorCall(1, "overweight", 1), SectorCall(2, "underweight", 2), SectorCall(3, "overweight", 1)>>],
     [verified |-> FALSE, claims |-> {},
      calls |-> <<SectorCall(1, "overweight", 1), SectorCall(1, "overweight", 1)>>],
     [verified |-> TRUE, claims |-> {}, calls |-> <<SectorCall(1, "neutral", 1)>>]}
MCSectors ==
    {[verified |-> TRUE, judge |-> "flagged", direction |-> "overweight", conviction |-> 2,
      claims |-> {1}, ideas |-> <<Idea(1, "overweight", 1), Idea(4, "overweight", 1)>>],
     [verified |-> FALSE, judge |-> "not_run", direction |-> "neutral", conviction |-> 1,
      claims |-> {2},
      ideas |-> <<Idea(4, "neutral", 2), Idea(2, "overweight", 2), Idea(3, "overweight", 1)>>]}
MCTheses ==
    {[verified |-> TRUE, judge |-> "passed", direction |-> "overweight", conviction |-> 1,
      claims |-> {3}],
     [verified |-> FALSE, judge |-> "not_run", direction |-> "overweight", conviction |-> 2,
      claims |-> {3}]}
MCKey == <<1, 2, 3, 4>>
MCEntity == <<1, 1, 2, 3>>

(* Two companies that may carry the ticker.                                *)
MCCompanies == 1..2

-----------------------------------------------------------------------------
lifeVars == <<runRow, jobs, done, work, user>>

allVars == <<part, vars, sourceVars, streamVars, beliefVars, backtestVars, llmVars,
             ingestVars, feedVars, entityVars, gateVars, strategyVars, lifeVars,
             watchlistVars, datasetVars, briefVars, funnelVars, barVars, judgeVars>>

Parts == {"trail", "client", "stream", "belief", "backtest", "budget", "evidence",
          "sources", "names", "gate", "signals", "life", "universe", "learning",
          "briefs", "rows", "bars", "judge"}

(* A part with several initial states has one fixed state while another    *)
(* part is looked at.                                                      *)
PartsInit ==
    /\ part \in Parts
    /\ IF part = "trail" THEN Init ELSE trail = Seed("long", 3, 1) /\ exit = NoExit
    /\ SourceInit /\ (part # "client" => kind = "local")
    /\ StreamInit
    /\ BeliefInit /\ (part # "belief" => \A h \in DOMAIN status : status[h] = "proposed")
    /\ BacktestInit
    /\ LlmInit
    /\ IngestInit
    /\ part # "evidence" => \A d \in DocSet : upstream[d] = 1 /\ row[d] = NoRow
    /\ FeedInit /\ (part # "sources" => source = "fred")
    /\ EntityInit
    /\ IF part = "gate" THEN GateInit
       ELSE decision = [calls |-> <<>>, quote |-> FALSE] /\ gate = GateNotRun
    /\ StrategyInit /\ (part # "signals" => strategy = "ict")
    /\ Life!Init
    /\ WatchlistInit
    /\ DatasetInit
    /\ BriefInit /\ (part # "briefs" => level = "macro")
    /\ FunnelInit
    /\ BarInit
    /\ JudgeInit /\ (part # "judge" => mode = "live" /\ entities = {})

Still(p, v) == IF part = p THEN TRUE ELSE UNCHANGED v

PartsNext ==
    /\ \/ part = "trail" /\ Next
       \/ part = "client" /\ SourceNext
       \/ part = "stream" /\ StreamNext
       \/ part = "belief" /\ BeliefNext
       \/ part = "backtest" /\ BacktestNext
       \/ part = "budget" /\ LlmNext
       \/ part = "evidence" /\ IngestNext
       \/ part = "sources" /\ FeedNext
       \/ part = "names" /\ EntityNext
       \/ part = "gate" /\ RunGate
       \/ part = "signals" /\ StrategyNext
       \/ part = "life" /\ Life!Next
       \/ part = "universe" /\ WatchlistNext
       \/ part = "learning" /\ DatasetNext
       \/ part = "briefs" /\ BriefNext
       \/ part = "rows" /\ FunnelNext
       \/ part = "bars" /\ BarNext
       \/ part = "judge" /\ JudgeNext
    /\ part' = part
    /\ Still("trail", vars) /\ Still("client", sourceVars)
    /\ Still("stream", streamVars) /\ Still("belief", beliefVars)
    /\ Still("backtest", backtestVars) /\ Still("budget", llmVars)
    /\ Still("evidence", ingestVars) /\ Still("sources", feedVars)
    /\ Still("names", entityVars) /\ Still("gate", gateVars)
    /\ Still("signals", strategyVars) /\ Still("life", lifeVars)
    /\ Still("universe", watchlistVars) /\ Still("learning", datasetVars)
    /\ Still("briefs", briefVars) /\ Still("rows", funnelVars)
    /\ Still("bars", barVars) /\ Still("judge", judgeVars)

(* The loop of an open connection polls; workers take jobs and finish them *)
(* (RQ's job timeout sees to that), and the API finishes what it has begun.*)
Scheduled ==
    /\ \/ part = "stream" /\ Poll
       \/ part = "life" /\ (Life!JobStep(1) \/ Life!UserStep(1))
    /\ PartsNext

PartsSpec == PartsInit /\ [][PartsNext]_allVars /\ WF_allVars(Scheduled)

-----------------------------------------------------------------------------
(* The properties of the parts, which their modules state and explain.     *)
(* Those of the modules that are extended - TrailInv, StopNeverLoosens,    *)
(* BarsInOrder, NoBlindOrder, BriefsHonest, ClientSafe, NamesSound,        *)
(* UniverseSound, TestHonest, DailyOvershoot, EvidenceSound, BeliefsSound, *)
(* RowsStable, SignalsSound, SourcesSound, FunnelSound and FailsForTopCall *)
(* - are checked as they stand: a part that is not looked at stays in its  *)
(* initial state.                                                          *)

(* EventStream: what was committed when the end was seen has been sent, and*)
(* every event of a connection that stays open is sent in the end.  Nothing*)
(* tells the events apart but when they happen: the first stands for all.  *)
StreamSends == [](part = "stream" => EndSendsAll) /\ EventSent(1)

(* ResearchRun: with one worker and no cancel the lifecycle is that of     *)
(* RunLifecycle, and a run does not stay queued or running.                *)
LifecycleSound == Life!ImplementsLifecycle /\ (part = "life" => Life!Settles)

=============================================================================
