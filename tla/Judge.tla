------------------------------- MODULE Judge -------------------------------
(***************************************************************************)
(* The judge gate of the strategy runner (services/llm_judge.py): one      *)
(* proposed order of one ticker is judged on what research knows of the    *)
(* ticker, which other processes go on writing while it is read statement  *)
(* by statement.  Every verdict is saved before the runner sees it.  The   *)
(* companies that carry the ticker are numbered by their confidence.       *)
(***************************************************************************)
EXTENDS Naturals, FiniteSetsExt

CONSTANT Companies   \* 1..n

VARIABLES
    mode,        \* of the runner: "paper", "live"
    entities,    \* companies with this ticker
    hypothesis,  \* the company one hypothesis is about, and whether it is usable
    withThesis,  \* companies with a thesis
    sectorBrief, \* their sector has a brief
    step, context, \* of evaluate: what it has read
    verdict,     \* decision, size: of a reduced order, called: the judge answered
    ruling,      \* judge_verdicts
    order        \* the order went on to the approval queue

judgeVars == <<mode, entities, hypothesis, withThesis, sectorBrief, step, context, verdict, ruling, order>>
substrate == <<entities, hypothesis, withThesis, sectorBrief>>

-----------------------------------------------------------------------------
NoContext == [entity |-> 0, hypotheses |-> FALSE, thesis |-> FALSE, brief |-> FALSE]
NoVerdict == [decision |-> "none", size |-> "none", called |-> FALSE]
NoRuling == [verdict |-> NoVerdict, context |-> NoContext]

JudgeInit ==
    /\ mode \in {"paper", "live"}
    /\ entities \in SUBSET Companies
    /\ hypothesis = [about |-> 0, usable |-> FALSE] /\ withThesis = {} /\ sectorBrief = FALSE
    /\ step = "entity" /\ context = NoContext /\ verdict = NoVerdict
    /\ ruling = NoRuling /\ order = FALSE

(* Research writes: another company under the ticker, a hypothesis that    *)
(* becomes usable - active, with a belief, of the last 90 days - or stops  *)
(* to be, a thesis, a sector brief.                                        *)
Research ==
    /\ \/ \E c \in Companies \ entities :
            entities' = entities \cup {c} /\ UNCHANGED <<hypothesis, withThesis, sectorBrief>>
       \/ \E c \in entities, u \in BOOLEAN :
            /\ hypothesis.about \in {0, c}
            /\ hypothesis' = [about |-> c, usable |-> u]
            /\ UNCHANGED <<entities, withThesis, sectorBrief>>
       \/ \E c \in entities :
            withThesis' = withThesis \cup {c} /\ UNCHANGED <<entities, hypothesis, sectorBrief>>
       \/ sectorBrief' = TRUE /\ UNCHANGED <<entities, hypothesis, withThesis>>
    /\ UNCHANGED <<mode, step, context, verdict, ruling, order>>

-----------------------------------------------------------------------------
(* gather_context, one statement after the other; the macro brief and the  *)
(* latest evidence, which are read too, decide nothing.                    *)
Reads(at, next, c) ==
    /\ step = at /\ step' = next /\ context' = c
    /\ UNCHANGED <<mode, substrate, verdict, ruling, order>>

FindEntity ==
    LET found == IF entities = {} THEN 0 ELSE Max(entities)
    IN Reads("entity", IF found = 0 THEN "decide" ELSE "hypotheses",
             [context EXCEPT !.entity = found])

GatherHypotheses ==
    Reads("hypotheses", "thesis",
          [context EXCEPT !.hypotheses = hypothesis = [about |-> context.entity, usable |-> TRUE]])

LatestThesis ==
    Reads("thesis", "sector", [context EXCEPT !.thesis = context.entity \in withThesis])

(* The sector is known from the thesis only.                               *)
LatestSectorBrief ==
    Reads("sector", "decide", [context EXCEPT !.brief = context.thesis /\ sectorBrief])

-----------------------------------------------------------------------------
(* Mutant of IsSparse: only an unknown company is too little to go by.     *)
UnknownCompany(c) == c.entity = 0

(* is_sparse.                                                              *)
IsSparse(c) == c.entity = 0 \/ ~(c.hypotheses \/ c.thesis \/ c.brief)

Veto(called) == [decision |-> "veto", size |-> "none", called |-> called]

(* What the model may answer; "other" stands for everything that is not    *)
(* JSON of the form asked for.                                             *)
Responses == [decision: {"approve", "veto", "approve_reduced", "other"},
              reasoning: BOOLEAN, size: {"none", "part", "out_of_range", "text"}]

(* Mutant of Parses: the size is not looked at.                            *)
ParsesAnySize(r) ==
    /\ r.decision \in {"approve", "veto", "approve_reduced"}
    /\ r.reasoning
    /\ r.decision # "approve_reduced" => r.size = "none"

(* parse_verdict_response; evaluate checks a reduced size once more, which *)
(* never finds anything.                                                   *)
Parses(r) ==
    /\ r.decision \in {"approve", "veto", "approve_reduced"}
    /\ r.reasoning
    /\ r.size = IF r.decision = "approve_reduced" THEN "part" ELSE "none"

Answered(r) ==
    IF Parses(r) THEN [decision |-> r.decision, size |-> r.size, called |-> TRUE]
    ELSE Veto(TRUE)

Decides(v) ==
    /\ step = "decide" /\ step' = "persist" /\ verdict' = v
    /\ UNCHANGED <<mode, substrate, context, ruling, order>>

(* Mutant of VetoFailed: a failed call lets a live order pass.             *)
FailedPasses ==
    ~IsSparse(context) /\ Decides([decision |-> "approve", size |-> "none", called |-> FALSE])

(* evaluate: without context there is no call, and an exception of the     *)
(* call - the transport, or the budget of the day - is a veto too.         *)
VetoSparse == IsSparse(context) /\ Decides(Veto(FALSE))
VetoFailed == ~IsSparse(context) /\ Decides(Veto(FALSE))
CallAnswers == ~IsSparse(context) /\ \E r \in Responses : Decides(Answered(r))

(* A decision that is a list or an object, a size that no float can hold:  *)
(* the parser raises, outside of the handler, and nothing is saved.        *)
AnswerRaises ==
    /\ step = "decide" /\ ~IsSparse(context)
    /\ step' = "errored"
    /\ UNCHANGED <<mode, substrate, context, verdict, ruling, order>>

(* _persist_verdict; if it raises, so does the runner's step.              *)
PersistVerdict ==
    /\ step = "persist"
    /\ \/ step' = "verdict" /\ ruling' = [verdict |-> verdict, context |-> context]
       \/ step' = "errored" /\ UNCHANGED ruling
    /\ UNCHANGED <<mode, substrate, context, verdict, order>>

(* The runner: a veto stops the order in live mode only.                   *)
Blocks(v) == v.decision = "veto" /\ mode = "live"

ActOnVerdict ==
    /\ step = "verdict"
    /\ step' = "done"
    /\ order' = ~Blocks(verdict)
    /\ UNCHANGED <<mode, substrate, context, verdict, ruling>>

JudgeNext ==
    \/ Research
    \/ FindEntity \/ GatherHypotheses \/ LatestThesis \/ LatestSectorBrief
    \/ VetoSparse \/ VetoFailed \/ CallAnswers \/ AnswerRaises
    \/ PersistVerdict \/ ActOnVerdict

JudgeSpec == JudgeInit /\ [][JudgeNext]_judgeVars

-----------------------------------------------------------------------------
(* An order that goes on has its verdict on record.  A live one has one    *)
(* that is no veto, that the model gave in an answer of the right form -   *)
(* the size of a reduced order is one that can be applied - and that was   *)
(* given on something research knows of the company itself; whatever is    *)
(* missing, fails or cannot be read ends in a veto, in paper mode too.     *)
NoBlindOrder ==
    /\ order => ruling # NoRuling
    /\ order /\ mode = "live" => ruling.verdict.decision # "veto" /\ ruling.verdict.called
    /\ ruling # NoRuling /\ ruling.verdict.decision # "veto" =>
        /\ ruling.verdict.called
        /\ ruling.context.entity # 0 /\ (ruling.context.hypotheses \/ ruling.context.thesis)
        /\ ruling.verdict.size = "part" <=> ruling.verdict.decision = "approve_reduced"
=============================================================================
