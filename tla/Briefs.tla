------------------------------- MODULE Briefs -------------------------------
(***************************************************************************)
(* One brief of a research run - the macro brief, a sector brief or a      *)
(* company thesis - from the first draft the language model writes to the  *)
(* row that is saved: the deterministic verifier with its regenerations,   *)
(* the advisory judge, and for the macro brief one more draft when the     *)
(* judge flags it (strategies/funnel_research).  A draft is the claims it  *)
(* cites and the names it gets wrong.                                      *)
(***************************************************************************)
EXTENDS Naturals

CONSTANTS
    Read,             \* chunks the stage was given
    Claims,           \* claims a draft may cite: chunk, quoted (the quote is in the chunk)
    MaxRegenerations

VARIABLES
    level,     \* "macro", "sector", "company"
    phase,     \* what is done next
    draft,     \* the latest draft
    attempt,   \* of the regeneration loop
    again,     \* the judge's reasons have been answered with another draft
    brief,     \* what the loop returned: draft, verified, count
    judgement, \* JudgePublic: status, reasons; and the draft it was given for
    drafts,    \* drafts the language model was asked for
    saved      \* the row

briefVars == <<level, phase, draft, attempt, again, brief, judgement, drafts, saved>>

-----------------------------------------------------------------------------
(* What the verifier compares besides the quotes.                          *)
Names(k) == CASE k = "macro" -> {"sector_name", "sector_entity_id"}
              [] k = "sector" -> {"sector_name", "sector_entity_id"}
              [] k = "company" -> {"company_name", "company_entity_id", "sector_entity_id"}

Drafts(k) == [claims: SUBSET Claims, wrong: SUBSET Names(k)]
NoDraft == [claims |-> {}, wrong |-> {}]
NoBrief == [draft |-> NoDraft, verified |-> FALSE, count |-> 0]
NotRun(d) == [status |-> "not_run", reasons |-> FALSE, of |-> d]
Unsaved == [brief |-> NoBrief, verdict |-> NotRun(NoDraft)]

(* verify_once and its like: quotes are in the chunks that were read.      *)
Cited(d) == \A c \in d.claims : c.chunk \in Read /\ c.quoted
Valid(d) == Cited(d) /\ d.wrong = {}

BriefInit ==
    /\ level \in {"macro", "sector", "company"}
    /\ phase = "synthesize" /\ draft = NoDraft /\ attempt = 0 /\ again = FALSE
    /\ brief = NoBrief /\ judgement = NotRun(NoDraft) /\ drafts = 0 /\ saved = Unsaved

-----------------------------------------------------------------------------
(* call_synthesis: a draft that has the form asked for ...                 *)
Synthesize ==
    /\ phase = "synthesize"
    /\ draft' \in Drafts(level)
    /\ drafts' = drafts + 1
    /\ phase' = "verify"
    /\ UNCHANGED <<level, attempt, again, brief, judgement, saved>>

(* ... or one that has not, or a call that fails: the item fails with what *)
(* it has, and with the macro brief the run, although a verified brief may *)
(* be in hand when the judge's reasons are answered.                       *)
SynthesisFails ==
    /\ phase = "synthesize"
    /\ drafts' = drafts + 1
    /\ phase' = "failed"
    /\ UNCHANGED <<level, draft, attempt, again, brief, judgement, saved>>

(* The budget guard halts the run before the call.                         *)
Halt ==
    /\ phase \in {"synthesize", "judge"}
    /\ phase' = "halted"
    /\ UNCHANGED <<level, draft, attempt, again, brief, judgement, drafts, saved>>

(* Nothing was saved: the resumed run starts the brief again.              *)
ResumeBrief ==
    /\ phase = "halted"
    /\ phase' = "synthesize" /\ draft' = NoDraft /\ attempt' = 0 /\ again' = FALSE
    /\ brief' = NoBrief /\ judgement' = NotRun(NoDraft) /\ drafts' = 0
    /\ UNCHANGED <<level, saved>>

-----------------------------------------------------------------------------
(* run_regen_loop and its like.                                            *)
Accept ==
    /\ phase = "verify" /\ ~again /\ Valid(draft)
    /\ brief' = [draft |-> draft, verified |-> TRUE, count |-> attempt]
    /\ phase' = "judge"
    /\ UNCHANGED <<level, draft, attempt, again, judgement, drafts, saved>>

Regenerate ==
    /\ phase = "verify" /\ ~again /\ ~Valid(draft) /\ attempt < MaxRegenerations
    /\ attempt' = attempt + 1
    /\ phase' = "synthesize"
    /\ UNCHANGED <<level, draft, again, brief, judgement, drafts, saved>>

(* The last draft is kept as it is, and the judge is not asked.            *)
KeepLast ==
    /\ phase = "verify" /\ ~again /\ ~Valid(draft) /\ attempt = MaxRegenerations
    /\ brief' = [draft |-> draft, verified |-> FALSE, count |-> MaxRegenerations]
    /\ judgement' = NotRun(draft)
    /\ phase' = "save"
    /\ UNCHANGED <<level, draft, attempt, again, drafts, saved>>

(* Mutant of Refresh: the answer is saved under the verdict on its          *)
(* predecessor.                                                            *)
RefreshUnjudged ==
    /\ phase = "verify" /\ again
    /\ phase' = "save"
    /\ brief' = IF Valid(draft)
                THEN [draft |-> draft, verified |-> TRUE, count |-> brief.count + 1]
                ELSE brief
    /\ UNCHANGED <<level, draft, attempt, again, judgement, drafts, saved>>

(* The draft that answers the judge replaces the brief if it is valid.     *)
Refresh ==
    /\ phase = "verify" /\ again
    /\ IF Valid(draft)
       THEN /\ brief' = [draft |-> draft, verified |-> TRUE, count |-> brief.count + 1]
            /\ phase' = "judge"
       ELSE phase' = "save" /\ UNCHANGED brief
    /\ UNCHANGED <<level, draft, attempt, again, judgement, drafts, saved>>

-----------------------------------------------------------------------------
(* run_judge: a verdict, or none when the call fails or cannot be read.    *)
Verdicts == {[status |-> "passed", reasons |-> FALSE], [status |-> "passed", reasons |-> TRUE],
             [status |-> "flagged", reasons |-> FALSE], [status |-> "flagged", reasons |-> TRUE],
             [status |-> "not_run", reasons |-> FALSE]}

(* Mutant of Answers: however many drafts there were.                      *)
AnswersAlways(v) == level = "macro" /\ ~again /\ v.status = "flagged" /\ v.reasons

(* _judge_macro_with_optional_regen: only the macro brief answers reasons, *)
(* once, and only while drafts are left.                                   *)
Answers(v) ==
    /\ level = "macro" /\ ~again
    /\ v.status = "flagged" /\ v.reasons
    /\ brief.count < MaxRegenerations

RunJudge ==
    /\ phase = "judge"
    /\ \E v \in Verdicts :
        /\ judgement' = [status |-> v.status, reasons |-> v.reasons, of |-> brief.draft]
        /\ IF Answers(v) THEN phase' = "synthesize" /\ again' = TRUE
           ELSE phase' = "save" /\ UNCHANGED again
    /\ UNCHANGED <<level, draft, attempt, brief, drafts, saved>>

(* persist_macro_brief and its like.                                       *)
Save ==
    /\ phase = "save"
    /\ saved' = [brief |-> brief, verdict |-> judgement]
    /\ phase' = "saved"
    /\ UNCHANGED <<level, draft, attempt, again, brief, judgement, drafts>>

BriefNext ==
    \/ Synthesize \/ SynthesisFails \/ Halt \/ ResumeBrief
    \/ Accept \/ Regenerate \/ KeepLast \/ Refresh
    \/ RunJudge \/ Save

BriefSpec == BriefInit /\ [][BriefNext]_briefVars

-----------------------------------------------------------------------------
(* A saved brief is verified exactly when the verifier accepts what is     *)
(* saved, an unverified one is the last of all drafts that were allowed,   *)
(* and the language model is never asked for more than that.               *)
VerifiedHonest ==
    /\ drafts <= MaxRegenerations + 1
    /\ phase = "saved" =>
        /\ saved.brief.verified <=> Valid(saved.brief.draft)
        /\ saved.brief.count <= MaxRegenerations
        /\ ~saved.brief.verified => drafts = MaxRegenerations + 1

(* A verdict that is saved was given for the very draft that is saved, and *)
(* for no unverified one; a macro brief is saved with reasons against it   *)
(* only when no draft was left, or when the answer to the reasons was      *)
(* refused by the verifier or flagged as well.                             *)
VerdictHonest ==
    phase = "saved" =>
        /\ saved.verdict.status # "not_run" =>
               saved.brief.verified /\ saved.verdict.of = saved.brief.draft
        /\ level = "macro" /\ saved.verdict.status = "flagged" /\ saved.verdict.reasons =>
               drafts = MaxRegenerations + 1 \/ again

(* What a saved brief says of itself is true.                              *)
BriefsHonest == VerifiedHonest /\ VerdictHonest
=============================================================================
