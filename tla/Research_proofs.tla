-------------------------- MODULE Research_proofs ---------------------------
(***************************************************************************)
(* Proofs about the parts of research that share no state: the draft and   *)
(* verdict of one brief, the entities that evidence is filed under, the    *)
(* client of one evidence source, the budget of the LLM calls, the readers *)
(* that store one feed, the counterfactual gate, the beliefs, the stream of*)
(* the events of a run, what is kept of a source from run to run.          *)
(***************************************************************************)
EXTENDS Briefs, Entities, SourceClient, LlmBudget, Ingest, Counterfactual,
        Beliefs, EventStream, Sources, Integers, SumTheorems, TLAPS

-----------------------------------------------------------------------------
(***************************************************************************)
(* Briefs: what is saved of a brief is what the verifier accepted and what *)
(* the judge looked at, for any chunks, claims and number of               *)
(* regenerations. The inductive invariant says for each phase how many     *)
(* drafts were asked for and which draft brief and verdict are about.      *)
(***************************************************************************)

BriefPhases == {"synthesize", "verify", "judge", "save", "saved", "failed", "halted"}

(* A brief in hand is judged rightly by the verifier.                      *)
BriefOK ==
    /\ brief.count \in Nat /\ brief.count <= MaxRegenerations
    /\ brief.verified <=> Valid(brief.draft)

(* The drafts asked for while the loop runs, and while the judge's reasons *)
(* are answered.                                                           *)
LoopInv ==
    phase \in {"synthesize", "verify"} /\ ~again =>
        drafts = attempt + (IF phase = "verify" THEN 1 ELSE 0)
AnswerInv ==
    phase \in {"synthesize", "verify"} /\ again =>
        /\ BriefOK /\ brief.verified /\ brief.count < MaxRegenerations
        /\ judgement.of = brief.draft
        /\ drafts = brief.count + (IF phase = "verify" THEN 2 ELSE 1)

(* A brief that is judged took exactly the drafts it counts.               *)
JudgeInv ==
    phase = "judge" => BriefOK /\ brief.verified /\ drafts = brief.count + 1

(* What may be saved.                                                      *)
SaveInv ==
    phase \in {"save", "saved"} =>
        /\ BriefOK
        /\ ~brief.verified => drafts = MaxRegenerations + 1
        /\ judgement.status # "not_run" => brief.verified /\ judgement.of = brief.draft
        /\ level = "macro" /\ judgement.status = "flagged" /\ judgement.reasons =>
               drafts = MaxRegenerations + 1 \/ again
        /\ phase = "saved" => saved = [brief |-> brief, verdict |-> judgement]

CountInv ==
    /\ phase \in BriefPhases
    /\ attempt \in Nat /\ attempt <= MaxRegenerations
    /\ drafts \in Nat /\ drafts <= MaxRegenerations + 1

BriefIInv == CountInv /\ LoopInv /\ AnswerInv /\ JudgeInv /\ SaveInv

-----------------------------------------------------------------------------
LEMMA BriefInitHolds == ASSUME MaxRegenerations \in Nat PROVE BriefInit => BriefIInv
BY DEF BriefInit, BriefIInv, CountInv, LoopInv, AnswerInv, JudgeInv, SaveInv, BriefPhases

(* The language model is asked for a draft, and a run halts and resumes.   *)
LEMMA AskHolds ==
    ASSUME MaxRegenerations \in Nat, BriefIInv,
           Synthesize \/ SynthesisFails \/ Halt \/ ResumeBrief
    PROVE  BriefIInv'
<1> USE DEF BriefIInv, CountInv, LoopInv, AnswerInv, JudgeInv, SaveInv, BriefOK, BriefPhases
<1>1. CASE Synthesize
  <2>1. /\ phase = "synthesize" /\ phase' = "verify" /\ drafts' = drafts + 1
        /\ UNCHANGED <<level, attempt, again, brief, judgement, saved>>
    BY <1>1 DEF Synthesize
  <2> QED BY <2>1
<1>2. CASE SynthesisFails
  BY <1>2 DEF SynthesisFails
<1>3. CASE Halt
  BY <1>3 DEF Halt
<1>4. CASE ResumeBrief
  <2>1. phase' = "synthesize" /\ again' = FALSE /\ attempt' = 0 /\ drafts' = 0
    BY <1>4 DEF ResumeBrief
  <2>2. CountInv' /\ LoopInv'
    BY <2>1
  <2>3. AnswerInv' /\ JudgeInv' /\ SaveInv'
    BY <2>1
  <2> QED BY <2>2, <2>3
<1> QED BY <1>1, <1>2, <1>3, <1>4

(* The loop of the verifier.                                               *)
LEMMA LoopHolds ==
    ASSUME MaxRegenerations \in Nat, BriefIInv, Accept \/ Regenerate \/ KeepLast
    PROVE  BriefIInv'
<1> USE DEF BriefIInv, CountInv, LoopInv, AnswerInv, JudgeInv, SaveInv, BriefOK, BriefPhases
<1>1. CASE Accept
  <2>1. /\ brief'.draft = draft /\ brief'.verified = TRUE /\ brief'.count = attempt
        /\ phase = "verify" /\ ~again /\ phase' = "judge" /\ Valid(draft)
        /\ UNCHANGED <<draft, attempt, again, drafts>>
    BY <1>1 DEF Accept
  <2>2. Valid(brief.draft)'
    BY <2>1 DEF Valid, Cited
  <2> QED BY <2>1, <2>2
<1>2. CASE Regenerate
  BY <1>2 DEF Regenerate
<1>3. CASE KeepLast
  <2>1. /\ brief'.draft = draft /\ brief'.verified = FALSE
        /\ brief'.count = MaxRegenerations /\ attempt = MaxRegenerations
        /\ judgement'.status = "not_run"
        /\ phase = "verify" /\ ~again /\ phase' = "save" /\ ~Valid(draft)
        /\ UNCHANGED <<draft, attempt, again, drafts>>
    BY <1>3 DEF KeepLast, NotRun
  <2>2. ~Valid(brief.draft)'
    BY <2>1 DEF Valid, Cited
  <2> QED BY <2>1, <2>2
<1> QED BY <1>1, <1>2, <1>3

(* The draft that answers the judge replaces the brief or is dropped.      *)
LEMMA RefreshHolds ==
    ASSUME MaxRegenerations \in Nat, BriefIInv, Refresh
    PROVE  BriefIInv'
<1> USE DEF BriefIInv, CountInv, LoopInv, AnswerInv, JudgeInv, SaveInv, BriefOK, BriefPhases
<1>1. /\ phase = "verify" /\ again
      /\ UNCHANGED <<level, draft, attempt, again, judgement, drafts, saved>>
  BY DEF Refresh
<1>2. CASE Valid(draft)
  <2>1. /\ brief'.draft = draft /\ brief'.verified = TRUE
        /\ brief'.count = brief.count + 1 /\ phase' = "judge"
    BY <1>2 DEF Refresh
  <2>2. Valid(brief.draft)'
    BY <1>1, <1>2, <2>1 DEF Valid, Cited
  <2>3. /\ brief.count \in Nat /\ brief.count < MaxRegenerations
        /\ drafts = brief.count + 2
    BY <1>1
  <2>4. BriefOK' /\ brief'.verified /\ drafts' = brief'.count + 1
    BY <1>1, <2>1, <2>2, <2>3
  <2>5. CountInv' /\ LoopInv' /\ AnswerInv' /\ SaveInv'
    BY <1>1, <2>1
  <2> QED BY <2>1, <2>4, <2>5
<1>3. CASE ~Valid(draft)
  BY <1>1, <1>3 DEF Refresh
<1> QED BY <1>2, <1>3

(* The verdict is about the brief in hand.                                 *)
LEMMA JudgeHolds ==
    ASSUME MaxRegenerations \in Nat, BriefIInv, RunJudge
    PROVE  BriefIInv'
<1> USE DEF BriefIInv, CountInv, LoopInv, AnswerInv, JudgeInv, SaveInv, BriefOK, BriefPhases
<1>1. /\ phase = "judge"
      /\ UNCHANGED <<level, draft, attempt, brief, drafts, saved>>
  BY DEF RunJudge
<1>2. PICK v \in Verdicts :
        /\ judgement' = [status |-> v.status, reasons |-> v.reasons, of |-> brief.draft]
        /\ IF Answers(v) THEN phase' = "synthesize" /\ again' = TRUE
           ELSE phase' = "save" /\ UNCHANGED again
  BY DEF RunJudge
<1>3. judgement'.status = v.status /\ judgement'.reasons = v.reasons /\ judgement'.of = brief.draft
  BY <1>2
<1>4. CASE Answers(v)
  BY <1>1, <1>2, <1>3, <1>4 DEF Answers
<1>5. CASE ~Answers(v)
  BY <1>1, <1>2, <1>3, <1>5 DEF Answers
<1> QED BY <1>4, <1>5

LEMMA SaveHolds ==
    ASSUME MaxRegenerations \in Nat, BriefIInv, Save
    PROVE  BriefIInv'
BY DEF Save, BriefIInv, CountInv, LoopInv, AnswerInv, JudgeInv, SaveInv, BriefOK, BriefPhases

LEMMA BriefStepHolds ==
    ASSUME MaxRegenerations \in Nat PROVE BriefIInv /\ [BriefNext]_briefVars => BriefIInv'
<1> SUFFICES ASSUME BriefIInv, [BriefNext]_briefVars PROVE BriefIInv'
  OBVIOUS
<1>1. CASE UNCHANGED briefVars
  BY <1>1 DEF briefVars, BriefIInv, CountInv, LoopInv, AnswerInv, JudgeInv, SaveInv, BriefOK
<1>2. CASE Synthesize \/ SynthesisFails \/ Halt \/ ResumeBrief
  BY <1>2, AskHolds
<1>3. CASE Accept \/ Regenerate \/ KeepLast
  BY <1>3, LoopHolds
<1>4. CASE Refresh
  BY <1>4, RefreshHolds
<1>5. CASE RunJudge
  BY <1>5, JudgeHolds
<1>6. CASE Save
  BY <1>6, SaveHolds
<1> QED BY <1>1, <1>2, <1>3, <1>4, <1>5, <1>6 DEF BriefNext

(* For any number of regenerations: a saved brief is verified exactly when *)
(* the verifier accepts what is saved, and the language model is asked for *)
(* no more drafts than allowed; the verdict that is saved with it was given*)
(* for that draft, and the macro brief's reasons were answered if possible.*)
THEOREM BriefsAreHonest ==
    ASSUME MaxRegenerations \in Nat
    PROVE  BriefSpec => []BriefsHonest
<1>1. BriefIInv => BriefsHonest
  <2> SUFFICES ASSUME BriefIInv PROVE BriefsHonest
    OBVIOUS
  <2>1. drafts <= MaxRegenerations + 1
    BY DEF BriefIInv, CountInv
  <2>2. CASE phase # "saved"
    BY <2>1, <2>2 DEF BriefsHonest, VerifiedHonest, VerdictHonest
  <2>3. CASE phase = "saved"
    <3>1. saved.brief = brief /\ saved.verdict = judgement
      BY <2>3 DEF BriefIInv, SaveInv
    <3> QED BY <2>1, <2>3, <3>1 DEF BriefIInv, SaveInv, BriefOK, BriefsHonest, VerifiedHonest, VerdictHonest
  <2> QED BY <2>2, <2>3
<1>2. BriefInit => BriefIInv
  BY BriefInitHolds
<1>3. BriefIInv /\ [BriefNext]_briefVars => BriefIInv'
  BY BriefStepHolds
<1> QED BY <1>1, <1>2, <1>3, PTL DEF BriefSpec

-----------------------------------------------------------------------------
(***************************************************************************)
(* Entities: names, relations and merges, for any number of sessions,      *)
(* candidates and entities and any scores.  The end of a chain of merges   *)
(* is the only solution of the equation that defines it, and a merge moves *)
(* the ends at the merged entity to the survivor.                          *)
(***************************************************************************)

(* The chains of the successors in I end as R says.                        *)
Ends(R, I) == R = [e \in Ids |-> IF I[e] = NoEntity THEN e ELSE R[I[e]]]

(* A merge moves the ends, and no other ends fit the new chains.           *)
LEMMA EndsMoved ==
  ASSUME NEW I \in [Ids -> Ids \cup {NoEntity}], NEW R \in [Ids -> Ids],
         Ends(R, I), \A Q : Ends(Q, I) => Q = R,
         NEW survivor \in Ids, NEW merged \in Ids, survivor # merged,
         I[survivor] = NoEntity, I[merged] = NoEntity, EntityAssumption
  PROVE  LET J == [I EXCEPT ![merged] = survivor]
             S == [e \in Ids |-> IF R[e] = merged THEN survivor ELSE R[e]]
         IN Ends(S, J) /\ \A Q : Ends(Q, J) => Q = S
<1> DEFINE J == [I EXCEPT ![merged] = survivor]
           S == [e \in Ids |-> IF R[e] = merged THEN survivor ELSE R[e]]
<1>1. /\ \A e \in Ids : R[e] = IF I[e] = NoEntity THEN e ELSE R[I[e]]
      /\ \A e \in Ids \ {merged} : J[e] = I[e]
      /\ J[merged] = survivor /\ NoEntity \notin Ids
  BY DEF Ends, EntityAssumption, NoEntity
<1>2. \A e \in Ids : S[e] = IF J[e] = NoEntity THEN e ELSE S[J[e]]
  <2> SUFFICES ASSUME NEW e \in Ids
               PROVE  S[e] = IF J[e] = NoEntity THEN e ELSE S[J[e]]
    OBVIOUS
  <2>1. CASE e = merged
    BY <1>1, <2>1
  <2>2. CASE e # merged /\ I[e] = NoEntity
    BY <1>1, <2>2
  <2>3. CASE e # merged /\ I[e] # NoEntity
    <3>1. I[e] \in Ids /\ R[e] = R[I[e]] /\ J[e] = I[e]
      BY <1>1, <2>3
    <3> QED BY <2>3, <3>1
  <2> QED BY <2>1, <2>2, <2>3
<1>3. Ends(S, J)
  BY <1>2 DEF Ends
<1>4. ASSUME NEW Q, Ends(Q, J) PROVE Q = S
  <2>1. \A e \in Ids : Q[e] = IF J[e] = NoEntity THEN e ELSE Q[J[e]]
    BY <1>4 DEF Ends
  <2>2. Q = [e \in Ids |-> Q[e]]
    BY <1>4 DEF Ends
  <2>3. Q[survivor] = survivor /\ Q[merged] = survivor
    BY <1>1, <2>1
  <2> DEFINE Other(e) == IF Q[e] = survivor THEN merged ELSE survivor
             P == [e \in Ids |-> IF R[e] = merged THEN Other(e) ELSE Q[e]]
  <2>4. ASSUME NEW e \in Ids PROVE P[e] = IF I[e] = NoEntity THEN e ELSE P[I[e]]
    <3>1. CASE e = merged
      BY <1>1, <2>3, <3>1
    <3>2. CASE e # merged /\ I[e] = NoEntity
      BY <1>1, <2>1, <3>2
    <3>3. CASE e # merged /\ I[e] # NoEntity
      <4>1. /\ I[e] \in Ids /\ R[e] = R[I[e]] /\ Q[e] = Q[I[e]]
        BY <1>1, <2>1, <3>3
      <4>2. P[e] = P[I[e]]
        BY <4>1
      <4> QED BY <3>3, <4>2
    <3> QED BY <3>1, <3>2, <3>3
  <2>5. Ends(P, I)
    BY <2>4 DEF Ends
  <2> HIDE DEF P
  <2>6. P = R
    BY <2>5
  <2>7. ASSUME NEW e \in Ids PROVE Q[e] = S[e]
    <3>1. R[e] = IF R[e] = merged THEN Other(e) ELSE Q[e]
      BY <2>6 DEF P
    <3> QED BY <3>1
  <2> QED BY <2>2, <2>7
<1> QED BY <1>3, <1>4

EntityNames == {c.span : c \in Candidates \cup Registry}
EntityXids == {r.xid : r \in Registry} \cup {0}
EntityRow == [aliases : SUBSET EntityNames, xid : EntityXids, into : Ids \cup {NoEntity}]

(* Candidates are resolved in order; relations are between entities.       *)
EntityTypes ==
    /\ entity \in [Ids -> EntityRow]
    /\ owner \in [Ids -> Resolvers \cup {Nobody}]
    /\ at \in [Resolvers -> 0..4]
    /\ missing \in [Resolvers -> SUBSET Registry]
    /\ found \in [Resolvers -> (Ids \cup {NoEntity}) \X (Ids \cup {NoEntity})]
    /\ \A s \in Resolvers : \A i \in 1..2 :
          at[s] # Bootstrap /\ i < at[s] => found[s][i] \in Ids
    /\ relations \subseteq Ids \X Ids /\ late \subseteq relations

(* Of a name that no two sessions have created and no two rows list, any   *)
(* two live entities, committed or not, are the same.                      *)
NameOnce ==
    \A n : n \notin createdTwice \cup ListedTwice =>
        \A e, f \in Ids :
            /\ Live(e) /\ n \in entity[e].aliases
            /\ Live(f) /\ n \in entity[f].aliases
            => e = f

Into == [e \in Ids |-> entity[e].into]

(* Every chain of merges has one end, which is live and answers to all the *)
(* names on the way; whatever carries a row's id ends at one entity.       *)
ChainsEnd ==
    \E R \in [Ids -> Ids] :
        /\ Ends(R, Into) /\ \A Q : Ends(Q, Into) => Q = R
        /\ \A e \in Ids : Live(R[e]) /\ entity[e].aliases \subseteq entity[R[e]].aliases
        /\ \A r \in Registry : r.span \notin createdTwice =>
              \A e, f \in Ids : entity[e].xid = r.xid /\ entity[f].xid = r.xid => R[e] = R[f]

Carried(r) == \E e \in Ids : entity[e].xid = r.xid

(* Rows are not committed only during a bootstrap; after it all are there; *)
(* one that a bootstrap has found missing is missing, and found missing by *)
(* no other; a name of a row is no entity's before the row's entity.       *)
UncommittedInv ==
    \A e \in Ids : entity[e].xid # 0 /\ owner[e] # Nobody =>
        owner[e] \in Resolvers /\ at[owner[e]] = Bootstrap
CarriedInv ==
    \A s \in Resolvers, r \in Registry :
        /\ at[s] \in 1..3 => Carried(r)
        /\ at[s] = Bootstrap /\ r \notin missing[s] => Carried(r)
MissingInv ==
    \A r \in Registry : r.span \notin createdTwice =>
        \A s \in Resolvers : at[s] = Bootstrap /\ r \in missing[s] =>
            /\ ~Carried(r)
            /\ \A q \in Resolvers \ {s} : ~(at[q] = Bootstrap /\ r \in missing[q])
RowNameInv ==
    \A r \in Registry, e \in Ids : r.span \in entity[e].aliases \ ListedTwice => Carried(r)
RegistryInv == UncommittedInv /\ CarriedInv /\ MissingInv /\ RowNameInv

NamesIInv == EntityTypes /\ NameOnce /\ ChainsEnd /\ RegistryInv /\ RelationsLive

LEMMA EntityInitHolds == ASSUME EntityAssumption PROVE EntityInit => NamesIInv
<1> SUFFICES ASSUME EntityInit PROVE NamesIInv
  OBVIOUS
<1>1. /\ Blank \in EntityRow
      /\ Blank.into = NoEntity /\ Blank.aliases = {} /\ Blank.xid = 0
  BY DEF Blank, EntityRow, EntityXids
<1>2. /\ entity \in [Ids -> EntityRow]
      /\ \A e \in Ids : Live(e) /\ entity[e].aliases = {} /\ entity[e].xid = 0
  BY <1>1 DEF EntityInit, Live
<1>3. EntityTypes
  BY <1>2 DEF EntityInit, EntityTypes, Start
<1>4. NameOnce
  BY <1>2 DEF NameOnce
<1>5. \A r \in Registry : r.xid # 0
  BY DEF EntityAssumption
<1>6. ChainsEnd
  <2> DEFINE R == [e \in Ids |-> e]
  <2>1. \A e \in Ids : Into[e] = NoEntity
    BY <1>2 DEF Into, Live
  <2>2. Ends(R, Into) /\ \A Q : Ends(Q, Into) => Q = R
    BY <2>1 DEF Ends
  <2>3. R \in [Ids -> Ids] /\ \A e \in Ids : R[e] = e
    OBVIOUS
  <2> HIDE DEF R
  <2> QED BY <1>2, <1>5, <2>2, <2>3 DEF ChainsEnd
<1>7. RegistryInv
  <2>1. \A s \in Resolvers : at[s] = Start
    BY DEF EntityInit
  <2> QED BY <1>2, <2>1 DEF RegistryInv, UncommittedInv, CarriedInv, MissingInv, RowNameInv,
        Start, Bootstrap
<1>8. RelationsLive
  BY DEF EntityInit, RelationsLive
<1> QED BY <1>3, <1>4, <1>6, <1>7, <1>8 DEF NamesIInv

(* A resolution is one of the entities the session sees.                   *)
LEMMA ResolutionSeen ==
  ASSUME NEW s, NEW c, Resolution(s, c) # NoEntity
  PROVE  Resolution(s, c) \in Ids
<1> DEFINE Single(hits) == Cardinality(hits) = 1
           The(hits) == CHOOSE e \in hits : TRUE
<1>1. ASSUME NEW hits, Single(hits) PROVE The(hits) \in hits
  <2>1. hits # {}
    BY <1>1, FS_EmptySet
  <2> QED BY <2>1
<1>2. /\ AliasHits(s, c) \subseteq Ids /\ ExternalHits(s, c) \subseteq Ids
      /\ FuzzyHits(s, c) \subseteq Ids
  BY DEF AliasHits, ExternalHits, FuzzyHits, Scoring, Visible, Used
<1>3. \/ /\ Single(AliasHits(s, c)) /\ Resolution(s, c) = The(AliasHits(s, c))
      \/ /\ Single(ExternalHits(s, c)) /\ Resolution(s, c) = The(ExternalHits(s, c))
      \/ /\ Single(FuzzyHits(s, c)) /\ Resolution(s, c) = The(FuzzyHits(s, c))
  BY DEF Resolution
<1> HIDE DEF Single, The
<1> QED BY <1>1, <1>2, <1>3

(* A session that creates an entity has seen none or several of that name. *)
LEMMA CreatedUnseen ==
  ASSUME NEW s, NEW c, Resolution(s, c) = NoEntity, EntityAssumption
  PROVE  ~ \E e : AliasHits(s, c) = {e}
<1> SUFFICES ASSUME NEW e, AliasHits(s, c) = {e} PROVE FALSE
  OBVIOUS
<1>1. Cardinality(AliasHits(s, c)) = 1
  BY FS_Singleton
<1>2. Resolution(s, c) = e
  BY <1>1 DEF Resolution
<1>3. e \in Ids
  BY DEF AliasHits, Visible, Used
<1> QED BY <1>2, <1>3 DEF EntityAssumption, NoEntity

(* The next identifier is a blank row.                                     *)
LEMMA NextIdBlank ==
  ASSUME EntityAssumption, Used # Ids
  PROVE  NextId \in Ids /\ entity[NextId] = Blank
<1> DEFINE T == Ids \ Used
<1>1. T \subseteq Nat /\ T # {}
  BY DEF Used, EntityAssumption
<1>2. \E e \in T : \A f \in T : e <= f
  <2> HIDE DEF T
  <2> QED BY <1>1, LeastNatural
<1>3. NextId \in T
  BY <1>2 DEF NextId
<1> QED BY <1>3 DEF Used

(* Steps that leave the rows, and names created twice, as they are.        *)
LEMMA RowsAlone ==
  ASSUME NameOnce, ChainsEnd, UNCHANGED <<entity, createdTwice>>
  PROVE  NameOnce' /\ ChainsEnd'
<1>1. NameOnce'
  BY DEF NameOnce, Live
<1>2. UNCHANGED <<entity, createdTwice, Into>>
  BY DEF Into
<1>3. ChainsEnd'
  BY <1>2 DEF ChainsEnd, Live, Ends
<1> QED BY <1>1, <1>3

LEMMA ResolveKeeps ==
  ASSUME NamesIInv, NEW s \in Resolvers, NEW c \in Candidates, Resolve(s, c)
  PROVE  NamesIInv'
<1>1. Resolution(s, c) \in Ids
  BY ResolutionSeen DEF Resolve
<1>2. /\ at' = [at EXCEPT ![s] = @ + 1] /\ at[s] \in 1..2
      /\ UNCHANGED <<entity, owner, missing, relations, late, createdTwice>>
  BY DEF Resolve, Found
<1>3. EntityTypes'
  BY <1>1 DEF NamesIInv, EntityTypes, Resolve, Found, Bootstrap
<1>4. NameOnce' /\ ChainsEnd'
  BY <1>2, RowsAlone DEF NamesIInv
<1>5. RegistryInv'
  <2>1. \A q \in Resolvers : /\ at'[q] = Bootstrap <=> at[q] = Bootstrap
                             /\ at'[q] \in 1..3 => at[q] \in 1..3
    BY <1>2 DEF NamesIInv, EntityTypes, Bootstrap
  <2> QED BY <1>2, <2>1 DEF NamesIInv, RegistryInv, UncommittedInv, CarriedInv, MissingInv,
        RowNameInv, Carried
<1>6. RelationsLive'
  BY <1>2 DEF NamesIInv, RelationsLive, Live
<1> QED BY <1>3, <1>4, <1>5, <1>6 DEF NamesIInv

LEMMA PersistRelationKeeps ==
  ASSUME NamesIInv, NEW s \in Resolvers, PersistRelation(s)
  PROVE  NamesIInv'
<1>1. /\ found[s] = <<found[s][1], found[s][2]>>
      /\ found[s][1] \in Ids /\ found[s][2] \in Ids
  BY DEF NamesIInv, EntityTypes, PersistRelation, Bootstrap
<1>2. /\ at' = [at EXCEPT ![s] = 1] /\ at[s] = 3 /\ owner' = CommittedBy(s)
      /\ UNCHANGED <<entity, missing, createdTwice>>
  BY DEF PersistRelation
<1>3. EntityTypes'
  <2>1. owner' \in [Ids -> Resolvers \cup {Nobody}]
    BY <1>2 DEF NamesIInv, EntityTypes, CommittedBy
  <2> QED BY <1>1, <1>2, <2>1 DEF NamesIInv, EntityTypes, PersistRelation, Bootstrap
<1>4. NameOnce' /\ ChainsEnd'
  BY <1>2, RowsAlone DEF NamesIInv
<1>5. RegistryInv'
  <2>1. \A q \in Resolvers : /\ at'[q] = Bootstrap <=> at[q] = Bootstrap
                             /\ at'[q] \in 1..3 => at[q] \in 1..3
    BY <1>2 DEF NamesIInv, EntityTypes, Bootstrap
  <2>2. \A e \in Ids : owner'[e] \in {Nobody, owner[e]}
    BY <1>2 DEF CommittedBy
  <2> QED BY <1>2, <2>1, <2>2 DEF NamesIInv, RegistryInv, UncommittedInv, CarriedInv,
        MissingInv, RowNameInv, Carried
<1>6. RelationsLive'
  BY <1>1 DEF NamesIInv, RelationsLive, PersistRelation, Live
<1> QED BY <1>3, <1>4, <1>5, <1>6 DEF NamesIInv

(* A row found missing that is there was inserted by a bootstrap that is   *)
(* still running.                                                          *)
LEMMA LookUpRegistryKeeps ==
  ASSUME NamesIInv, NEW s \in Resolvers, LookUpRegistry(s), EntityAssumption
  PROVE  NamesIInv'
<1> DEFINE rows == {r \in Registry : ~\E e \in Used : owner[e] = Nobody /\ entity[e].xid = r.xid}
<1>1. /\ at[s] \in {Start, 1}
      /\ missing' = [missing EXCEPT ![s] = rows]
      /\ createdTwice' = createdTwice \cup
            {r.span : r \in {q \in rows : \E other \in Resolvers \ {s} : Inserting(other, q)}}
      /\ at' = [at EXCEPT ![s] = Bootstrap]
      /\ UNCHANGED <<entity, owner, found, relations, late>>
  BY DEF LookUpRegistry, Looked
<1>2. /\ \A r \in rows : /\ r \in Registry
                         /\ ~\E e \in Used : owner[e] = Nobody /\ entity[e].xid = r.xid
      /\ \A r \in Registry \ rows : Carried(r)
  BY DEF Carried, Used
<1>3. rows \subseteq Registry
  OBVIOUS
<1> HIDE DEF rows
<1>4. createdTwice \subseteq createdTwice'
  BY <1>1
<1>5. EntityTypes'
  BY <1>1, <1>3 DEF NamesIInv, EntityTypes, Bootstrap
<1>6. NameOnce'
  <2>1. \A n : n \notin createdTwice' \cup ListedTwice => n \notin createdTwice \cup ListedTwice
    BY <1>4
  <2> QED BY <1>1, <2>1 DEF NamesIInv, NameOnce, Live
<1>7. ChainsEnd'
  <2>1. PICK R \in [Ids -> Ids] :
          /\ Ends(R, Into) /\ \A Q : Ends(Q, Into) => Q = R
          /\ \A e \in Ids : Live(R[e]) /\ entity[e].aliases \subseteq entity[R[e]].aliases
          /\ \A r \in Registry : r.span \notin createdTwice =>
                \A e, f \in Ids : entity[e].xid = r.xid /\ entity[f].xid = r.xid => R[e] = R[f]
    BY DEF NamesIInv, ChainsEnd
  <2>2. Into' = Into /\ entity' = entity
    BY <1>1 DEF Into
  <2>3. Ends(R, Into') /\ \A Q : Ends(Q, Into') => Q = R
    BY <2>1, <2>2
  <2>4. \A e \in Ids : Live(R[e])' /\ entity'[e].aliases \subseteq entity'[R[e]].aliases
    BY <2>1, <2>2 DEF Live
  <2>5. \A r \in Registry : r.span \notin createdTwice' =>
           \A e, f \in Ids : entity'[e].xid = r.xid /\ entity'[f].xid = r.xid => R[e] = R[f]
    BY <1>4, <2>1, <2>2
  <2> QED BY <2>3, <2>4, <2>5 DEF ChainsEnd
<1>8. /\ at'[s] = Bootstrap /\ at[s] # Bootstrap /\ missing'[s] = rows
      /\ \A q \in Resolvers \ {s} : at'[q] = at[q] /\ missing'[q] = missing[q]
      /\ \A r : Carried(r)' <=> Carried(r)
  BY <1>1 DEF NamesIInv, EntityTypes, Bootstrap, Start, Carried
<1>9. UncommittedInv' /\ CarriedInv' /\ RowNameInv'
  <2>1. UncommittedInv'
    BY <1>1, <1>8 DEF NamesIInv, RegistryInv, UncommittedInv
  <2>2. CarriedInv'
    BY <1>2, <1>8 DEF NamesIInv, RegistryInv, CarriedInv, Bootstrap
  <2>3. RowNameInv'
    BY <1>1, <1>8 DEF NamesIInv, RegistryInv, RowNameInv
  <2> QED BY <2>1, <2>2, <2>3
<1>10. ASSUME NEW r \in rows, r.span \notin createdTwice'
       PROVE  /\ ~Carried(r)
              /\ \A q \in Resolvers \ {s} : ~(at[q] = Bootstrap /\ r \in missing[q])
  <2>1. \A q \in Resolvers \ {s} : ~Inserting(q, r)
    BY <1>1, <1>10
  <2>2. ASSUME NEW e \in Ids, entity[e].xid = r.xid PROVE FALSE
    <3>1. r.xid # 0
      BY <1>3 DEF EntityAssumption
    <3>2. e \in Used
      BY <2>2, <3>1 DEF Used, Blank
    <3>3. owner[e] # Nobody
      BY <1>2, <2>2, <3>2
    <3>4. owner[e] \in Resolvers /\ at[owner[e]] = Bootstrap
      BY <2>2, <3>1, <3>3 DEF NamesIInv, RegistryInv, UncommittedInv
    <3> QED BY <1>8, <2>1, <2>2, <3>2, <3>4 DEF Inserting
  <2> QED BY <2>1, <2>2 DEF Carried, Inserting
<1>11. MissingInv'
  <2> SUFFICES ASSUME NEW r \in Registry, r.span \notin createdTwice',
                      NEW q \in Resolvers, at'[q] = Bootstrap, r \in missing'[q]
               PROVE  /\ ~Carried(r)
                      /\ \A p \in Resolvers \ {q} : ~(at'[p] = Bootstrap /\ r \in missing'[p])
    BY <1>8 DEF MissingInv
  <2>1. CASE q = s
    BY <1>8, <1>10, <2>1
  <2>2. CASE q # s
    <3>1. ~Carried(r) /\ \A p \in Resolvers \ {q} : ~(at[p] = Bootstrap /\ r \in missing[p])
      BY <1>4, <1>8, <2>2 DEF NamesIInv, RegistryInv, MissingInv
    <3>2. r \notin rows
      BY <1>8, <1>10, <2>2
    <3> QED BY <1>8, <3>1, <3>2
  <2> QED BY <2>1, <2>2
<1>12. RelationsLive'
  BY <1>1 DEF NamesIInv, RelationsLive, Live
<1> QED BY <1>5, <1>6, <1>7, <1>9, <1>11, <1>12 DEF NamesIInv, RegistryInv

LEMMA CommitRegistryKeeps ==
  ASSUME NamesIInv, NEW s \in Resolvers, CommitRegistry(s)
  PROVE  NamesIInv'
<1>1. /\ at' = [at EXCEPT ![s] = 1] /\ at[s] = Bootstrap /\ missing[s] = {}
      /\ owner' = CommittedBy(s)
      /\ UNCHANGED <<entity, missing, found, relations, late, createdTwice>>
  BY DEF CommitRegistry
<1>2. EntityTypes'
  <2>1. owner' \in [Ids -> Resolvers \cup {Nobody}]
    BY <1>1 DEF NamesIInv, EntityTypes, CommittedBy
  <2> QED BY <1>1, <2>1 DEF NamesIInv, EntityTypes, Bootstrap
<1>3. NameOnce' /\ ChainsEnd'
  BY <1>1, RowsAlone DEF NamesIInv
<1>4. /\ at'[s] = 1 /\ \A q \in Resolvers \ {s} : at'[q] = at[q]
      /\ \A e \in Ids : owner'[e] = IF owner[e] = s THEN Nobody ELSE owner[e]
  BY <1>1 DEF NamesIInv, EntityTypes, CommittedBy
<1>5. UncommittedInv'
  BY <1>1, <1>4 DEF NamesIInv, RegistryInv, UncommittedInv
<1>6. CarriedInv'
  BY <1>1, <1>4 DEF NamesIInv, RegistryInv, CarriedInv, Carried, Bootstrap
<1>7. MissingInv'
  BY <1>1, <1>4 DEF NamesIInv, RegistryInv, MissingInv, Carried, Bootstrap
<1>8. RowNameInv'
  BY <1>1 DEF NamesIInv, RegistryInv, RowNameInv, Carried
<1>9. RelationsLive'
  BY <1>1 DEF NamesIInv, RelationsLive, Live
<1> QED BY <1>2, <1>3, <1>5, <1>6, <1>7, <1>8, <1>9 DEF NamesIInv, RegistryInv

(* A blank row becomes an entity of name n and external id x: n is no live *)
(* entity's, x no entity's, unless the name is one of those set apart.     *)
LEMMA RowAdded ==
  ASSUME NamesIInv, EntityAssumption,
         NEW new \in Ids, entity[new] = Blank, NEW n \in EntityNames, NEW x \in EntityXids,
         entity' = [entity EXCEPT ![new] = [aliases |-> {n}, xid |-> x, into |-> NoEntity]],
         createdTwice \subseteq createdTwice', UNCHANGED <<relations, late>>,
         n \notin createdTwice' \cup ListedTwice =>
            \A g \in Ids : ~(Live(g) /\ n \in entity[g].aliases),
         \A r \in Registry : r.xid = x /\ r.span \notin createdTwice' => ~Carried(r)
  PROVE  /\ entity' \in [Ids -> EntityRow] /\ NameOnce' /\ ChainsEnd' /\ RelationsLive'
         /\ entity'[new].aliases = {n} /\ entity'[new].xid = x
         /\ \A e \in Ids \ {new} : entity'[e] = entity[e]
         /\ entity[new].aliases = {} /\ entity[new].xid = 0
<1> DEFINE added == [aliases |-> {n}, xid |-> x, into |-> NoEntity]
<1>1. /\ added \in EntityRow /\ added.into = NoEntity /\ added.aliases = {n} /\ added.xid = x
      /\ Blank.into = NoEntity /\ Blank.aliases = {} /\ Blank.xid = 0
  BY DEF Blank, EntityRow
<1>2. /\ entity' \in [Ids -> EntityRow] /\ entity'[new] = added
      /\ \A e \in Ids \ {new} : entity'[e] = entity[e]
  <2>1. entity \in [Ids -> EntityRow]
    BY DEF NamesIInv, EntityTypes
  <2> QED BY <1>1, <2>1
<1> HIDE DEF added
<1>3. /\ \A e \in Ids : entity'[e].into = entity[e].into
      /\ \A e \in Ids : entity[e].aliases \subseteq entity'[e].aliases
  BY <1>1, <1>2
<1>4. NameOnce'
  <2> SUFFICES ASSUME NEW m, m \notin createdTwice' \cup ListedTwice,
                      NEW e \in Ids, NEW f \in Ids,
                      entity'[e].into = NoEntity, m \in entity'[e].aliases,
                      entity'[f].into = NoEntity, m \in entity'[f].aliases
               PROVE  e = f
    BY DEF NameOnce, Live
  <2>1. m \notin createdTwice \cup ListedTwice
    OBVIOUS
  <2>2. CASE e # new /\ f # new
    BY <1>2, <2>1, <2>2 DEF NamesIInv, NameOnce, Live
  <2>3. ASSUME NEW g \in Ids, g # new, entity'[g].into = NoEntity, m \in entity'[g].aliases
        PROVE  m \notin entity'[new].aliases
    BY <1>1, <1>2, <2>3 DEF Live
  <2> QED BY <2>2, <2>3
<1>5. ChainsEnd'
  <2>1. Into' = Into
    BY <1>3 DEF Into
  <2>2. PICK R \in [Ids -> Ids] :
          /\ Ends(R, Into) /\ \A Q : Ends(Q, Into) => Q = R
          /\ \A e \in Ids : Live(R[e]) /\ entity[e].aliases \subseteq entity[R[e]].aliases
          /\ \A r \in Registry : r.span \notin createdTwice =>
                \A e, f \in Ids : entity[e].xid = r.xid /\ entity[f].xid = r.xid => R[e] = R[f]
    BY DEF NamesIInv, ChainsEnd
  <2>3. Ends(R, Into') /\ \A Q : Ends(Q, Into') => Q = R
    BY <2>1, <2>2
  <2>4. ASSUME NEW e \in Ids
        PROVE  Live(R[e])' /\ entity'[e].aliases \subseteq entity'[R[e]].aliases
    <3>1. R[e] \in Ids
      OBVIOUS
    <3>2. Live(R[e])'
      BY <1>3, <2>2, <3>1 DEF Live
    <3>3. CASE e = new
      <4>1. R[e] = IF Into[e] = NoEntity THEN e ELSE R[Into[e]]
        BY <2>2 DEF Ends
      <4>2. Into[e] = NoEntity
        BY <1>1, <3>3 DEF Into
      <4> QED BY <3>2, <4>1, <4>2
    <3>4. CASE e # new
      <4>1. entity'[e] = entity[e]
        BY <1>2, <3>4
      <4>2. entity[R[e]].aliases \subseteq entity'[R[e]].aliases
        BY <1>3, <3>1
      <4> QED BY <2>2, <3>2, <4>1, <4>2
    <3> QED BY <3>3, <3>4
  <2>5. ASSUME NEW r \in Registry, r.span \notin createdTwice', NEW e \in Ids, NEW f \in Ids,
               entity'[e].xid = r.xid, entity'[f].xid = r.xid
        PROVE  R[e] = R[f]
    <3>1. CASE x = r.xid
      <4>1. ~Carried(r)
        BY <2>5, <3>1
      <4>2. \A g \in Ids \ {new} : entity'[g].xid # r.xid
        BY <1>2, <4>1 DEF Carried
      <4> QED BY <2>5, <4>2
    <3>2. CASE x # r.xid
      <4>1. e # new /\ f # new
        BY <1>1, <1>2, <2>5, <3>2
      <4>2. entity[e].xid = r.xid /\ entity[f].xid = r.xid
        BY <1>2, <2>5, <4>1
      <4> QED BY <2>2, <2>5, <4>2
    <3> QED BY <3>1, <3>2
  <2> QED BY <2>3, <2>4, <2>5 DEF ChainsEnd
<1>6. RelationsLive'
  <2> SUFFICES ASSUME NEW r \in relations
               PROVE  r[1] # r[2] /\ (r \in late \/ (Live(r[1])' /\ Live(r[2])'))
    BY DEF RelationsLive
  <2>1. r[1] \in Ids /\ r[2] \in Ids
    BY DEF NamesIInv, EntityTypes
  <2> QED BY <1>3, <2>1 DEF NamesIInv, RelationsLive, Live
<1> QED BY <1>1, <1>2, <1>4, <1>5, <1>6

LEMMA CreateEntityKeeps ==
  ASSUME NamesIInv, NEW s \in Resolvers, NEW c \in Candidates, CreateEntity(s, c),
         EntityAssumption
  PROVE  NamesIInv'
<1> DEFINE new == NextId
<1>1. new \in Ids /\ entity[new] = Blank /\ new # NoEntity
  <2>1. NoEntity \notin Ids
    BY DEF EntityAssumption, NoEntity
  <2> QED BY <2>1, NextIdBlank DEF CreateEntity
<1>2. /\ entity' = [entity EXCEPT ![new] = [aliases |-> {c.span}, xid |-> 0, into |-> NoEntity]]
      /\ owner' = [owner EXCEPT ![new] = s]
  BY DEF CreateEntity, Named
<1>3. /\ Found(s, new) /\ at[s] \in 1..2
      /\ createdTwice \subseteq createdTwice'
  BY DEF CreateEntity
<1>4. UNCHANGED <<missing, relations, late>>
  BY <1>3 DEF Found
<1> HIDE DEF new
<1>5. ASSUME NEW g \in Ids, Live(g), c.span \in entity[g].aliases,
             c.span \notin createdTwice' \cup ListedTwice
      PROVE  FALSE
  <2>1. c.span \notin createdTwice \cup ListedTwice
    BY <1>3, <1>5
  <2>2. g \in Used
    BY <1>5 DEF Used, Blank
  <2>3. owner[g] \in {Nobody, s}
    BY <1>5, <2>2 DEF CreateEntity
  <2>4. AliasHits(s, c) = {g}
    <3>1. g \in AliasHits(s, c)
      BY <1>5, <2>2, <2>3 DEF AliasHits, Visible
    <3>2. ASSUME NEW h \in AliasHits(s, c) PROVE h = g
      <4>1. h \in Ids /\ Live(h) /\ c.span \in entity[h].aliases
        BY <3>2 DEF AliasHits, Visible, Used
      <4> QED BY <1>5, <2>1, <4>1 DEF NamesIInv, NameOnce
    <3> QED BY <3>1, <3>2
  <2> QED BY <2>4, CreatedUnseen DEF CreateEntity
<1>6. c.span \in EntityNames /\ 0 \in EntityXids /\ \A r \in Registry : r.xid # 0
  BY DEF EntityNames, EntityXids, EntityAssumption
<1>7. /\ entity' \in [Ids -> EntityRow] /\ NameOnce' /\ ChainsEnd' /\ RelationsLive'
      /\ entity'[new].aliases = {c.span} /\ entity'[new].xid = 0
      /\ \A e \in Ids \ {new} : entity'[e] = entity[e]
      /\ entity[new].aliases = {} /\ entity[new].xid = 0
  <2>1. c.span \notin createdTwice' \cup ListedTwice =>
           \A g \in Ids : ~(Live(g) /\ c.span \in entity[g].aliases)
    BY <1>5
  <2>2. \A r \in Registry : r.xid = 0 /\ r.span \notin createdTwice' => ~Carried(r)
    BY <1>6
  <2> QED BY <1>1, <1>2, <1>3, <1>4, <1>6, <2>1, <2>2, RowAdded
<1>8. EntityTypes'
  <2>1. owner' \in [Ids -> Resolvers \cup {Nobody}]
    BY <1>2 DEF NamesIInv, EntityTypes
  <2>2. /\ at' \in [Resolvers -> 0..4]
        /\ found' \in [Resolvers -> (Ids \cup {NoEntity}) \X (Ids \cup {NoEntity})]
        /\ \A q \in Resolvers : \A i \in 1..2 :
              at'[q] # Bootstrap /\ i < at'[q] => found'[q][i] \in Ids
    BY <1>1, <1>3 DEF NamesIInv, EntityTypes, Found, Bootstrap
  <2> QED BY <1>4, <1>7, <2>1, <2>2 DEF NamesIInv, EntityTypes
<1>9. /\ \A r \in Registry : Carried(r)' <=> Carried(r)
      /\ \A q \in Resolvers : /\ at'[q] = Bootstrap <=> at[q] = Bootstrap
                              /\ at'[q] \in 1..3 => at[q] \in 1..3
  <2>1. \A r \in Registry : Carried(r)' <=> Carried(r)
    BY <1>6, <1>7 DEF Carried
  <2>2. at' = [at EXCEPT ![s] = @ + 1]
    BY <1>3 DEF Found
  <2> QED BY <1>3, <2>1, <2>2 DEF NamesIInv, EntityTypes, Bootstrap
<1>10. UncommittedInv'
  <2> SUFFICES ASSUME NEW e \in Ids, entity'[e].xid # 0, owner'[e] # Nobody
               PROVE  owner'[e] \in Resolvers /\ at'[owner'[e]] = Bootstrap
    BY DEF UncommittedInv
  <2>1. e # new
    BY <1>7
  <2>2. owner'[e] = owner[e] /\ entity[e].xid # 0
    BY <1>2, <1>7, <2>1
  <2> QED BY <1>9, <2>2 DEF NamesIInv, RegistryInv, UncommittedInv
<1>11. CarriedInv' /\ MissingInv'
  BY <1>3, <1>4, <1>9 DEF NamesIInv, RegistryInv, CarriedInv, MissingInv
<1>12. RowNameInv'
  <2>1. \A r \in Registry : Carried(r)
    BY <1>3 DEF NamesIInv, RegistryInv, CarriedInv
  <2> QED BY <1>9, <2>1 DEF RowNameInv
<1> QED BY <1>7, <1>8, <1>10, <1>11, <1>12 DEF NamesIInv, RegistryInv

(* The row inserted first is one that is missing.                          *)
LEMMA RowChosen ==
  ASSUME EntityAssumption, NEW rows, rows \subseteq Registry, rows # {}
  PROVE  (CHOOSE r \in rows : \A q \in rows : r.xid <= q.xid) \in rows
<1> DEFINE T == {r.xid : r \in rows}
<1>1. T \subseteq Nat /\ T # {}
  BY DEF EntityAssumption
<1>2. \E e \in T : \A f \in T : e <= f
  <2> HIDE DEF T
  <2> QED BY <1>1, LeastNatural
<1>3. \E r \in rows : \A q \in rows : r.xid <= q.xid
  BY <1>2
<1> QED BY <1>3

LEMMA InsertRowKeeps ==
  ASSUME NamesIInv, NEW s \in Resolvers, InsertRow(s), EntityAssumption
  PROVE  NamesIInv'
<1> DEFINE new == NextId
           least == CHOOSE r \in missing[s] : \A q \in missing[s] : r.xid <= q.xid
<1>1. new \in Ids /\ entity[new] = Blank
  BY NextIdBlank DEF InsertRow
<1>2. /\ at[s] = Bootstrap
      /\ entity' = [entity EXCEPT ![new] = [aliases |-> {least.span}, xid |-> least.xid,
                                            into |-> NoEntity]]
      /\ owner' = [owner EXCEPT ![new] = s]
      /\ missing' = [missing EXCEPT ![s] = @ \ {least}]
      /\ UNCHANGED <<at, found, relations, late, createdTwice>>
  <2> HIDE DEF new, least
  <2>1. [Named(least) EXCEPT !.xid = least.xid]
           = [aliases |-> {least.span}, xid |-> least.xid, into |-> NoEntity]
    BY DEF Named
  <2> USE DEF new, least
  <2> QED BY <2>1, Zenon DEF InsertRow
<1>3. least \in missing[s] /\ missing[s] \subseteq Registry
  <2>1. missing[s] \subseteq Registry /\ missing[s] # {}
    BY DEF NamesIInv, EntityTypes, InsertRow
  <2> QED BY <2>1, RowChosen
<1> HIDE DEF new, least
<1>4. /\ least \in Registry /\ least.xid # 0 /\ least.span \in EntityNames /\ least.xid \in EntityXids
      /\ \A r \in Registry : r.xid = least.xid => r = least
  BY <1>3 DEF EntityAssumption, EntityNames, EntityXids
<1>5. least.span \notin createdTwice =>
         /\ ~Carried(least)
         /\ \A q \in Resolvers \ {s} : ~(at[q] = Bootstrap /\ least \in missing[q])
  BY <1>2, <1>3, <1>4 DEF NamesIInv, RegistryInv, MissingInv
<1>6. least.span \notin createdTwice' \cup ListedTwice =>
         \A g \in Ids : ~(Live(g) /\ least.span \in entity[g].aliases)
  BY <1>2, <1>4, <1>5 DEF NamesIInv, RegistryInv, RowNameInv
<1>7. /\ entity' \in [Ids -> EntityRow] /\ NameOnce' /\ ChainsEnd' /\ RelationsLive'
      /\ entity'[new].aliases = {least.span} /\ entity'[new].xid = least.xid
      /\ \A e \in Ids \ {new} : entity'[e] = entity[e]
      /\ entity[new].aliases = {} /\ entity[new].xid = 0
  <2>1. \A r \in Registry : r.xid = least.xid /\ r.span \notin createdTwice' => ~Carried(r)
    BY <1>2, <1>4, <1>5
  <2> QED BY <1>1, <1>2, <1>4, <1>6, <2>1, RowAdded
<1>8. EntityTypes'
  BY <1>2, <1>3, <1>7 DEF NamesIInv, EntityTypes
<1>9. \A r \in Registry : Carried(r)' <=> Carried(r) \/ r = least
  BY <1>1, <1>4, <1>7 DEF Carried, EntityAssumption
<1>10. /\ missing'[s] = missing[s] \ {least}
       /\ \A q \in Resolvers \ {s} : missing'[q] = missing[q]
  BY <1>2 DEF NamesIInv, EntityTypes
<1>11. UncommittedInv'
  <2> SUFFICES ASSUME NEW e \in Ids, entity'[e].xid # 0, owner'[e] # Nobody
               PROVE  owner'[e] \in Resolvers /\ at[owner'[e]] = Bootstrap
    BY <1>2 DEF UncommittedInv
  <2>1. CASE e = new
    <3>1. owner'[e] \in {s, owner[e]}
      BY <1>2
    <3>2. CASE owner'[e] = s
      BY <1>2, <3>2
    <3>3. CASE owner'[e] # s
      BY <1>2, <2>1, <3>3 DEF NamesIInv, EntityTypes
    <3> QED BY <3>2, <3>3
  <2>2. CASE e # new
    <3>1. owner'[e] = owner[e] /\ entity[e].xid # 0
      BY <1>2, <1>7, <2>2
    <3> QED BY <3>1 DEF NamesIInv, RegistryInv, UncommittedInv
  <2> QED BY <2>1, <2>2
<1>12. CarriedInv'
  BY <1>2, <1>9, <1>10 DEF NamesIInv, RegistryInv, CarriedInv
<1>13. MissingInv'
  <2> SUFFICES ASSUME NEW r \in Registry, r.span \notin createdTwice,
                      NEW q \in Resolvers, at[q] = Bootstrap, r \in missing'[q]
               PROVE  /\ ~Carried(r)'
                      /\ \A p \in Resolvers \ {q} : ~(at[p] = Bootstrap /\ r \in missing'[p])
    BY <1>2 DEF MissingInv
  <2>1. r \in missing[q]
    BY <1>10
  <2>2. ~Carried(r) /\ \A p \in Resolvers \ {q} : ~(at[p] = Bootstrap /\ r \in missing[p])
    BY <2>1 DEF NamesIInv, RegistryInv, MissingInv
  <2>3. r # least
    <3>1. CASE q = s
      BY <1>10, <3>1
    <3>2. CASE q # s
      BY <1>5, <2>1, <3>2
    <3> QED BY <3>1, <3>2
  <2> QED BY <1>9, <1>10, <2>2, <2>3
<1>14. RowNameInv'
  <2> SUFFICES ASSUME NEW r \in Registry, NEW e \in Ids,
                      r.span \in entity'[e].aliases \ ListedTwice
               PROVE  Carried(r)'
    BY DEF RowNameInv
  <2>1. CASE e = new
    <3>1. r.span = least.span
      BY <1>7, <2>1
    <3>2. r = least
      BY <1>4, <3>1 DEF ListedTwice
    <3> QED BY <1>9, <3>2
  <2>2. CASE e # new
    <3>1. r.span \in entity[e].aliases \ ListedTwice
      BY <1>7, <2>2
    <3>2. Carried(r)
      BY <3>1 DEF NamesIInv, RegistryInv, RowNameInv
    <3> QED BY <1>9, <3>2
  <2> QED BY <2>1, <2>2
<1> QED BY <1>7, <1>8, <1>11, <1>12, <1>13, <1>14 DEF NamesIInv, RegistryInv

LEMMA MergeKeeps ==
  ASSUME NamesIInv, NEW survivor \in Ids, NEW merged \in Ids, Merge(survivor, merged),
         EntityAssumption
  PROVE  NamesIInv'
<1> DEFINE kept == MergedRow(survivor, merged)
<1>1. /\ survivor # merged /\ Live(survivor) /\ Live(merged)
      /\ entity' = [entity EXCEPT ![survivor] = kept, ![merged].into = survivor]
      /\ relations' = Rewired(relations, survivor, merged)
      /\ late' = Rewired(late, survivor, merged)
      /\ owner[survivor] = Nobody /\ owner[merged] = Nobody
      /\ UNCHANGED <<owner, at, missing, found, createdTwice>>
  BY DEF Merge
<1>2. /\ kept \in EntityRow /\ kept.into = NoEntity
      /\ kept.aliases = entity[survivor].aliases \cup entity[merged].aliases
      /\ kept.xid \in {entity[survivor].xid, entity[merged].xid}
      /\ entity[survivor].xid # 0 => kept.xid = entity[survivor].xid
  BY DEF NamesIInv, EntityTypes, EntityRow, MergedRow
<1> HIDE DEF kept
<1>3. NoEntity \notin Ids
  BY DEF EntityAssumption, NoEntity
<1>4. /\ entity' \in [Ids -> EntityRow]
      /\ entity'[survivor] = kept
      /\ entity'[merged].into = survivor /\ entity'[merged].aliases = entity[merged].aliases
      /\ entity'[merged].xid = entity[merged].xid
      /\ \A e \in Ids \ {survivor, merged} : entity'[e] = entity[e]
  <2>1. entity \in [Ids -> EntityRow]
    BY DEF NamesIInv, EntityTypes
  <2>2. [entity[merged] EXCEPT !.into = survivor] \in EntityRow
    BY <2>1 DEF EntityRow
  <2>3. /\ [entity[merged] EXCEPT !.into = survivor].into = survivor
        /\ [entity[merged] EXCEPT !.into = survivor].aliases = entity[merged].aliases
        /\ [entity[merged] EXCEPT !.into = survivor].xid = entity[merged].xid
    BY <2>1 DEF EntityRow
  <2>4. entity' = [e \in Ids |-> IF e = merged THEN [entity[merged] EXCEPT !.into = survivor]
                                 ELSE IF e = survivor THEN kept ELSE entity[e]]
    BY <1>1, <2>1
  <2> QED BY <1>1, <1>2, <2>1, <2>2, <2>3, <2>4
<1> DEFINE Moved(e) == IF e = merged THEN survivor ELSE e
<1>5. ASSUME NEW rs, NEW q \in Rewired(rs, survivor, merged)
      PROVE  \E r \in rs : /\ {r[1], r[2]} # {survivor, merged}
                           /\ q = <<Moved(r[1]), Moved(r[2])>>
  BY <1>5 DEF Rewired
<1>6. ASSUME NEW rs, NEW r \in rs, {r[1], r[2]} # {survivor, merged}
      PROVE  <<Moved(r[1]), Moved(r[2])>> \in Rewired(rs, survivor, merged)
  BY <1>6 DEF Rewired
<1>7. relations' \subseteq Ids \X Ids /\ late' \subseteq relations'
  <2>1. ASSUME NEW q \in relations' PROVE q \in Ids \X Ids
    <3>1. PICK r \in relations : q = <<Moved(r[1]), Moved(r[2])>>
      BY <1>1, <1>5, <2>1
    <3>2. r[1] \in Ids /\ r[2] \in Ids
      BY DEF NamesIInv, EntityTypes
    <3> QED BY <3>1, <3>2
  <2>2. ASSUME NEW q \in late' PROVE q \in relations'
    <3>1. PICK r \in late : /\ {r[1], r[2]} # {survivor, merged}
                            /\ q = <<Moved(r[1]), Moved(r[2])>>
      BY <1>1, <1>5, <2>2
    <3>2. r \in relations
      BY DEF NamesIInv, EntityTypes
    <3> QED BY <1>1, <1>6, <3>1, <3>2
  <2> QED BY <2>1, <2>2
<1>8. EntityTypes'
  BY <1>1, <1>4, <1>7 DEF NamesIInv, EntityTypes
<1>9. NameOnce'
  <2> SUFFICES ASSUME NEW n, n \notin createdTwice \cup ListedTwice,
                      NEW e \in Ids, NEW f \in Ids,
                      entity'[e].into = NoEntity, n \in entity'[e].aliases,
                      entity'[f].into = NoEntity, n \in entity'[f].aliases
               PROVE  e = f
    BY <1>1 DEF NameOnce, Live
  <2>1. e # merged /\ f # merged
    BY <1>3, <1>4
  <2>2. ASSUME NEW g \in Ids, g # merged, entity'[g].into = NoEntity, n \in entity'[g].aliases
        PROVE  \E h \in Ids : /\ Live(h) /\ n \in entity[h].aliases
                              /\ (h = merged \/ h = survivor) <=> g = survivor
                              /\ g # survivor => h = g
    BY <1>1, <1>2, <1>4, <2>2 DEF Live
  <2>3. PICK d \in Ids : /\ Live(d) /\ n \in entity[d].aliases
                         /\ (d = merged \/ d = survivor) <=> e = survivor
                         /\ e # survivor => d = e
    BY <2>1, <2>2
  <2>4. PICK h \in Ids : /\ Live(h) /\ n \in entity[h].aliases
                         /\ (h = merged \/ h = survivor) <=> f = survivor
                         /\ f # survivor => h = f
    BY <2>1, <2>2
  <2>5. d = h
    BY <2>3, <2>4 DEF NamesIInv, NameOnce
  <2> QED BY <2>3, <2>4, <2>5
<1>10. ChainsEnd'
  <2>1. PICK R \in [Ids -> Ids] :
          /\ Ends(R, Into) /\ \A Q : Ends(Q, Into) => Q = R
          /\ \A e \in Ids : Live(R[e]) /\ entity[e].aliases \subseteq entity[R[e]].aliases
          /\ \A r \in Registry : r.span \notin createdTwice =>
                \A e, f \in Ids : entity[e].xid = r.xid /\ entity[f].xid = r.xid => R[e] = R[f]
    BY DEF NamesIInv, ChainsEnd
  <2>2. /\ Into \in [Ids -> Ids \cup {NoEntity}]
        /\ Into[survivor] = NoEntity /\ Into[merged] = NoEntity
    BY <1>1 DEF NamesIInv, EntityTypes, EntityRow, Into, Live
  <2>3. Into' = [Into EXCEPT ![merged] = survivor]
    <3>1. \A e \in Ids : entity'[e].into = IF e = merged THEN survivor ELSE entity[e].into
      BY <1>1, <1>2, <1>4 DEF Live
    <3> QED BY <3>1 DEF Into
  <2> DEFINE S == [e \in Ids |-> IF R[e] = merged THEN survivor ELSE R[e]]
  <2>4. Ends(S, Into') /\ \A Q : Ends(Q, Into') => Q = S
    BY <1>1, <2>1, <2>2, <2>3, EndsMoved
  <2>5. ASSUME NEW e \in Ids
        PROVE  Live(S[e])' /\ entity'[e].aliases \subseteq entity'[S[e]].aliases
    <3>1. R[e] \in Ids /\ entity[R[e]].into = NoEntity
          /\ entity[e].aliases \subseteq entity[R[e]].aliases
      BY <2>1 DEF Live
    <3>2. S[e] \in Ids /\ S[e] # merged /\ Live(S[e])'
      BY <1>1, <1>2, <1>4, <3>1 DEF Live
    <3>3. entity[R[e]].aliases \subseteq entity'[S[e]].aliases
      BY <1>1, <1>2, <1>4, <3>1
    <3>4. CASE e # survivor
      <4>1. entity'[e].aliases = entity[e].aliases
        BY <1>4, <3>4
      <4> QED BY <3>1, <3>2, <3>3, <4>1
    <3>5. CASE e = survivor
      <4>1. R[e] = IF Into[e] = NoEntity THEN e ELSE R[Into[e]]
        BY <2>1 DEF Ends
      <4>2. S[e] = e
        BY <1>1, <2>2, <3>5, <4>1
      <4> QED BY <3>2, <4>2
    <3> QED BY <3>4, <3>5
  <2>6. S \in [Ids -> Ids]
    OBVIOUS
  <2>7. /\ R[survivor] = survivor /\ R[merged] = merged
        /\ \A e \in Ids : R[e] \in {survivor, merged} => S[e] = survivor
        /\ \A e \in Ids : R[e] \notin {survivor, merged} => S[e] = R[e]
    <3>1. \A e \in Ids : R[e] = IF Into[e] = NoEntity THEN e ELSE R[Into[e]]
      BY <2>1 DEF Ends
    <3> QED BY <1>1, <2>2, <3>1
  <2>8. ASSUME NEW r \in Registry, r.span \notin createdTwice, NEW e \in Ids, NEW f \in Ids,
               entity'[e].xid = r.xid, entity'[f].xid = r.xid
        PROVE  S[e] = S[f]
    <3>1. ASSUME NEW g \in Ids, entity'[g].xid = r.xid
          PROVE  \E h \in Ids : entity[h].xid = r.xid /\ S[h] = S[g]
      <4>1. CASE g = survivor
        <5>1. entity[survivor].xid = r.xid \/ entity[merged].xid = r.xid
          BY <1>2, <1>4, <3>1, <4>1
        <5> QED BY <2>7, <4>1, <5>1
      <4>2. CASE g # survivor
        <5>1. entity[g].xid = r.xid
          BY <1>4, <3>1, <4>2
        <5> QED BY <5>1
      <4> QED BY <4>1, <4>2
    <3>2. \A g, h \in Ids : entity[g].xid = r.xid /\ entity[h].xid = r.xid => S[g] = S[h]
      BY <2>1, <2>8
    <3> HIDE DEF S
    <3> QED BY <2>8, <3>1, <3>2
  <2> HIDE DEF S
  <2>9. \A r \in Registry : r.span \notin createdTwice' =>
           \A e, f \in Ids : entity'[e].xid = r.xid /\ entity'[f].xid = r.xid => S[e] = S[f]
    BY <1>1, <2>8
  <2> QED BY <2>4, <2>5, <2>6, <2>9 DEF ChainsEnd
<1>11. RelationsLive'
  <2> SUFFICES ASSUME NEW q \in relations'
               PROVE  q[1] # q[2] /\ (q \in late' \/ (Live(q[1])' /\ Live(q[2])'))
    BY DEF RelationsLive
  <2>1. PICK r \in relations : /\ {r[1], r[2]} # {survivor, merged}
                               /\ q = <<Moved(r[1]), Moved(r[2])>>
    BY <1>1, <1>5
  <2>2. r[1] \in Ids /\ r[2] \in Ids /\ q[1] = Moved(r[1]) /\ q[2] = Moved(r[2])
    BY <2>1 DEF NamesIInv, EntityTypes
  <2>3. r[1] # r[2] /\ (r \in late \/ (Live(r[1]) /\ Live(r[2])))
    BY DEF NamesIInv, RelationsLive
  <2>4. q[1] # q[2]
    BY <2>1, <2>2, <2>3
  <2>5. CASE r \in late
    BY <1>1, <1>6, <2>1, <2>4, <2>5
  <2>6. CASE Live(r[1]) /\ Live(r[2])
    <3>1. \A e \in Ids : Live(e) => Live(Moved(e))'
      BY <1>1, <1>2, <1>4 DEF Live
    <3> QED BY <2>2, <2>4, <2>6, <3>1
  <2> QED BY <2>3, <2>5, <2>6
<1>12. /\ \A x : x # 0 =>
                ((\E e \in Ids : entity'[e].xid = x) <=> (\E e \in Ids : entity[e].xid = x))
       /\ \A r \in Registry : Carried(r)' <=> Carried(r)
  <2>1. ASSUME NEW x, x # 0, NEW e \in Ids, entity[e].xid = x
        PROVE  \E f \in Ids : entity'[f].xid = x
    BY <1>2, <1>4, <2>1
  <2>2. ASSUME NEW x, NEW e \in Ids, entity'[e].xid = x
        PROVE  \E f \in Ids : entity[f].xid = x
    BY <1>2, <1>4, <2>2
  <2>3. \A r \in Registry : r.xid # 0
    BY DEF EntityAssumption
  <2> QED BY <2>1, <2>2, <2>3 DEF Carried
<1>13. RegistryInv'
  <2>1. UncommittedInv'
    <3> SUFFICES ASSUME NEW e \in Ids, entity'[e].xid # 0, owner[e] # Nobody
                 PROVE  owner[e] \in Resolvers /\ at[owner[e]] = Bootstrap
      BY <1>1 DEF UncommittedInv
    <3>1. entity'[e] = entity[e]
      BY <1>1, <1>4
    <3> QED BY <3>1 DEF NamesIInv, RegistryInv, UncommittedInv
  <2>2. CarriedInv' /\ MissingInv'
    BY <1>1, <1>12 DEF NamesIInv, RegistryInv, CarriedInv, MissingInv
  <2>3. RowNameInv'
    <3> SUFFICES ASSUME NEW r \in Registry, NEW e \in Ids,
                        r.span \in entity'[e].aliases \ ListedTwice
                 PROVE  Carried(r)
      BY <1>12 DEF RowNameInv
    <3>1. \E f \in Ids : r.span \in entity[f].aliases
      BY <1>2, <1>4
    <3> QED BY <3>1 DEF NamesIInv, RegistryInv, RowNameInv
  <2> QED BY <2>1, <2>2, <2>3 DEF RegistryInv
<1> QED BY <1>8, <1>9, <1>10, <1>11, <1>13 DEF NamesIInv

LEMMA EntityStepHolds ==
  ASSUME EntityAssumption PROVE NamesIInv /\ [EntityNext]_entityVars => NamesIInv'
<1> SUFFICES ASSUME NamesIInv, [EntityNext]_entityVars PROVE NamesIInv'
  OBVIOUS
<1>1. ASSUME NEW s \in Resolvers, NEW c \in Candidates, Resolve(s, c) PROVE NamesIInv'
  BY <1>1, ResolveKeeps
<1>2. ASSUME NEW s \in Resolvers, NEW c \in Candidates, CreateEntity(s, c) PROVE NamesIInv'
  BY <1>2, CreateEntityKeeps
<1>3. ASSUME NEW s \in Resolvers, PersistRelation(s) PROVE NamesIInv'
  BY <1>3, PersistRelationKeeps
<1>4. ASSUME NEW survivor \in Ids, NEW merged \in Ids, Merge(survivor, merged) PROVE NamesIInv'
  BY <1>4, MergeKeeps
<1>5. ASSUME NEW s \in Resolvers, LookUpRegistry(s) PROVE NamesIInv'
  BY <1>5, LookUpRegistryKeeps
<1>6. ASSUME NEW s \in Resolvers, InsertRow(s) PROVE NamesIInv'
  BY <1>6, InsertRowKeeps
<1>7. ASSUME NEW s \in Resolvers, CommitRegistry(s) PROVE NamesIInv'
  BY <1>7, CommitRegistryKeeps
<1>8. CASE UNCHANGED entityVars
  <2>1. EntityTypes' /\ RelationsLive'
    BY <1>8 DEF NamesIInv, EntityTypes, RelationsLive, Live, entityVars
  <2>2. NameOnce' /\ ChainsEnd'
    BY <1>8, RowsAlone DEF NamesIInv, entityVars
  <2>3. RegistryInv'
    BY <1>8 DEF NamesIInv, RegistryInv, UncommittedInv, CarriedInv, MissingInv, RowNameInv,
        Carried, entityVars
  <2> QED BY <2>1, <2>2, <2>3 DEF NamesIInv
<1> QED BY <1>1, <1>2, <1>3, <1>4, <1>5, <1>6, <1>7, <1>8 DEF EntityNext

(* Root is the one solution there is.                                      *)
LEMMA RootEnds ==
  ASSUME NEW R, Ends(R, Into), \A Q : Ends(Q, Into) => Q = R
  PROVE  \A e \in Ids : Root[e] = R[e]
<1>1. Root = CHOOSE root : root = [e \in Ids |-> IF Live(e) THEN e ELSE root[entity[e].into]]
  BY DEF Root
<1>2. \A Q : Ends(Q, Into) <=> Q = [e \in Ids |-> IF Live(e) THEN e ELSE Q[entity[e].into]]
  BY DEF Ends, Into, Live
<1>3. Root = [e \in Ids |-> IF Live(e) THEN e ELSE Root[entity[e].into]]
  BY <1>1, <1>2
<1> QED BY <1>2, <1>3

(* Whatever the registry and its repeated names: a name that is listed once*)
(* has one live entity unless two sessions created it at once, a row of the*)
(* registry is one entity in the end unless two bootstraps overlapped, the *)
(* names of a merged entity find the survivor, and a relation is between   *)
(* two live entities unless its session overlapped a merge.                *)
THEOREM EntitiesAreSound == ASSUME EntityAssumption PROVE EntitySpec => []NamesSound
<1>1. NamesIInv => NamesSound
  <2> SUFFICES ASSUME NamesIInv PROVE NamesSound
    OBVIOUS
  <2>1. NamesUnique
    <3> SUFFICES ASSUME NEW n \in {c.span : c \in Candidates \cup Registry}
                              \ (createdTwice \cup ListedTwice)
                 PROVE  Cardinality({e \in Used : /\ Live(e) /\ owner[e] = Nobody
                                                  /\ n \in entity[e].aliases}) <= 1
      BY DEF NamesUnique
    <3> DEFINE named == {e \in Used : Live(e) /\ owner[e] = Nobody /\ n \in entity[e].aliases}
    <3>1. \A e, f \in named : e = f
      BY DEF NamesIInv, NameOnce, Used
    <3>2. named = {} \/ \E e : named = {e}
      <4> HIDE DEF named
      <4> QED BY <3>1
    <3>3. Cardinality(named) \in {0, 1}
      <4> HIDE DEF named
      <4> QED BY <3>2, FS_EmptySet, FS_Singleton
    <3> QED BY <3>3
  <2>2. PICK R \in [Ids -> Ids] :
          /\ Ends(R, Into) /\ \A Q : Ends(Q, Into) => Q = R
          /\ \A e \in Ids : Live(R[e]) /\ entity[e].aliases \subseteq entity[R[e]].aliases
          /\ \A r \in Registry : r.span \notin createdTwice =>
                \A e, f \in Ids : entity[e].xid = r.xid /\ entity[f].xid = r.xid => R[e] = R[f]
    BY DEF NamesIInv, ChainsEnd
  <2>3. \A e \in Ids : Root[e] = R[e]
    BY <2>2, RootEnds
  <2>4. MergesStick
    BY <2>2, <2>3 DEF MergesStick, Used
  <2>5. RowsOnce
    BY <2>2, <2>3 DEF RowsOnce, Used
  <2> QED BY <2>1, <2>4, <2>5 DEF NamesIInv, NamesSound
<1>2. EntityInit => NamesIInv
  BY EntityInitHolds
<1>3. NamesIInv /\ [EntityNext]_entityVars => NamesIInv'
  BY EntityStepHolds
<1> QED BY <1>1, <1>2, <1>3, PTL DEF EntitySpec

-----------------------------------------------------------------------------
(***************************************************************************)
(* SourceClient: tokens, retries and the cache, for any number of requests *)
(* and any rate, burst, back-offs and life of a response.  The bucket      *)
(* accounts for what was granted: tokens granted since s and those in the  *)
(* bucket together are at most a burst and what was gained since s.        *)
(***************************************************************************)

Slack == IF kind = "redis" THEN Unit ELSE 0
GrantedIn(s, t) == SumFunctionOnSet(granted, s..t)

(* What an EXEC or a lock's holder finds at time a in an unchanged bucket. *)
TokensAt(a) == IF bucket.tokens + (a - bucket.last) > Full THEN Full
               ELSE bucket.tokens + (a - bucket.last)

ClockInv ==
    /\ bucket.last <= now
    /\ \A q \in Requests : req[q].looked <= now
    /\ \A u \in 0..MaxTime : u > now => granted[u] = 0

TokensAccounted ==
    \A s \in 0..now :
        /\ s <= bucket.last =>
             Unit * GrantedIn(s, now) + bucket.tokens <= Full + (bucket.last - s) + Slack
        /\ s > bucket.last => Unit * GrantedIn(s, now) <= Slack

(* While nobody has written, what was read in a watched window holds, and  *)
(* nothing has been granted since.                                         *)
WindowInv ==
    \A q \in Requests : req[q].pc = "watched" =>
        /\ kind = "redis"
        /\ req[q].valid =>
             /\ bucket.last <= req[q].at /\ req[q].at <= now
             /\ req[q].tokens = TokensAt(req[q].at) /\ req[q].tokens >= Unit
             /\ \A u \in 0..MaxTime : u > req[q].at => granted[u] = 0

(* One request holds the lock, until its token is there.                   *)
HoldingInv ==
    /\ \A q \in Requests : req[q].pc = "holding" =>
          kind = "local" /\ req[q].until = bucket.last + Unit - bucket.tokens
    /\ \A p, q \in Requests : req[p].pc = "holding" /\ req[q].pc = "holding" => p = q

CacheInv ==
    \A q \in Requests :
        req[q].pc \notin {"new", "done", "failed"} /\ cachedAt # Never => req[q].looked <= cachedAt

ClientIInv ==
    /\ SourceTypeOK /\ ClockInv /\ TokensAccounted /\ RateBound
    /\ WindowInv /\ HoldingInv /\ CacheInv

LEMMA SourceInitHolds == ASSUME SourceAssumption PROVE SourceInit => ClientIInv
<1> SUFFICES ASSUME SourceInit PROVE ClientIInv
  OBVIOUS
<1> USE SourceAssumption DEF SourceAssumption
<1>1. Full \in Nat /\ Unit * 0 = 0
  BY DEF Full
<1>2. SourceTypeOK
  BY <1>1 DEF SourceInit, SourceTypeOK, NewRequest, RequestPC, Never
<1>3. ClockInv /\ WindowInv /\ HoldingInv /\ CacheInv
  BY DEF SourceInit, ClockInv, WindowInv, HoldingInv, CacheInv, NewRequest
<1>4. Slack \in Nat
  BY DEF Slack
<1>5. GrantedIn(0, 0) = 0
  <2>1. 0..0 = {0} /\ IsFiniteSet({0})
    BY FS_Singleton
  <2>2. \A u \in 0..0 : granted[u] = 0
    BY DEF SourceInit
  <2> QED BY <2>1, <2>2, SumZero DEF GrantedIn
<1>6. TokensAccounted
  BY <1>1, <1>4, <1>5 DEF SourceInit, TokensAccounted
<1>7. RateBound
  BY <1>1, <1>4, <1>5 DEF SourceInit, RateBound, GrantedIn, Slack
<1> QED BY <1>2, <1>3, <1>6, <1>7 DEF ClientIInv

(* Sums of what was granted are numbers.                                   *)
LEMMA GrantedType ==
  ASSUME SourceTypeOK, SourceAssumption, NEW s \in 0..now, NEW t \in 0..now
  PROVE  GrantedIn(s, t) \in Nat
<1>1. s \in Int /\ t \in Int /\ \A u \in s..t : u \in 0..MaxTime
  BY DEF SourceTypeOK, SourceAssumption
<1>2. IsFiniteSet(s..t)
  BY <1>1, FS_Interval
<1>3. \A u \in s..t : granted[u] \in Nat
  BY <1>1 DEF SourceTypeOK
<1> QED BY <1>2, <1>3, SumType DEF GrantedIn

(* The bucket refilled at a later time is accounted for just as well.      *)
LEMMA RefilledAccounted ==
  ASSUME ClientIInv, SourceAssumption, NEW a \in bucket.last..now, NEW s \in 0..a
  PROVE  /\ TokensAt(a) \in 0..Full
         /\ Unit * GrantedIn(s, now) + TokensAt(a) <= Full + (a - s) + Slack
<1> USE SourceAssumption DEF SourceAssumption
<1>1. /\ now \in Nat /\ bucket.last \in Nat /\ bucket.last <= now /\ Full \in Nat
      /\ bucket.tokens \in Nat /\ bucket.tokens <= Full
  BY DEF ClientIInv, SourceTypeOK, ClockInv, Full
<1>2. s \in 0..now /\ a \in Nat /\ a >= bucket.last /\ s <= a /\ s \in Nat
  BY <1>1
<1>3. GrantedIn(s, now) \in Nat
  BY <1>1, <1>2, GrantedType DEF ClientIInv
<1> DEFINE spent == Unit * GrantedIn(s, now)
<1>4. spent \in Nat /\ Slack \in Nat
  BY <1>3 DEF Slack
<1>5. /\ s <= bucket.last => spent + bucket.tokens <= Full + (bucket.last - s) + Slack
      /\ s > bucket.last => spent <= Slack
  BY <1>2 DEF ClientIInv, TokensAccounted
<1>6. /\ TokensAt(a) \in 0..Full
      /\ TokensAt(a) <= bucket.tokens + (a - bucket.last)
  BY <1>1, <1>2 DEF TokensAt
<1> HIDE DEF spent
<1>7. spent + TokensAt(a) <= Full + (a - s) + Slack
  BY <1>1, <1>2, <1>4, <1>5, <1>6
<1> QED BY <1>6, <1>7 DEF spent

(* What the bucket accounts for is within the rate.                        *)
LEMMA AccountedBound ==
  ASSUME SourceTypeOK, SourceAssumption, bucket.last <= now, TokensAccounted, NEW s \in 0..now
  PROVE  Unit * GrantedIn(s, now) <= Full + (now - s) + Slack
<1> USE SourceAssumption DEF SourceAssumption
<1>1. /\ now \in Nat /\ bucket.last \in Nat /\ Full \in Nat /\ s \in Nat /\ s <= now
      /\ bucket.tokens \in Nat /\ Slack \in Nat
  BY DEF SourceTypeOK, Full, Slack
<1>2. GrantedIn(s, now) \in Nat
  BY <1>1, GrantedType
<1> DEFINE spent == Unit * GrantedIn(s, now)
<1>3. spent \in Nat
  BY <1>2
<1>4. /\ s <= bucket.last => spent + bucket.tokens <= Full + (bucket.last - s) + Slack
      /\ s > bucket.last => spent <= Slack
  BY DEF TokensAccounted
<1> HIDE DEF spent
<1>5. spent <= Full + (now - s) + Slack
  BY <1>1, <1>3, <1>4
<1> QED BY <1>5 DEF spent

(* One token granted now, out of the bucket as it was found at time a: the *)
(* bucket still accounts for it, with the slack if now is later than a.    *)
LEMMA TokenSpent ==
  ASSUME ClientIInv, SourceAssumption, NEW a \in bucket.last..now,
         TokensAt(a) >= Unit, \A u \in 0..MaxTime : u > a => granted[u] = 0,
         a = now \/ kind = "redis",
         bucket' = [tokens |-> TokensAt(a) - Unit, last |-> a],
         Grant, UNCHANGED <<now, kind>>
  PROVE  /\ bucket' \in [tokens : 0..Full, last : 0..MaxTime] /\ bucket'.last <= now
         /\ granted' \in [0..MaxTime -> Nat]
         /\ \A u \in 0..MaxTime : u > now => granted'[u] = 0
         /\ TokensAccounted' /\ RateBound'
<1> USE SourceAssumption DEF SourceAssumption
<1>1. /\ now \in 0..MaxTime /\ bucket.last \in Nat /\ Full \in Nat /\ Slack \in Nat
      /\ a \in Nat /\ a >= bucket.last /\ a <= now
      /\ granted \in [0..MaxTime -> Nat]
  BY DEF ClientIInv, SourceTypeOK, Full, Slack
<1>2. /\ granted' = [granted EXCEPT ![now] = granted[now] + 1]
      /\ granted' \in [0..MaxTime -> Nat]
      /\ granted'[now] = granted[now] + 1
      /\ \A u \in 0..MaxTime : u # now => granted'[u] = granted[u]
  BY <1>1 DEF Grant
<1>3. \A u \in 0..MaxTime : u > now => granted'[u] = 0
  BY <1>1, <1>2 DEF ClientIInv, ClockInv
<1>4. TokensAt(a) \in 0..Full
  <2>1. a \in 0..a
    BY <1>1
  <2> QED BY <2>1, RefilledAccounted
<1>5. bucket' \in [tokens : 0..Full, last : 0..MaxTime] /\ bucket'.last <= now
  BY <1>1, <1>4
<1> DEFINE Sum(s) == SumFunctionOnSet(granted, s..now)
           Sum2(s) == SumFunctionOnSet(granted', s..now)
<1>6. ASSUME NEW s \in 0..now PROVE Sum(s) \in Nat /\ Sum2(s) = Sum(s) + 1
  <2>1. Sum(s) \in Nat
    <3>1. now \in 0..now
      BY <1>1
    <3> QED BY <3>1, GrantedType DEF GrantedIn, ClientIInv
  <2>2. /\ IsFiniteSet(s..now) /\ now \in s..now
        /\ \A u \in s..now : u \in 0..MaxTime
    <3>1. s \in Int /\ now \in Int /\ s <= now
      BY <1>1
    <3>2. now \in s..now /\ \A u \in s..now : u \in 0..MaxTime
      BY <1>1, <3>1
    <3>3. IsFiniteSet(s..now)
      BY <3>1, FS_Interval
    <3> QED BY <3>2, <3>3
  <2>3. /\ \A u \in s..now : granted[u] \in Int /\ granted'[u] \in Int
        /\ \A u \in (s..now) \ {now} : granted[u] = granted'[u]
    BY <1>1, <1>2, <2>2
  <2>4. Sum2(s) = Sum(s) - granted[now] + granted'[now]
    BY <2>2, <2>3, SumChanged
  <2>5. granted[now] \in Nat /\ granted'[now] = granted[now] + 1
    BY <1>1, <1>2
  <2> HIDE DEF Sum, Sum2
  <2> QED BY <2>1, <2>4, <2>5
<1>7. ASSUME NEW s \in 0..now PROVE Unit * Sum2(s) = Unit * Sum(s) + Unit /\ Unit * Sum(s) \in Nat
  <2> HIDE DEF Sum, Sum2
  <2>1. \A x \in Nat : Unit * (x + 1) = Unit * x + Unit /\ Unit * x \in Nat
    OBVIOUS
  <2> QED BY <1>6, <2>1
<1>8. Slack' = Slack
  BY DEF Slack
<1>9. TokensAccounted'
  <2> SUFFICES ASSUME NEW s \in 0..now
               PROVE  /\ s <= a => Unit * Sum2(s) + (TokensAt(a) - Unit) <= Full + (a - s) + Slack
                      /\ s > a => Unit * Sum2(s) <= Slack
    BY <1>8 DEF TokensAccounted, GrantedIn
  <2>1. CASE s <= a
    <3>1. s \in 0..a
      BY <1>1, <2>1
    <3>2. Unit * Sum(s) + TokensAt(a) <= Full + (a - s) + Slack
      BY <3>1, RefilledAccounted DEF GrantedIn
    <3> DEFINE spent == Unit * Sum(s)
               all == Unit * Sum2(s)
    <3>3. all = spent + Unit /\ spent \in Nat /\ s \in Nat
      BY <1>7
    <3> HIDE DEF spent, all
    <3>4. all + (TokensAt(a) - Unit) <= Full + (a - s) + Slack
      <4>1. spent + TokensAt(a) <= Full + (a - s) + Slack
        BY <3>2 DEF spent
      <4> HIDE DEF Sum, Sum2
      <4> QED BY <1>1, <1>4, <3>3, <4>1
    <3> QED BY <1>1, <2>1, <3>4 DEF all
  <2>2. CASE s > a
    <3>1. Slack = Unit
      BY <1>1, <2>2 DEF Slack
    <3>2. IsFiniteSet(s..now) /\ \A u \in s..now : granted[u] = 0
      <4>1. s \in Int /\ now \in Int /\ \A u \in s..now : u \in 0..MaxTime /\ u > a
        BY <1>1, <2>2
      <4>2. IsFiniteSet(s..now)
        BY <4>1, FS_Interval
      <4> QED BY <4>1, <4>2
    <3>3. Sum(s) = 0
      BY <3>2, SumZero
    <3>4. Unit * Sum2(s) = Unit
      <4> HIDE DEF Sum, Sum2
      <4>1. Sum2(s) = 1
        BY <1>6, <3>3
      <4> QED BY <4>1
    <3> HIDE DEF Sum, Sum2
    <3> QED BY <1>1, <2>2, <3>1, <3>4
  <2> QED BY <1>1, <2>1, <2>2
<1>10. RateBound'
  <2> SUFFICES ASSUME NEW s \in 0..now, NEW t \in 0..now, s <= t
               PROVE  Unit * SumFunctionOnSet(granted', s..t) <= Full + (t - s) + Slack
    BY <1>8 DEF RateBound, Slack
  <2>1. CASE t = now
    <3> DEFINE all == Unit * Sum2(s)
    <3>1. all \in Nat
      BY <1>1, <1>7
    <3>2. /\ s <= a => all + (TokensAt(a) - Unit) <= Full + (a - s) + Slack
          /\ s > a => all <= Slack
      BY <1>8, <1>9 DEF TokensAccounted, GrantedIn
    <3> HIDE DEF all
    <3>3. all <= Full + (now - s) + Slack
      BY <1>1, <1>4, <3>1, <3>2
    <3> QED BY <2>1, <3>3 DEF all
  <2>2. CASE t # now
    <3>1. /\ s \in Int /\ t \in Int
          /\ \A u \in s..t : u \in 0..MaxTime /\ u # now
      BY <1>1, <2>2
    <3>2. IsFiniteSet(s..t) /\ \A u \in s..t : granted[u] = granted'[u]
      BY <1>2, <3>1, FS_Interval
    <3>3. SumFunctionOnSet(granted, s..t) = SumFunctionOnSet(granted', s..t)
      BY <3>2, SumSame, Zenon
    <3> QED BY <3>3 DEF ClientIInv, RateBound, Slack
  <2> QED BY <2>1, <2>2
<1> QED BY <1>2, <1>3, <1>5, <1>9, <1>10

RequestState ==
    [pc: RequestPC, tries: 0..MaxRetries, until: Nat, at: 0..MaxTime, tokens: 0..Full,
     valid: BOOLEAN, looked: 0..MaxTime]

(* A request goes on without touching the bucket and without opening a     *)
(* window or taking the lock.                                              *)
LEMMA RequestMoves ==
  ASSUME ClientIInv, SourceAssumption, NEW q \in Requests, NEW r \in RequestState,
         Becomes(q, r), r.pc \notin {"watched", "holding"}, r.looked <= now,
         cachedAt' \in {cachedAt, now, Never},
         \/ r.pc \in {"done", "failed"}
         \/ cachedAt' = Never
         \/ cachedAt' = cachedAt /\ r.looked = req[q].looked
            /\ req[q].pc \notin {"new", "done", "failed"},
         UNCHANGED <<now, kind, bucket, granted>>
  PROVE  ClientIInv'
<1>1. /\ req \in [Requests -> RequestState] /\ now \in 0..MaxTime
      /\ cachedAt \in 0..MaxTime \cup {Never}
  BY DEF ClientIInv, SourceTypeOK, RequestState
<1>2. /\ req' \in [Requests -> RequestState] /\ req'[q] = r
      /\ \A p \in Requests : p # q => req'[p] = req[p]
  BY <1>1 DEF Becomes
<1>3. SourceTypeOK'
  BY <1>1, <1>2 DEF ClientIInv, SourceTypeOK, RequestState, Never
<1>4. ClockInv'
  BY <1>2 DEF ClientIInv, ClockInv
<1>5. TokensAccounted' /\ RateBound'
  BY DEF ClientIInv, TokensAccounted, RateBound, GrantedIn, Slack
<1>6. WindowInv'
  BY <1>2 DEF ClientIInv, WindowInv, TokensAt
<1>7. HoldingInv'
  BY <1>2 DEF ClientIInv, HoldingInv
<1>8. CacheInv'
  <2> SUFFICES ASSUME NEW p \in Requests, req'[p].pc \notin {"new", "done", "failed"},
                      cachedAt' # Never
               PROVE  req'[p].looked <= cachedAt'
    BY DEF CacheInv
  <2>1. CASE p = q
    BY <1>2, <2>1 DEF ClientIInv, CacheInv
  <2>2. CASE p # q
    <3>1. req'[p] = req[p] /\ req[p].looked <= now
      BY <1>2, <2>2 DEF ClientIInv, ClockInv
    <3> QED BY <3>1 DEF ClientIInv, CacheInv
  <2> QED BY <2>1, <2>2
<1> QED BY <1>3, <1>4, <1>5, <1>6, <1>7, <1>8 DEF ClientIInv

LEMMA FreshRequest ==
  ASSUME SourceAssumption PROVE NewRequest \in RequestState /\ NewRequest.looked = 0
<1>1. 0 \in 0..MaxTime /\ 0 \in 0..Full /\ 0 \in 0..MaxRetries
  BY DEF SourceAssumption, Full
<1> QED BY <1>1 DEF NewRequest, RequestState, RequestPC

(* A request that At leaves at pc.                                         *)
LEMMA AtFields ==
  ASSUME ClientIInv, SourceAssumption, NEW q \in Requests, NEW p \in RequestPC
  PROVE  /\ At(q, p) \in RequestState
         /\ At(q, p).pc = p /\ At(q, p).looked = req[q].looked
         /\ At(q, p).tries = req[q].tries
         /\ req[q].looked <= now /\ req[q] \in RequestState
         /\ now \in 0..MaxTime
<1> USE SourceAssumption DEF SourceAssumption
<1>1. /\ req[q] \in RequestState /\ req[q].looked <= now /\ Full \in Nat
      /\ now \in 0..MaxTime
  BY DEF ClientIInv, ClockInv, SourceTypeOK, RequestState, Full
<1>2. At(q, p) = [[[NewRequest EXCEPT !.pc = p] EXCEPT !.tries = req[q].tries]
                      EXCEPT !.looked = req[q].looked]
  BY DEF At
<1>3. req[q].tries \in 0..MaxRetries /\ req[q].looked \in 0..MaxTime
  BY <1>1 DEF RequestState
<1>4. NewRequest \in RequestState
  BY FreshRequest
<1> HIDE DEF NewRequest
<1> QED BY <1>1, <1>2, <1>3, <1>4 DEF RequestState

LEMMA FinishedFields ==
  ASSUME SourceAssumption, NEW p \in {"done", "failed"}
  PROVE  /\ [NewRequest EXCEPT !.pc = p] \in RequestState
         /\ [NewRequest EXCEPT !.pc = p].pc = p
         /\ [NewRequest EXCEPT !.pc = p].looked = 0
<1>1. NewRequest \in RequestState /\ NewRequest.looked = 0
  BY FreshRequest
<1> QED BY <1>1 DEF RequestState, RequestPC

LEMMA LookUpKeeps ==
  ASSUME ClientIInv, SourceAssumption, NEW q \in Requests, LookUp(q)
  PROVE  ClientIInv'
<1>1. req[q] \in RequestState /\ now \in 0..MaxTime /\ 0 <= now
  BY DEF ClientIInv, SourceTypeOK, RequestState, SourceAssumption
<1>2. CASE cachedAt # Never /\ now - cachedAt <= Ttl
  <2>1. Becomes(q, [NewRequest EXCEPT !.pc = "done"]) /\ cachedAt' = cachedAt
    BY <1>2 DEF LookUp
  <2> QED BY <1>1, <2>1, FinishedFields, RequestMoves DEF LookUp
<1>3. CASE ~(cachedAt # Never /\ now - cachedAt <= Ttl)
  <2> DEFINE r == [req[q] EXCEPT !.pc = "acquire", !.looked = now]
  <2>1. r \in RequestState /\ r.pc = "acquire" /\ r.looked = now
    BY <1>1 DEF RequestState, RequestPC
  <2>2. Becomes(q, r) /\ cachedAt' = Never /\ UNCHANGED <<now, kind, bucket, granted>>
    BY <1>3 DEF LookUp
  <2> HIDE DEF r
  <2> QED BY <1>1, <2>1, <2>2, RequestMoves
<1> QED BY <1>2, <1>3

LEMMA AttemptKeeps ==
  ASSUME ClientIInv, SourceAssumption, NEW q \in Requests,
         Succeed(q) \/ Retry(q) \/ GiveUp(q) \/ BackoffOver(q)
  PROVE  ClientIInv'
<1>1. 0 <= now
  BY DEF ClientIInv, SourceTypeOK, SourceAssumption
<1>2. CASE Succeed(q)
  BY <1>1, <1>2, FinishedFields, RequestMoves DEF Succeed
<1>3. CASE GiveUp(q)
  BY <1>1, <1>3, FinishedFields, RequestMoves DEF GiveUp
<1>4. CASE BackoffOver(q)
  <2>1. "acquire" \in RequestPC
    BY DEF RequestPC
  <2> QED BY <1>4, <2>1, AtFields, RequestMoves DEF BackoffOver
<1>5. CASE Retry(q)
  <2>1. PICK d \in Backoffs :
          Becomes(q, [At(q, "backoff") EXCEPT !.tries = @ + 1, !.until = now + d])
    BY <1>5 DEF Retry
  <2> DEFINE b == At(q, "backoff")
             r == [b EXCEPT !.tries = @ + 1, !.until = now + d]
  <2>2. /\ b \in RequestState /\ b.pc = "backoff" /\ b.looked = req[q].looked
        /\ b.tries = req[q].tries /\ req[q].looked <= now /\ now \in 0..MaxTime
        /\ req[q] \in RequestState
    <3>1. "backoff" \in RequestPC
      BY DEF RequestPC
    <3> QED BY <3>1, AtFields
  <2> HIDE DEF b
  <2>3. /\ r \in RequestState /\ r.pc = "backoff" /\ r.looked = req[q].looked
    <3>1. req[q].tries + 1 \in 0..MaxRetries
      <4>1. req[q].tries \in 0..MaxRetries /\ MaxRetries \in Nat
        BY <2>2 DEF RequestState, SourceAssumption
      <4>2. req[q].tries < MaxRetries
        BY <1>5 DEF Retry
      <4> QED BY <4>1, <4>2
    <3>2. now + d \in Nat
      <4>1. d \in Nat /\ now \in Nat
        BY <2>2 DEF SourceAssumption
      <4> QED BY <4>1
    <3> QED BY <2>2, <3>1, <3>2 DEF RequestState
  <2>4. Becomes(q, r)
    BY <2>1 DEF b
  <2> HIDE DEF r
  <2> QED BY <1>5, <2>2, <2>3, <2>4, RequestMoves DEF Retry
<1> QED BY <1>2, <1>3, <1>4, <1>5

(* The bucket and the clock, typed, and the tokens there are now.          *)
LEMMA BucketFields ==
  ASSUME ClientIInv, SourceAssumption
  PROVE  /\ now \in 0..MaxTime /\ now \in Nat /\ bucket.last \in Nat /\ bucket.last <= now
         /\ bucket.tokens \in 0..Full /\ Full \in Nat /\ Unit \in Nat /\ 0 < Unit /\ Unit <= Full
         /\ now \in bucket.last..now
         /\ Refilled = TokensAt(now) /\ Refilled \in 0..Full
<1>1. /\ now \in 0..MaxTime /\ bucket.last \in Nat /\ bucket.last <= now
      /\ bucket.tokens \in 0..Full
  BY DEF ClientIInv, ClockInv, SourceTypeOK, SourceAssumption
<1>2. Full \in Nat /\ Unit \in Nat /\ 0 < Unit /\ Unit <= Full
  <2>1. Burst \in Nat /\ Burst >= 1 /\ Unit \in Nat /\ Unit >= 1
    BY DEF SourceAssumption
  <2>2. Burst * Unit = (Burst - 1) * Unit + Unit
    BY <2>1
  <2>3. (Burst - 1) * Unit \in Nat
    <3>1. Burst - 1 \in Nat
      BY <2>1
    <3> QED BY <2>1, <3>1
  <2> QED BY <2>1, <2>2, <2>3 DEF Full
<1>3. Refilled = TokensAt(now)
  BY DEF Refilled, TokensAt
<1>4. Refilled \in 0..Full
  BY <1>1, <1>2 DEF Refilled
<1> QED BY <1>1, <1>2, <1>3, <1>4

LEMMA WatchKeeps ==
  ASSUME ClientIInv, SourceAssumption, NEW q \in Requests, Watch(q)
  PROVE  ClientIInv'
<1>1. /\ "watched" \in RequestPC /\ "asleep" \in RequestPC
  BY DEF RequestPC
<1>2. CASE Refilled < Unit
  <2> DEFINE b == At(q, "asleep")
             r == [b EXCEPT !.until = now + Unit - Refilled]
  <2>1. /\ b \in RequestState /\ b.pc = "asleep" /\ b.looked = req[q].looked
        /\ req[q].looked <= now
    BY <1>1, AtFields
  <2>2. now + Unit - Refilled \in Nat
    BY <1>2, BucketFields
  <2>3. Becomes(q, r) /\ UNCHANGED <<now, kind, bucket, granted, cachedAt>>
    BY <1>2, BucketFields DEF Watch
  <2>4. req[q].pc \in {"acquire", "asleep"}
    BY DEF Watch
  <2> HIDE DEF b
  <2>5. r \in RequestState /\ r.pc = "asleep" /\ r.looked = req[q].looked
    BY <2>1, <2>2 DEF RequestState
  <2> HIDE DEF r
  <2> QED BY <2>1, <2>3, <2>4, <2>5, RequestMoves
<1>3. CASE Refilled >= Unit
  <2> DEFINE b == At(q, "watched")
             r == [b EXCEPT !.at = now, !.tokens = Refilled, !.valid = TRUE]
  <2>1. /\ b \in RequestState /\ b.looked = req[q].looked /\ b.pc = "watched"
        /\ req[q].looked <= now /\ now \in 0..MaxTime
    BY <1>1, AtFields
  <2>2. Becomes(q, r) /\ UNCHANGED <<now, kind, bucket, granted, cachedAt>>
    BY <1>3 DEF Watch
  <2>3. req[q].pc \in {"acquire", "asleep"} /\ kind = "redis"
    BY DEF Watch
  <2> HIDE DEF b
  <2>4. /\ r \in RequestState /\ r.pc = "watched" /\ r.looked = req[q].looked
        /\ r.at = now /\ r.tokens = Refilled
    <3>1. Refilled \in 0..Full
      BY BucketFields
    <3> QED BY <2>1, <3>1 DEF RequestState
  <2> HIDE DEF r
  <2>5. req \in [Requests -> RequestState]
    BY DEF ClientIInv, SourceTypeOK, RequestState
  <2>6. /\ req' \in [Requests -> RequestState] /\ req'[q] = r
        /\ \A p \in Requests : p # q => req'[p] = req[p]
    BY <2>2, <2>4, <2>5 DEF Becomes
  <2>7. SourceTypeOK'
    BY <2>2, <2>6 DEF ClientIInv, SourceTypeOK, RequestState
  <2>8. ClockInv'
    BY <2>1, <2>2, <2>4, <2>6 DEF ClientIInv, ClockInv
  <2>9. TokensAccounted' /\ RateBound'
    BY <2>2 DEF ClientIInv, TokensAccounted, RateBound, GrantedIn, Slack
  <2>10. WindowInv'
    <3> SUFFICES ASSUME NEW p \in Requests, req'[p].pc = "watched"
                 PROVE  /\ kind = "redis"
                        /\ req'[p].valid =>
                             /\ bucket.last <= req'[p].at /\ req'[p].at <= now
                             /\ req'[p].tokens = TokensAt(req'[p].at) /\ req'[p].tokens >= Unit
                             /\ \A u \in 0..MaxTime : u > req'[p].at => granted[u] = 0
      BY <2>2 DEF WindowInv, TokensAt
    <3>1. CASE p # q
      BY <2>6, <3>1 DEF ClientIInv, WindowInv
    <3>2. CASE p = q
      <4>1. \A u \in 0..MaxTime : u > now => granted[u] = 0
        BY DEF ClientIInv, ClockInv
      <4> QED BY <1>3, <2>3, <2>4, <2>6, <3>2, <4>1, BucketFields
    <3> QED BY <3>1, <3>2
  <2>11. HoldingInv'
    BY <2>2, <2>4, <2>6 DEF ClientIInv, HoldingInv
  <2>12. CacheInv'
    BY <2>2, <2>3, <2>4, <2>6 DEF ClientIInv, CacheInv
  <2> QED BY <2>7, <2>8, <2>9, <2>10, <2>11, <2>12 DEF ClientIInv
<1> QED BY <1>2, <1>3, BucketFields

(* A request that got its token at time a, while no other holds the lock   *)
(* and none has a window that is still good.                               *)
LEMMA TokenTaken ==
  ASSUME ClientIInv, SourceAssumption, NEW q \in Requests, NEW a \in bucket.last..now,
         TokensAt(a) >= Unit, \A u \in 0..MaxTime : u > a => granted[u] = 0,
         a = now \/ kind = "redis",
         bucket' = [tokens |-> TokensAt(a) - Unit, last |-> a],
         Grant, UNCHANGED <<now, kind, cachedAt>>,
         req[q].pc \notin {"new", "done", "failed"},
         req' \in [Requests -> RequestState], req'[q] = At(q, "sent"),
         \A p \in Requests \ {q} :
            /\ req'[p].pc = req[p].pc /\ req'[p].looked = req[p].looked
            /\ req[p].pc = "watched" => ~req'[p].valid
            /\ req[p].pc # "holding"
  PROVE  ClientIInv'
<1>1. /\ bucket' \in [tokens : 0..Full, last : 0..MaxTime] /\ bucket'.last <= now
      /\ granted' \in [0..MaxTime -> Nat]
      /\ \A u \in 0..MaxTime : u > now => granted'[u] = 0
      /\ TokensAccounted' /\ RateBound'
  BY TokenSpent
<1>2. /\ req'[q].pc = "sent" /\ req'[q].looked = req[q].looked
  <2>1. "sent" \in RequestPC
    BY DEF RequestPC
  <2> QED BY <2>1, AtFields
<1>3. SourceTypeOK'
  BY <1>1 DEF ClientIInv, SourceTypeOK, RequestState
<1>4. \A p \in Requests : req'[p].looked = req[p].looked
  BY <1>2
<1>5. ClockInv'
  BY <1>1, <1>4 DEF ClientIInv, ClockInv
<1>6. WindowInv'
  <2> SUFFICES ASSUME NEW p \in Requests, req'[p].pc = "watched"
               PROVE  kind = "redis" /\ ~req'[p].valid
    BY DEF WindowInv
  <2> QED BY <1>2 DEF ClientIInv, WindowInv
<1>7. HoldingInv'
  BY <1>2 DEF HoldingInv
<1>8. CacheInv'
  BY <1>2, <1>4 DEF ClientIInv, CacheInv
<1> QED BY <1>1, <1>3, <1>5, <1>6, <1>7, <1>8 DEF ClientIInv

LEMMA ExecKeeps ==
  ASSUME ClientIInv, SourceAssumption, NEW q \in Requests, Exec(q)
  PROVE  ClientIInv'
<1>1. /\ "sent" \in RequestPC /\ "acquire" \in RequestPC
  BY DEF RequestPC
<1>2. /\ req \in [Requests -> RequestState]
  BY DEF ClientIInv, SourceTypeOK, RequestState
<1>3. CASE ~req[q].valid
  <2>1. Becomes(q, At(q, "acquire")) /\ UNCHANGED <<now, kind, bucket, granted, cachedAt>>
    BY <1>3 DEF Exec
  <2>2. req[q].pc = "watched"
    BY DEF Exec
  <2> QED BY <1>1, <2>1, <2>2, AtFields, RequestMoves
<1>4. CASE req[q].valid
  <2> DEFINE a == req[q].at
  <2>1. /\ req[q].pc = "watched" /\ kind = "redis"
        /\ bucket.last <= a /\ a <= now
        /\ req[q].tokens = TokensAt(a) /\ TokensAt(a) >= Unit
        /\ \A u \in 0..MaxTime : u > a => granted[u] = 0
    BY <1>4 DEF ClientIInv, WindowInv, Exec
  <2>2. a \in bucket.last..now
    <3>1. a \in 0..MaxTime
      BY <1>2 DEF RequestState
    <3> QED BY <2>1, <3>1, BucketFields DEF SourceAssumption
  <2>3. /\ bucket' = [tokens |-> TokensAt(a) - Unit, last |-> a]
        /\ req' = [p \in Requests |-> IF p = q THEN At(q, "sent")
                                      ELSE [req[p] EXCEPT !.valid = FALSE]]
        /\ Grant /\ UNCHANGED <<now, kind, cachedAt>>
    BY <1>4, <2>1 DEF Exec
  <2> HIDE DEF a
  <2>4. req' \in [Requests -> RequestState] /\ req'[q] = At(q, "sent")
    <3>1. At(q, "sent") \in RequestState
      BY <1>1, AtFields
    <3>2. \A p \in Requests : [req[p] EXCEPT !.valid = FALSE] \in RequestState
      BY <1>2 DEF RequestState
    <3> QED BY <2>3, <3>1, <3>2
  <2>5. ASSUME NEW p \in Requests \ {q}
        PROVE  /\ req'[p].pc = req[p].pc /\ req'[p].looked = req[p].looked
               /\ ~req'[p].valid /\ req[p].pc # "holding"
    <3>1. req'[p] = [req[p] EXCEPT !.valid = FALSE] /\ req[p] \in RequestState
      BY <1>2, <2>3
    <3>2. req[p].pc # "holding"
      BY <2>1 DEF ClientIInv, HoldingInv
    <3> QED BY <3>1, <3>2 DEF RequestState
  <2> QED BY <2>1, <2>2, <2>3, <2>4, <2>5, TokenTaken
<1> QED BY <1>3, <1>4

(* The lock's holder gets a token at this moment.                          *)
LEMMA LocalTokenTaken ==
  ASSUME ClientIInv, SourceAssumption, NEW q \in Requests, kind = "local",
         req[q].pc \in {"acquire", "holding"},
         \A p \in Requests \ {q} : req[p].pc # "holding",
         Refilled >= Unit, bucket' = [tokens |-> Refilled - Unit, last |-> now],
         Becomes(q, At(q, "sent")), Grant, UNCHANGED <<now, kind, cachedAt>>
  PROVE  ClientIInv'
<1>1. /\ now \in bucket.last..now /\ TokensAt(now) >= Unit
      /\ bucket' = [tokens |-> TokensAt(now) - Unit, last |-> now]
  BY BucketFields
<1>2. \A u \in 0..MaxTime : u > now => granted[u] = 0
  BY DEF ClientIInv, ClockInv
<1>3. /\ req' \in [Requests -> RequestState] /\ req'[q] = At(q, "sent")
      /\ \A p \in Requests \ {q} : req'[p] = req[p]
  <2>1. req \in [Requests -> RequestState]
    BY DEF ClientIInv, SourceTypeOK, RequestState
  <2>2. At(q, "sent") \in RequestState
    <3>1. "sent" \in RequestPC
      BY DEF RequestPC
    <3> QED BY <3>1, AtFields
  <2> QED BY <2>1, <2>2 DEF Becomes
<1>4. \A p \in Requests : req[p].pc # "watched"
  BY DEF ClientIInv, WindowInv
<1> QED BY <1>1, <1>2, <1>3, <1>4, TokenTaken

LEMMA AcquireKeeps ==
  ASSUME ClientIInv, SourceAssumption, NEW q \in Requests, Acquire(q)
  PROVE  ClientIInv'
<1>1. CASE Refilled >= Unit
  BY <1>1, LocalTokenTaken DEF Acquire, BucketFree
<1>2. CASE Refilled < Unit
  <2> DEFINE b == At(q, "holding")
             r == [b EXCEPT !.until = now + Unit - Refilled]
  <2>1. /\ bucket' = [tokens |-> Refilled, last |-> now] /\ Becomes(q, r)
        /\ UNCHANGED <<now, kind, granted, cachedAt>>
        /\ kind = "local" /\ req[q].pc = "acquire" /\ \A p \in Requests : req[p].pc # "holding"
    BY <1>2, BucketFields DEF Acquire, BucketFree
  <2>2. /\ b \in RequestState /\ b.pc = "holding" /\ b.looked = req[q].looked
    <3>1. "holding" \in RequestPC
      BY DEF RequestPC
    <3> QED BY <3>1, AtFields
  <2> HIDE DEF b
  <2>3. now + Unit - Refilled \in Nat
    BY <1>2, BucketFields
  <2>4. /\ r \in RequestState /\ r.pc = "holding" /\ r.looked = req[q].looked
        /\ r.until = now + Unit - Refilled
    BY <2>2, <2>3 DEF RequestState
  <2> HIDE DEF r
  <2>5. /\ req' \in [Requests -> RequestState] /\ req'[q] = r
        /\ \A p \in Requests : p # q => req'[p] = req[p]
    <3>1. req \in [Requests -> RequestState]
      BY DEF ClientIInv, SourceTypeOK, RequestState
    <3> QED BY <2>1, <2>4, <3>1 DEF Becomes
  <2>6. bucket' \in [tokens : 0..Full, last : 0..MaxTime] /\ bucket'.last = now
        /\ bucket'.tokens = Refilled /\ now <= now
    BY <2>1, BucketFields
  <2>7. SourceTypeOK'
    BY <2>1, <2>5, <2>6 DEF ClientIInv, SourceTypeOK, RequestState
  <2>8. ClockInv'
    BY <2>1, <2>4, <2>5, <2>6 DEF ClientIInv, ClockInv
  <2>9. TokensAccounted'
    <3> SUFFICES ASSUME NEW s \in 0..now
                 PROVE  /\ s <= now
                        /\ Unit * GrantedIn(s, now) + Refilled <= Full + (now - s) + Slack
      BY <2>1, <2>6 DEF TokensAccounted, GrantedIn, Slack
    <3>1. now \in bucket.last..now /\ Refilled = TokensAt(now) /\ s <= now
      BY BucketFields
    <3> QED BY <3>1, RefilledAccounted
  <2>10. RateBound'
    BY <2>1 DEF ClientIInv, RateBound
  <2>11. WindowInv'
    BY <2>1, <2>4, <2>5 DEF ClientIInv, WindowInv
  <2>12. HoldingInv'
    BY <2>1, <2>4, <2>5, <2>6 DEF HoldingInv
  <2>13. CacheInv'
    BY <2>1, <2>4, <2>5 DEF ClientIInv, CacheInv
  <2> QED BY <2>7, <2>8, <2>9, <2>10, <2>11, <2>12, <2>13 DEF ClientIInv
<1> QED BY <1>1, <1>2, BucketFields

LEMMA AcquireSleptKeeps ==
  ASSUME ClientIInv, SourceAssumption, NEW q \in Requests, AcquireSlept(q)
  PROVE  ClientIInv'
<1>1. /\ req[q].pc = "holding" /\ now >= req[q].until
  BY DEF AcquireSlept
<1>2. /\ kind = "local" /\ req[q].until = bucket.last + Unit - bucket.tokens
      /\ \A p \in Requests \ {q} : req[p].pc # "holding"
  BY <1>1 DEF ClientIInv, HoldingInv
<1>3. Refilled >= Unit
  BY <1>1, <1>2, BucketFields DEF Refilled
<1> QED BY <1>1, <1>2, <1>3, LocalTokenTaken DEF AcquireSlept

(* Nothing has been granted yet at the tick that begins.                   *)
LEMMA TickKeeps == ASSUME ClientIInv, SourceAssumption, Tick PROVE ClientIInv'
<1>1. /\ now' = now + 1 /\ now < MaxTime
      /\ UNCHANGED <<kind, bucket, req, granted, cachedAt>>
  BY DEF Tick
<1>2. /\ now \in Nat /\ now + 1 \in 0..MaxTime /\ MaxTime \in Nat /\ bucket.last \in Nat
      /\ bucket.last <= now
  BY <1>1, BucketFields DEF SourceAssumption
<1>3. SourceTypeOK'
  BY <1>1, <1>2 DEF ClientIInv, SourceTypeOK
<1>4. \A q \in Requests : req[q].looked <= now /\ req[q].looked \in Nat
  BY <1>2 DEF ClientIInv, ClockInv, SourceTypeOK
<1>5. \A u \in 0..MaxTime : u > now => granted[u] = 0
  BY DEF ClientIInv, ClockInv
<1>6. ClockInv'
  <2>1. \A q \in Requests : req[q].looked <= now + 1
    BY <1>2, <1>4
  <2>2. \A u \in 0..MaxTime : u > now + 1 => granted[u] = 0
    BY <1>2, <1>5
  <2>3. bucket.last <= now + 1
    BY <1>2
  <2> QED BY <1>1, <2>1, <2>2, <2>3 DEF ClockInv
<1>7. Slack \in Nat /\ Slack' = Slack /\ Full \in Nat
  BY <1>1, BucketFields DEF Slack
<1>8. ASSUME NEW s \in 0..now PROVE GrantedIn(s, now + 1) = GrantedIn(s, now)
  <2>1. s \in Int /\ now \in Int /\ s <= now
    BY <1>2
  <2>2. /\ s..(now + 1) = (s..now) \cup {now + 1} /\ now + 1 \notin s..now
        /\ \A u \in s..now : u \in 0..MaxTime
    BY <1>2, <2>1
  <2>3. IsFiniteSet(s..now)
    BY <2>1, FS_Interval
  <2>4. /\ \A u \in s..now : granted[u] \in Int
        /\ granted[now + 1] = 0
    <3>1. granted \in [0..MaxTime -> Nat]
      BY DEF ClientIInv, SourceTypeOK
    <3>2. now + 1 > now
      BY <1>2
    <3>3. \A u \in s..now : granted[u] \in Nat
      BY <2>2, <3>1
    <3> QED BY <1>2, <1>5, <3>2, <3>3
  <2>5. SumFunctionOnSet(granted, (s..now) \cup {now + 1})
          = SumFunctionOnSet(granted, s..now) + granted[now + 1]
    <3> DEFINE S == s..now
               e == now + 1
    <3>1. IsFiniteSet(S) /\ e \notin S /\ granted[e] \in Int
      BY <2>2, <2>3, <2>4
    <3>2. \A u \in S : granted[u] = granted[u] /\ granted[u] \in Int
      BY <2>4
    <3> HIDE DEF S, e
    <3>3. SumFunctionOnSet(granted, S \cup {e}) = SumFunctionOnSet(granted, S) + granted[e]
      BY <3>1, <3>2, SumAdded
    <3> QED BY <3>3 DEF S, e
  <2>6. GrantedIn(s, now) \in Nat
    <3>1. now \in 0..now
      BY <1>2
    <3> QED BY <3>1, GrantedType DEF ClientIInv
  <2>7. GrantedIn(s, now + 1) = GrantedIn(s, now) + 0
    BY <2>2, <2>4, <2>5 DEF GrantedIn
  <2> QED BY <2>6, <2>7
<1>9. GrantedIn(now + 1, now + 1) = 0
  <2>1. (now + 1)..(now + 1) = {now + 1}
    BY <1>2
  <2>2. granted[now + 1] = 0
    BY <1>2, <1>5
  <2>3. IsFiniteSet({now + 1})
    BY FS_Singleton
  <2> QED BY <2>1, <2>2, <2>3, SumZero DEF GrantedIn
<1>10. TokensAccounted'
  <2> SUFFICES ASSUME NEW s \in 0..(now + 1)
               PROVE  /\ s <= bucket.last =>
                           Unit * GrantedIn(s, now + 1) + bucket.tokens
                             <= Full + (bucket.last - s) + Slack
                      /\ s > bucket.last => Unit * GrantedIn(s, now + 1) <= Slack
    BY <1>1 DEF TokensAccounted, GrantedIn, Slack
  <2>1. CASE s = now + 1
    <3>1. Unit * GrantedIn(s, now + 1) = 0
      BY <1>9, <2>1, BucketFields
    <3> QED BY <1>2, <1>7, <2>1, <3>1
  <2>2. CASE s # now + 1
    <3>1. s \in 0..now
      BY <1>2, <2>2
    <3>2. GrantedIn(s, now + 1) = GrantedIn(s, now)
      BY <1>8, <3>1
    <3> QED BY <3>1, <3>2 DEF ClientIInv, TokensAccounted
  <2> QED BY <2>1, <2>2
<1>11. RateBound'
  <2> SUFFICES ASSUME NEW s \in 0..(now + 1), NEW t \in 0..(now + 1), s <= t
               PROVE  Unit * GrantedIn(s, t) <= Full + (t - s) + Slack
    BY <1>1 DEF RateBound, GrantedIn, Slack
  <2>1. CASE t <= now
    <3>1. s \in 0..now /\ t \in 0..now
      BY <1>2, <2>1
    <3> QED BY <3>1 DEF ClientIInv, RateBound, GrantedIn, Slack
  <2>2. CASE t = now + 1 /\ s = now + 1
    <3>1. Unit * GrantedIn(s, t) = 0
      BY <1>9, <2>2, BucketFields
    <3> QED BY <1>2, <1>7, <2>2, <3>1
  <2>3. CASE t = now + 1 /\ s <= now
    <3>1. s \in 0..now
      BY <1>2, <2>3
    <3>2. Unit * GrantedIn(s, now) <= Full + (now - s) + Slack
      BY <1>2, <3>1, AccountedBound DEF ClientIInv
    <3>3. GrantedIn(s, t) = GrantedIn(s, now) /\ GrantedIn(s, now) \in Nat
      <4>1. now \in 0..now
        BY <1>2
      <4> QED BY <1>8, <2>3, <3>1, <4>1, GrantedType DEF ClientIInv
    <3> DEFINE spent == Unit * GrantedIn(s, now)
    <3>4. spent \in Nat
      BY <3>3, BucketFields
    <3>5. spent <= Full + (now - s) + Slack /\ Unit * GrantedIn(s, t) = spent
      BY <3>2, <3>3
    <3> HIDE DEF spent
    <3> QED BY <1>2, <1>7, <2>3, <3>1, <3>4, <3>5
  <2> QED BY <1>2, <2>1, <2>2, <2>3
<1>12. WindowInv'
  <2> SUFFICES ASSUME NEW q \in Requests, req[q].pc = "watched"
               PROVE  /\ kind = "redis"
                      /\ req[q].valid =>
                           /\ bucket.last <= req[q].at /\ req[q].at <= now + 1
                           /\ req[q].tokens = TokensAt(req[q].at) /\ req[q].tokens >= Unit
                           /\ \A u \in 0..MaxTime : u > req[q].at => granted[u] = 0
    BY <1>1 DEF WindowInv, TokensAt
  <2>1. req[q].at \in Nat
    BY DEF ClientIInv, SourceTypeOK, SourceAssumption
  <2>2. req[q].valid => req[q].at <= now + 1
    BY <1>2, <2>1 DEF ClientIInv, WindowInv
  <2> QED BY <2>2 DEF ClientIInv, WindowInv
<1>13. HoldingInv' /\ CacheInv'
  BY <1>1 DEF ClientIInv, HoldingInv, CacheInv
<1> QED BY <1>3, <1>6, <1>10, <1>11, <1>12, <1>13 DEF ClientIInv

LEMMA SourceStepHolds ==
  ASSUME SourceAssumption PROVE ClientIInv /\ [SourceNext]_sourceVars => ClientIInv'
<1> SUFFICES ASSUME ClientIInv, [SourceNext]_sourceVars PROVE ClientIInv'
  OBVIOUS
<1>1. ASSUME NEW q \in Requests, LookUp(q) PROVE ClientIInv'
  BY <1>1, LookUpKeeps
<1>2. ASSUME NEW q \in Requests, Watch(q) PROVE ClientIInv'
  BY <1>2, WatchKeeps
<1>3. ASSUME NEW q \in Requests, Exec(q) PROVE ClientIInv'
  BY <1>3, ExecKeeps
<1>4. ASSUME NEW q \in Requests, Acquire(q) PROVE ClientIInv'
  BY <1>4, AcquireKeeps
<1>5. ASSUME NEW q \in Requests, AcquireSlept(q) PROVE ClientIInv'
  BY <1>5, AcquireSleptKeeps
<1>6. ASSUME NEW q \in Requests, Succeed(q) \/ Retry(q) \/ GiveUp(q) \/ BackoffOver(q)
      PROVE  ClientIInv'
  BY <1>6, AttemptKeeps
<1>7. CASE Tick
  BY <1>7, TickKeeps
<1>8. CASE UNCHANGED sourceVars
  <2>1. UNCHANGED <<now, kind, bucket, req, granted, cachedAt>>
    BY <1>8 DEF sourceVars
  <2>2. SourceTypeOK' /\ ClockInv' /\ HoldingInv' /\ CacheInv'
    BY <2>1 DEF ClientIInv, SourceTypeOK, ClockInv, HoldingInv, CacheInv
  <2>3. TokensAccounted' /\ RateBound' /\ WindowInv'
    BY <2>1 DEF ClientIInv, TokensAccounted, RateBound, WindowInv, GrantedIn, Slack, TokensAt
  <2> QED BY <2>2, <2>3 DEF ClientIInv
<1> QED BY <1>1, <1>2, <1>3, <1>4, <1>5, <1>6, <1>7, <1>8 DEF SourceNext

(* In no window of time does a source see more requests than the burst and *)
(* the rate allow (and one that was decided before, with Redis), and a     *)
(* response that is fresh is fetched again only by requests under way.     *)
THEOREM ClientIsSafe == ASSUME SourceAssumption PROVE SourceSpec => []ClientSafe
<1>1. ClientIInv => ClientSafe
  BY DEF ClientIInv, ClientSafe, CacheInv, OnlyOverlapsRefetch
<1>2. SourceInit => ClientIInv
  BY SourceInitHolds
<1>3. ClientIInv /\ [SourceNext]_sourceVars => ClientIInv'
  BY SourceStepHolds
<1> QED BY <1>1, <1>2, <1>3, PTL DEF SourceSpec

-----------------------------------------------------------------------------
(***************************************************************************)
(* LLM budget: by how much the calls of other runs can take the day over   *)
(* its cap, which no lock protects.  For any runs, callers, stages, costs  *)
(* and caps.  A call that is still to be decided read a sum below the cap; *)
(* of those, the one that read last knows what the day had cost by then.   *)
(* Since then every other caller has logged at most the call it was        *)
(* deciding and the one that made it stop: two for each.                   *)
(***************************************************************************)

(* The callers of other runs than c's.                                     *)
Others(c) == {d \in Callers : RunOf[d] # RunOf[c]}

(* A call whose sum of the day was below the cap.                          *)
Undecided(d) == call[d].pc = "locked" /\ call[d].day < Caps.daily

(* How many of the two calls a caller may still log over the cap it has    *)
(* logged or given up.                                                     *)
Spent(d) ==
    IF Undecided(d) THEN 0 ELSE IF call[d].pc \in {"paused", "killed"} THEN 2 ELSE 1
SpentBy(c) == SumFunctionOnSet([d \in Callers |-> Spent(d)], Others(c))

(* While c decides, the day costs no more than these calls account for;    *)
(* the first of them has cost no more than was left, or the call of the one*)
(* who read the last sum before it will.                                   *)
Within(c, most) ==
    \/ DayCost <= Caps.daily - 1 + most * (SpentBy(c) - 1)
    \/ \E x \in Others(c) \cup {c} :
          Undecided(x) /\ DayCost <= call[x].day + most * SpentBy(c)

(* While all others decide as well, the last of them to read knows the sum.*)
LastRead(c) ==
    (\A d \in Others(c) : call[d].pc = "locked") =>
        \E x \in Others(c) \cup {c} : call[x].pc = "locked" /\ call[x].day = DayCost

AnyStage == CHOOSE s \in Stages : TRUE
BudgetTypes ==
    /\ ledger \in [Runs -> [Stages -> Nat]]
    /\ call \in [Callers -> [pc: CallPC, stage: Stages \cup {AnyStage},
                             run: Nat, day: Nat, inStage: Nat]]
    /\ \A c \in Callers : call[c].pc # "idle" => call[c].stage \in Stages
OneLockEach ==
    \A c, d \in Callers :
        call[c].pc = "locked" /\ call[d].pc = "locked" /\ RunOf[c] = RunOf[d] => c = d
Accounted ==
    \A c \in Callers : Undecided(c) =>
        /\ LastRead(c)
        /\ DayCost >= Caps.daily => \E most \in Costs : Within(c, most)
OvershootInv == BudgetTypes /\ OneLockEach /\ Accounted

-----------------------------------------------------------------------------
LEMMA TimesMonotone ==
  ASSUME NEW m \in Nat, NEW a \in Nat, NEW b \in Nat, a <= b
  PROVE  m * a <= m * b /\ m * a \in Nat
<1>1. PICK k \in Nat : b = a + k
  <2>1. b - a \in Nat /\ b = a + (b - a)
    OBVIOUS
  <2> QED BY <2>1
<1>2. m * b = m * a + m * k /\ m * a \in Nat /\ m * k \in Nat
  BY <1>1
<1> QED BY <1>2

(* What runs and the day have cost.                                        *)
LEMMA DayCostType ==
  ASSUME NEW costs \in [Runs -> [Stages -> Nat]]
  PROVE  /\ \A r \in Runs : SumFunctionOnSet(costs[r], Stages) \in Nat
         /\ SumFunctionOnSet([r \in Runs |-> SumFunctionOnSet(costs[r], Stages)], Runs) \in Nat
<1>1. ASSUME NEW r \in Runs PROVE SumFunctionOnSet(costs[r], Stages) \in Nat
  <2> DEFINE f == costs[r]
  <2>1. \A s \in Stages : f[s] \in Nat
    OBVIOUS
  <2> HIDE DEF f
  <2>2. SumFunctionOnSet(f, Stages) \in Nat
    BY <2>1, SumType, BudgetAssumption
  <2> QED BY <2>2 DEF f
<1> DEFINE g == [r \in Runs |-> SumFunctionOnSet(costs[r], Stages)]
<1>2. \A r \in Runs : g[r] \in Nat
  BY <1>1
<1> HIDE DEF g
<1>3. SumFunctionOnSet(g, Runs) \in Nat
  BY <1>2, SumType, BudgetAssumption
<1> QED BY <1>1, <1>3 DEF g

(* A logged call adds its cost to what the day has cost.                   *)
LEMMA LoggedDay ==
  ASSUME BudgetTypes, NEW c \in Callers, call[c].pc # "idle", NEW cost \in Costs,
         ledger' = Logged(c, cost)
  PROVE  /\ ledger' \in [Runs -> [Stages -> Nat]]
         /\ DayCost' = DayCost + cost
<1> DEFINE r == RunOf[c]
           s == call[c].stage
           f == ledger[r]
           h == ledger'[r]
<1>1. r \in Runs /\ s \in Stages /\ cost \in Nat
  BY BudgetAssumption DEF BudgetTypes
<1>2. /\ ledger' = [ledger EXCEPT ![r] = [ledger[r] EXCEPT ![s] = ledger[r][s] + cost]]
      /\ ledger \in [Runs -> [Stages -> Nat]]
      /\ ledger[r] \in [Stages -> Nat]
  BY <1>1 DEF Logged, BudgetTypes
<1>3. [ledger[r] EXCEPT ![s] = ledger[r][s] + cost] \in [Stages -> Nat]
  BY <1>1, <1>2
<1>4. /\ ledger' \in [Runs -> [Stages -> Nat]]
      /\ h = [ledger[r] EXCEPT ![s] = ledger[r][s] + cost]
      /\ \A q \in Runs \ {r} : ledger'[q] = ledger[q]
  BY <1>1, <1>2, <1>3
<1>5. /\ \A x \in Stages : f[x] \in Int /\ h[x] \in Int
      /\ \A x \in Stages \ {s} : f[x] = h[x]
      /\ h[s] = f[s] + cost
  BY <1>1, <1>2, <1>4
<1>6. RunCost(r) = SumFunctionOnSet(f, Stages) /\ RunCost(r)' = SumFunctionOnSet(h, Stages)
  BY DEF RunCost
<1>7. /\ \A q \in Runs : RunCost(q) \in Nat /\ RunCost(q)' \in Nat
      /\ DayCost \in Nat /\ DayCost' \in Nat
  <2>1. (\A q \in Runs : RunCost(q) \in Nat) /\ DayCost \in Nat
    BY <1>2, DayCostType DEF RunCost, DayCost
  <2>2. (\A q \in Runs : RunCost(q)' \in Nat) /\ DayCost' \in Nat
    BY <1>4, DayCostType DEF RunCost, DayCost
  <2> QED BY <2>1, <2>2
<1>8. \A q \in Runs \ {r} : RunCost(q)' = RunCost(q)
  BY <1>4 DEF RunCost
<1> HIDE DEF f, h, s, r
<1>9. SumFunctionOnSet(h, Stages) = SumFunctionOnSet(f, Stages) - f[s] + h[s]
  <2>1. IsFiniteSet(Stages) /\ s \in Stages
    BY <1>1, BudgetAssumption
  <2>2. /\ \A x \in Stages : f[x] \in Int /\ h[x] \in Int
        /\ \A x \in Stages \ {s} : f[x] = h[x]
    BY <1>5
  <2> QED BY <2>1, <2>2, SumChanged
<1>10. RunCost(r)' = RunCost(r) + cost
  <2>1. f[s] \in Int
    BY <1>1, <1>5
  <2> QED BY <1>1, <1>5, <1>6, <1>7, <1>9, <2>1
<1> DEFINE F == [q \in Runs |-> RunCost(q)]
           H == [q \in Runs |-> RunCost(q)']
<1>11. DayCost = SumFunctionOnSet(F, Runs) /\ DayCost' = SumFunctionOnSet(H, Runs)
  BY DEF DayCost
<1>12. /\ \A q \in Runs : F[q] \in Int /\ H[q] \in Int
       /\ \A q \in Runs \ {r} : F[q] = H[q]
       /\ H[r] = F[r] + cost
  BY <1>1, <1>7, <1>8, <1>10
<1> HIDE DEF F, H
<1>13. SumFunctionOnSet(H, Runs) = SumFunctionOnSet(F, Runs) - F[r] + H[r]
  <2>1. IsFiniteSet(Runs) /\ r \in Runs
    BY <1>1, BudgetAssumption
  <2>2. /\ \A x \in Runs : F[x] \in Int /\ H[x] \in Int
        /\ \A x \in Runs \ {r} : F[x] = H[x]
    BY <1>12
  <2> QED BY <2>1, <2>2, SumChanged
<1>14. DayCost' = DayCost + cost
  <2>1. F[r] \in Int
    BY <1>1, <1>12
  <2> QED BY <1>1, <1>7, <1>11, <1>12, <1>13, <2>1
<1> QED BY <1>4, <1>14

-----------------------------------------------------------------------------
LEMMA SpentType ==
  ASSUME BudgetTypes
  PROVE  /\ \A d \in Callers : Spent(d) \in {0, 1, 2}
         /\ DayCost \in Nat /\ Caps.daily \in Nat
         /\ \A d \in Callers : call[d].day \in Nat
<1>1. DayCost \in Nat
  BY DayCostType DEF BudgetTypes, RunCost, DayCost
<1>2. Caps.daily \in Nat
  BY BudgetAssumption
<1> QED BY <1>1, <1>2 DEF Spent, BudgetTypes

(* What the others have spent, with a caller or two taken out.             *)
LEMMA SpentApart ==
  ASSUME IsFiniteSet(Callers), BudgetTypes, NEW c \in Callers
  PROVE  /\ SpentBy(c) \in Nat
         /\ \A y \in Others(c) : SpentBy(c) >= Spent(y)
         /\ \A y, e \in Others(c) : y # e => SpentBy(c) >= Spent(y) + Spent(e)
<1> DEFINE f == [d \in Callers |-> Spent(d)]
           S == Others(c)
<1>1. /\ S \subseteq Callers /\ IsFiniteSet(S)
      /\ \A x \in S : f[x] \in Nat /\ f[x] \in Int /\ f[x] = Spent(x)
      /\ SpentBy(c) = SumFunctionOnSet(f, S)
  <2>1. S \subseteq Callers
    BY DEF Others
  <2>2. IsFiniteSet(S)
    BY <2>1, FS_Subset
  <2>3. \A x \in S : f[x] = Spent(x) /\ Spent(x) \in {0, 1, 2}
    BY <2>1, SpentType
  <2> QED BY <2>1, <2>2, <2>3 DEF SpentBy
<1> HIDE DEF f, S
<1>2. SpentBy(c) \in Nat
  BY <1>1, SumType
<1>3. ASSUME NEW y \in S
      PROVE  /\ SpentBy(c) = f[y] + SumFunctionOnSet(f, S \ {y})
             /\ SumFunctionOnSet(f, S \ {y}) \in Nat
  <2>1. IsFiniteSet(S \ {y})
    BY <1>1, FS_Subset
  <2>2. SumFunctionOnSet(f, S) = f[y] + SumFunctionOnSet(f, S \ {y})
    BY <1>1, SumTakeOut
  <2>3. SumFunctionOnSet(f, S \ {y}) \in Nat
    BY <1>1, <2>1, SumType
  <2> QED BY <1>1, <2>2, <2>3
<1>4. ASSUME NEW y \in S PROVE SpentBy(c) >= Spent(y)
  <2>1. f[y] \in Nat /\ f[y] = Spent(y)
    BY <1>1
  <2>2. /\ SpentBy(c) = f[y] + SumFunctionOnSet(f, S \ {y})
        /\ SumFunctionOnSet(f, S \ {y}) \in Nat
    BY <1>3
  <2> QED BY <2>1, <2>2
<1>5. ASSUME NEW y \in S, NEW e \in S, y # e PROVE SpentBy(c) >= Spent(y) + Spent(e)
  <2>1. IsFiniteSet(S \ {y}) /\ e \in S \ {y} /\ IsFiniteSet((S \ {y}) \ {e})
    BY <1>1, <1>5, FS_Subset
  <2>2. SumFunctionOnSet(f, S \ {y}) = f[e] + SumFunctionOnSet(f, (S \ {y}) \ {e})
    BY <1>1, <2>1, SumTakeOut
  <2>3. SumFunctionOnSet(f, (S \ {y}) \ {e}) \in Nat
    BY <1>1, <2>1, SumType
  <2>4. f[y] \in Nat /\ f[y] = Spent(y) /\ f[e] \in Nat /\ f[e] = Spent(e)
    BY <1>1
  <2> QED BY <1>3, <2>2, <2>3, <2>4
<1> QED BY <1>2, <1>4, <1>5 DEF S

(* Two calls each, and none yet of one that is undecided.                  *)
LEMMA SpentAtMost ==
  ASSUME IsFiniteSet(Callers), BudgetTypes, NEW c \in Callers
  PROVE  /\ Cardinality(Others(c)) \in Nat
         /\ SpentBy(c) <= 2 * Cardinality(Others(c))
         /\ (\E x \in Others(c) : Undecided(x)) => SpentBy(c) <= 2 * Cardinality(Others(c)) - 2
         /\ Others(c) # {} => Cardinality(Others(c)) >= 1
<1> DEFINE f == [d \in Callers |-> Spent(d)]
           S == Others(c)
<1>1. /\ S \subseteq Callers /\ IsFiniteSet(S)
      /\ \A x \in S : f[x] \in Nat /\ f[x] \in Int /\ f[x] <= 2 /\ f[x] = Spent(x)
      /\ SpentBy(c) = SumFunctionOnSet(f, S)
  <2>1. S \subseteq Callers
    BY DEF Others
  <2>2. IsFiniteSet(S)
    BY <2>1, FS_Subset
  <2>3. \A x \in S : f[x] = Spent(x) /\ Spent(x) \in {0, 1, 2}
    BY <2>1, SpentType
  <2> QED BY <2>1, <2>2, <2>3 DEF SpentBy
<1> HIDE DEF f, S
<1>2. Cardinality(S) \in Nat
  BY <1>1, FS_CardinalityType
<1>3. SpentBy(c) <= 2 * Cardinality(S)
  <2>1. SumFunctionOnSet(f, S) <= 2 * Cardinality(S)
    BY <1>1, SumAtMost
  <2> QED BY <1>1, <2>1
<1>4. ASSUME NEW x \in S, Undecided(x) PROVE SpentBy(c) <= 2 * Cardinality(S) - 2
  <2>1. f[x] = 0
    BY <1>1, <1>4 DEF Spent
  <2>2. SumFunctionOnSet(f, S) = f[x] + SumFunctionOnSet(f, S \ {x})
    BY <1>1, SumTakeOut
  <2>3. /\ IsFiniteSet(S \ {x}) /\ Cardinality(S \ {x}) = Cardinality(S) - 1
        /\ Cardinality(S \ {x}) \in Nat
    BY <1>1, FS_RemoveElement, FS_CardinalityType
  <2>4. SumFunctionOnSet(f, S \ {x}) <= 2 * Cardinality(S \ {x})
    BY <1>1, <2>3, SumAtMost
  <2>5. SumFunctionOnSet(f, S \ {x}) \in Nat
    BY <1>1, <2>3, SumType
  <2> QED BY <1>1, <1>2, <2>1, <2>2, <2>3, <2>4, <2>5
<1>5. S # {} => Cardinality(S) >= 1
  BY <1>1, <1>2, FS_EmptySet
<1> QED BY <1>2, <1>3, <1>4, <1>5 DEF S

(* One caller moves.                                                       *)
LEMMA SpentMoves ==
  ASSUME IsFiniteSet(Callers), BudgetTypes, BudgetTypes', NEW c \in Callers, NEW y \in Callers,
         \A d \in Callers \ {y} : call'[d] = call[d]
  PROVE  /\ SpentBy(c) \in Nat /\ SpentBy(c)' \in Nat
         /\ Spent(y) \in {0, 1, 2} /\ Spent(y)' \in {0, 1, 2}
         /\ y \in Others(c) => SpentBy(c)' = SpentBy(c) - Spent(y) + Spent(y)'
         /\ y \notin Others(c) => SpentBy(c)' = SpentBy(c)
         /\ Others(c)' = Others(c)
<1> DEFINE f == [d \in Callers |-> Spent(d)]
           g == [d \in Callers |-> Spent(d)']
           S == Others(c)
<1>0. Others(c)' = Others(c)
  BY DEF Others
<1>1. \A d \in Callers : Spent(d) \in {0, 1, 2} /\ Spent(d)' \in {0, 1, 2}
  <2>1. \A d \in Callers : Spent(d) \in {0, 1, 2}
    BY SpentType
  <2>2. \A d \in Callers : Spent(d)' \in {0, 1, 2}
    BY DEF Spent, BudgetTypes
  <2> QED BY <2>1, <2>2
<1>2. \A d \in Callers \ {y} : Spent(d)' = Spent(d)
  BY DEF Spent, Undecided
<1>3. /\ S \subseteq Callers /\ IsFiniteSet(S)
      /\ \A x \in S : f[x] \in Int /\ g[x] \in Int /\ f[x] \in Nat /\ g[x] \in Nat
      /\ \A x \in S \ {y} : f[x] = g[x]
      /\ f[y] = Spent(y) /\ g[y] = Spent(y)'
      /\ SpentBy(c) = SumFunctionOnSet(f, S) /\ SpentBy(c)' = SumFunctionOnSet(g, S)
  <2>1. S \subseteq Callers
    BY DEF Others
  <2>2. IsFiniteSet(S)
    BY <2>1, FS_Subset
  <2>3. SpentBy(c) = SumFunctionOnSet(f, S) /\ SpentBy(c)' = SumFunctionOnSet(g, S)
    BY <1>0 DEF SpentBy
  <2>4. \A x \in S : f[x] = Spent(x) /\ g[x] = Spent(x)'
    BY <2>1
  <2>5. f[y] = Spent(y) /\ g[y] = Spent(y)'
    OBVIOUS
  <2> HIDE DEF f, g, S
  <2>6. \A x \in S : f[x] \in {0, 1, 2} /\ g[x] \in {0, 1, 2}
    BY <1>1, <2>1, <2>4
  <2>7. \A x \in S \ {y} : f[x] = g[x]
    BY <1>2, <2>1, <2>4
  <2> QED BY <2>1, <2>2, <2>3, <2>5, <2>6, <2>7
<1> HIDE DEF f, g
<1>4. SpentBy(c) \in Nat /\ SpentBy(c)' \in Nat
  BY <1>3, SumType
<1>5. CASE y \in S
  <2>1. SumFunctionOnSet(g, S) = SumFunctionOnSet(f, S) - f[y] + g[y]
    BY <1>3, <1>5, SumChanged
  <2> QED BY <1>0, <1>1, <1>3, <1>4, <1>5, <2>1
<1>6. CASE y \notin S
  <2>1. \A x \in S : f[x] = g[x]
    BY <1>3, <1>6
  <2>2. SumFunctionOnSet(f, S) = SumFunctionOnSet(g, S)
    BY <1>3, <2>1, SumSame
  <2> QED BY <1>0, <1>1, <1>3, <1>4, <1>6, <2>2
<1> QED BY <1>5, <1>6

-----------------------------------------------------------------------------
(* A bound that grows with what is spent, and with the costliest call.     *)
LEMMA WithinKept ==
  ASSUME IsFiniteSet(Callers), BudgetTypes, BudgetTypes', NEW c \in Callers,
         NEW most \in Nat, Within(c, most), DayCost' = DayCost,
         SpentBy(c)' \in Nat, SpentBy(c)' >= SpentBy(c), Others(c)' = Others(c),
         DayCost >= Caps.daily,
         \A x \in Others(c) \cup {c} : Undecided(x) => call'[x] = call[x]
  PROVE  Within(c, most)'
<1>1. DayCost \in Nat /\ Caps.daily \in Nat /\ \A x \in Callers : call[x].day \in Nat
  BY SpentType
<1>2. SpentBy(c) \in Nat /\ SpentBy(c)' \in Nat
  BY SpentApart
<1>3. CASE DayCost <= Caps.daily - 1 + most * (SpentBy(c) - 1)
  <2>1. SpentBy(c) >= 1
    <3> SUFFICES ASSUME SpentBy(c) = 0 PROVE FALSE
      BY <1>2
    <3>1. most * (SpentBy(c) - 1) = -most
      OBVIOUS
    <3> QED BY <1>1, <1>3, <3>1
  <2>2. most * (SpentBy(c) - 1) <= most * (SpentBy(c)' - 1)
    <3>1. SpentBy(c) - 1 \in Nat /\ SpentBy(c)' - 1 \in Nat /\ SpentBy(c) - 1 <= SpentBy(c)' - 1
      BY <1>2, <2>1
    <3>2. most * (SpentBy(c)' - 1) \in Nat
      BY <3>1
    <3> QED BY <3>1, TimesMonotone
  <2>3. most * (SpentBy(c) - 1) \in Nat /\ most * (SpentBy(c)' - 1) \in Nat
    <3>1. SpentBy(c) - 1 \in Nat /\ SpentBy(c)' - 1 \in Nat
      BY <1>2, <2>1
    <3> QED BY <3>1
  <2>4. DayCost' <= Caps.daily - 1 + most * (SpentBy(c)' - 1)
    BY <1>1, <1>3, <2>2, <2>3
  <2> QED BY <2>4 DEF Within
<1>4. CASE \E x \in Others(c) \cup {c} :
              Undecided(x) /\ DayCost <= call[x].day + most * SpentBy(c)
  <2>1. PICK x \in Others(c) \cup {c} :
              Undecided(x) /\ DayCost <= call[x].day + most * SpentBy(c)
    BY <1>4
  <2>2. x \in Callers /\ call'[x] = call[x]
    BY <2>1 DEF Others
  <2>3. most * SpentBy(c) <= most * SpentBy(c)' /\ most * SpentBy(c) \in Nat /\ most * SpentBy(c)' \in Nat
    BY <1>2, TimesMonotone
  <2>4. Undecided(x)' /\ DayCost' <= call'[x].day + most * SpentBy(c)'
    BY <1>1, <2>1, <2>2, <2>3 DEF Undecided
  <2> QED BY <2>1, <2>4 DEF Within
<1> QED BY <1>3, <1>4 DEF Within

(* Steps that log nothing.                                                 *)
LEMMA PlainKeeps ==
  ASSUME IsFiniteSet(Callers), OvershootInv, NEW y \in Callers, BudgetTypes', ledger' = ledger,
         \A d \in Callers \ {y} : call'[d] = call[d],
         call[y].pc \in {"idle", "calling", "allowed", "error"},
         call'[y].pc \in {"calling", "error", "locked"},
         call'[y].pc = "locked" => LockFree(RunOf[y]) /\ call'[y].day = DayCost
  PROVE  OvershootInv'
<1>1. DayCost' = DayCost /\ DayCost \in Nat /\ Caps.daily \in Nat
  BY SpentType DEF OvershootInv, DayCost, RunCost
<1>2. OneLockEach'
  BY DEF OvershootInv, OneLockEach, LockFree
<1>3. ASSUME NEW c \in Callers, Undecided(c)' PROVE LastRead(c)'
  <2>0. Others(c)' = Others(c) /\ Others(c) \subseteq Callers /\ c \notin Others(c)
    BY DEF Others
  <2>1. CASE c = y
    <3>1. call'[c].pc = "locked" /\ call'[c].day = DayCost'
      BY <1>1, <1>3, <2>1 DEF Undecided
    <3> QED BY <2>0, <3>1 DEF LastRead
  <2>2. CASE c # y
    <3>1. Undecided(c) /\ LastRead(c)
      BY <1>3, <2>2 DEF Undecided, OvershootInv, Accounted
    <3> SUFFICES ASSUME \A d \in Others(c) : call'[d].pc = "locked"
                 PROVE  \E x \in Others(c) \cup {c} : call'[x].pc = "locked" /\ call'[x].day = DayCost'
      BY <2>0 DEF LastRead
    <3>2. CASE y \in Others(c)
      BY <1>1, <3>2
    <3>3. CASE y \notin Others(c)
      <4>1. \A d \in Others(c) \cup {c} : call'[d] = call[d]
        BY <2>0, <2>2, <3>3
      <4> QED BY <1>1, <3>1, <4>1 DEF LastRead
    <3> QED BY <3>2, <3>3
  <2> QED BY <2>1, <2>2
<1>4. ASSUME NEW c \in Callers, Undecided(c)', DayCost' >= Caps.daily
      PROVE  \E most \in Costs : Within(c, most)'
  <2>1. c # y /\ Undecided(c)
    BY <1>1, <1>4 DEF Undecided
  <2>2. PICK most \in Costs : Within(c, most)
    BY <1>1, <1>4, <2>1 DEF OvershootInv, Accounted
  <2>3. /\ SpentBy(c) \in Nat /\ SpentBy(c)' \in Nat
        /\ y \in Others(c) => SpentBy(c)' = SpentBy(c) - Spent(y) + Spent(y)'
        /\ y \notin Others(c) => SpentBy(c)' = SpentBy(c)
        /\ Others(c)' = Others(c)
    BY SpentMoves DEF OvershootInv
  <2>4. Spent(y) = 1 /\ Spent(y)' = 1
    BY <1>1, <1>4 DEF Spent, Undecided
  <2>5. SpentBy(c)' >= SpentBy(c)
    BY <2>3, <2>4
  <2>6. \A x \in Others(c) \cup {c} : Undecided(x) => call'[x] = call[x]
    BY DEF Undecided, Others
  <2>7. most \in Nat /\ DayCost >= Caps.daily
    BY <1>1, <1>4, BudgetAssumption
  <2>8. Within(c, most)'
    BY <1>1, <2>2, <2>3, <2>5, <2>6, <2>7, WithinKept DEF OvershootInv
  <2> QED BY <2>8
<1> QED BY <1>2, <1>3, <1>4 DEF OvershootInv, Accounted

(* What the arithmetic of a logged call comes to: t is the day's cost, s   *)
(* and s2 what is spent before and after.                                  *)
LEMMA OneMore ==
  ASSUME NEW t \in Nat, NEW base \in Int, NEW m \in Nat, NEW cost \in Nat, NEW most \in Nat,
         m <= most, cost <= most, NEW s \in Nat, NEW s2 \in Nat, s + 1 <= s2, t <= base + m * s
  PROVE  t + cost <= base + most * s2
<1>1. m * s <= most * s /\ m * s \in Nat /\ most * s \in Nat
  <2>1. s * m <= s * most
    BY TimesMonotone
  <2>2. s * m = m * s /\ s * most = most * s
    OBVIOUS
  <2> QED BY <2>1, <2>2, TimesMonotone
<1>2. most * (s + 1) <= most * s2 /\ most * s2 \in Nat
  BY TimesMonotone
<1>3. most * (s + 1) = most * s + most
  OBVIOUS
<1> QED BY <1>1, <1>2, <1>3

LEMMA PersistKeeps ==
  ASSUME IsFiniteSet(Callers), OvershootInv, NEW y \in Callers, BudgetTypes', Persist(y)
  PROVE  OvershootInv'
<1>1. PICK cost \in Costs :
          /\ ledger' = Logged(y, cost)
          /\ call' = [call EXCEPT ![y] = [CallingFor(call[y].stage) EXCEPT !.pc = Evaluate(y, cost)]]
  BY DEF Persist
<1>2. /\ call[y].pc = "locked" /\ \A d \in Callers \ {y} : call'[d] = call[d]
      /\ call'[y].pc = Evaluate(y, cost)
      /\ Evaluate(y, cost) \in {"killed", "paused", "allowed"}
      /\ Evaluate(y, cost) = "allowed" => ~(call[y].day + cost >= Caps.daily)
      /\ call[y].day + cost >= Caps.daily => Evaluate(y, cost) = "killed"
  <2>1. y \in DOMAIN call
    BY DEF OvershootInv, BudgetTypes
  <2> QED BY <1>1, <2>1 DEF Persist, Evaluate, CallingFor
<1>3. /\ DayCost' = DayCost + cost /\ DayCost \in Nat /\ Caps.daily \in Nat /\ cost \in Nat
      /\ \A d \in Callers : call[d].day \in Nat
  <2>1. DayCost' = DayCost + cost
    BY <1>1, <1>2, LoggedDay DEF OvershootInv
  <2> QED BY <2>1, SpentType, BudgetAssumption DEF OvershootInv
<1>4. OneLockEach'
  BY <1>2 DEF OvershootInv, OneLockEach
<1>5. ASSUME NEW c \in Callers, Undecided(c)'
      PROVE  LastRead(c)' /\ (DayCost' >= Caps.daily => \E most \in Costs : Within(c, most)')
  <2>1. /\ c # y /\ Undecided(c) /\ y \in Others(c) /\ Others(c) \subseteq Callers
        /\ Others(c)' = Others(c)
    <3>1. c # y
      BY <1>2, <1>5 DEF Undecided
    <3>2. Undecided(c)
      BY <1>2, <1>5, <3>1 DEF Undecided
    <3>3. RunOf[c] # RunOf[y]
      BY <1>2, <3>1, <3>2 DEF OvershootInv, OneLockEach, Undecided
    <3> QED BY <3>1, <3>2, <3>3 DEF Others
  <2>2. LastRead(c)'
    BY <1>2, <2>1 DEF LastRead
  <2> DEFINE s == SpentBy(c)
             s2 == SpentBy(c)'
  <2>3. /\ s \in Nat /\ s2 \in Nat /\ s2 = s - Spent(y) + Spent(y)' /\ s >= Spent(y)
        /\ \A e \in Others(c) : e # y => s >= Spent(y) + Spent(e)
        /\ \A e \in Callers : Spent(e) \in {0, 1, 2}
    <3>1. \A e \in Callers : Spent(e) \in {0, 1, 2}
      BY SpentType DEF OvershootInv
    <3>2. s \in Nat /\ s2 \in Nat /\ s2 = s - Spent(y) + Spent(y)'
      BY <1>2, <2>1, SpentMoves DEF OvershootInv
    <3>3. s >= Spent(y) /\ \A e \in Others(c) : e # y => s >= Spent(y) + Spent(e)
      BY <2>1, SpentApart DEF OvershootInv
    <3> QED BY <3>1, <3>2, <3>3
  <2>4. /\ Spent(y)' = IF Evaluate(y, cost) = "allowed" THEN 1 ELSE 2
        /\ Evaluate(y, cost) = "allowed" => Undecided(y) /\ Spent(y) = 0
        /\ Spent(y) \in {0, 1}
    <3>1. ~Undecided(y)'
      BY <1>2 DEF Undecided
    <3>2. Spent(y)' = IF Evaluate(y, cost) = "allowed" THEN 1 ELSE 2
      BY <1>2, <3>1 DEF Spent
    <3>3. Spent(y) \in {0, 1}
      BY <1>2 DEF Spent
    <3>4. Evaluate(y, cost) = "allowed" => Undecided(y)
      BY <1>2, <1>3 DEF Undecided
    <3> QED BY <3>2, <3>3, <3>4 DEF Spent
  <2>5. ASSUME NEW x \in Others(c) \cup {c}, x # y, Undecided(x)
        PROVE  Undecided(x)' /\ call'[x] = call[x]
    <3>1. x \in Callers \ {y}
      BY <2>1, <2>5
    <3>2. call'[x] = call[x]
      BY <1>2, <3>1
    <3> QED BY <2>5, <3>2 DEF Undecided
  <2>6. s + 1 <= s2 /\ (Evaluate(y, cost) = "allowed" => s2 = s + 1)
        /\ (Undecided(y) /\ Evaluate(y, cost) # "allowed" => s2 = s + 2)
    <3>1. Undecided(y) => Spent(y) = 0
      BY DEF Spent
    <3> QED BY <2>3, <2>4, <3>1
  <2>7. ASSUME DayCost >= Caps.daily PROVE \E most \in Costs : Within(c, most)'
    <3>1. PICK m \in Costs : Within(c, m)
      BY <2>1, <2>7 DEF OvershootInv, Accounted
    <3>2. PICK most \in Costs : m <= most /\ cost <= most
      BY <1>3, <3>1, BudgetAssumption
    <3>3. m \in Nat /\ most \in Nat
      BY BudgetAssumption
    <3> HIDE DEF s, s2
    <3>4. CASE DayCost <= Caps.daily - 1 + m * (SpentBy(c) - 1)
      <4>1. s >= 1
        <5> SUFFICES ASSUME s = 0 PROVE FALSE
          BY <2>3
        <5>1. DayCost <= Caps.daily - 1 + m * (0 - 1)
          BY <3>4 DEF s
        <5> QED BY <1>3, <2>7, <3>3, <5>1
      <4>2. s - 1 \in Nat /\ s2 - 1 \in Nat /\ (s - 1) + 1 <= s2 - 1
        BY <2>3, <2>6, <4>1
      <4>3. Caps.daily - 1 \in Int /\ DayCost <= Caps.daily - 1 + m * (s - 1)
        BY <1>3, <3>4 DEF s
      <4>4. DayCost + cost <= Caps.daily - 1 + most * (s2 - 1)
        BY <1>3, <3>2, <3>3, <4>2, <4>3, OneMore
      <4> QED BY <1>3, <4>4 DEF Within, s2
    <3>5. CASE \E x \in Others(c) \cup {c} :
                  Undecided(x) /\ DayCost <= call[x].day + m * SpentBy(c)
      <4>1. PICK x \in Others(c) \cup {c} :
                  Undecided(x) /\ DayCost <= call[x].day + m * s
        BY <3>5 DEF s
      <4>2. call[x].day \in Nat /\ call[x].day < Caps.daily
        BY <1>3, <2>1, <4>1 DEF Undecided
      <4>3. CASE x # y
        <5>1. DayCost + cost <= call[x].day + most * s2
          BY <1>3, <2>3, <2>6, <3>2, <3>3, <4>1, <4>2, OneMore
        <5>2. Undecided(x)' /\ DayCost' <= call'[x].day + most * s2
          BY <1>3, <2>5, <4>1, <4>3, <5>1
        <5> QED BY <2>1, <4>1, <5>2 DEF Within, s2
      <4>4. CASE x = y /\ Evaluate(y, cost) = "allowed"
        <5>1. s * m <= s * most /\ s * m \in Nat
          BY <2>3, <3>2, <3>3, TimesMonotone
        <5>2. m * s = s * m /\ most * s = s * most /\ most * s \in Nat
          BY <2>3, <3>3
        <5>3. call[y].day + cost < Caps.daily
          BY <1>2, <1>3, <4>4
        <5>4. DayCost <= call[y].day + m * s
          BY <4>1, <4>4
        <5>5. DayCost + cost <= Caps.daily - 1 + most * s
          BY <1>3, <5>1, <5>2, <5>3, <5>4
        <5>6. s = s2 - 1
          BY <2>3, <2>6, <4>4
        <5>7. DayCost' <= Caps.daily - 1 + most * (s2 - 1)
          BY <1>3, <5>5, <5>6
        <5> QED BY <5>7 DEF Within, s2
      <4>5. CASE x = y /\ Evaluate(y, cost) # "allowed"
        <5>1. s2 = s + 2 /\ s + 1 <= s2 - 1 /\ s2 - 1 \in Nat
          BY <2>3, <2>6, <4>1, <4>5
        <5>2. DayCost + cost <= call[x].day + most * (s2 - 1)
          BY <1>3, <2>3, <3>2, <3>3, <4>1, <4>2, <5>1, OneMore
        <5>3. most * (s2 - 1) \in Nat
          BY <3>3, <5>1
        <5>4. DayCost' <= Caps.daily - 1 + most * (s2 - 1)
          BY <1>3, <4>2, <5>2, <5>3
        <5> QED BY <5>4 DEF Within, s2
      <4> QED BY <4>3, <4>4, <4>5
    <3> QED BY <3>1, <3>4, <3>5 DEF Within
  <2>8. ASSUME DayCost < Caps.daily, DayCost' >= Caps.daily
        PROVE  \E most \in Costs : Within(c, most)'
    <3> HIDE DEF s, s2
    <3>1. CASE s2 >= 2
      <4>1. 1 \in Nat /\ s2 - 1 \in Nat /\ 1 <= s2 - 1
        BY <2>3, <3>1
      <4>2. cost * 1 <= cost * (s2 - 1) /\ cost * 1 = cost
        BY <1>3, <4>1, TimesMonotone
      <4>3. cost * (s2 - 1) \in Nat
        BY <1>3, <4>1
      <4>4. DayCost' <= Caps.daily - 1 + cost * (s2 - 1)
        BY <1>3, <2>8, <4>2, <4>3
      <4> QED BY <4>4 DEF Within, s2
    <3>2. CASE s2 < 2
      <4>1. s2 = 1 /\ s = 0 /\ Evaluate(y, cost) = "allowed"
        BY <2>3, <2>4, <2>6, <3>2
      <4>2. \A d \in Others(c) : call[d].pc = "locked"
        <5> SUFFICES ASSUME NEW e \in Others(c), call[e].pc # "locked" PROVE FALSE
          OBVIOUS
        <5>1. e # y /\ e \in Callers /\ Spent(e) \in {1, 2}
          BY <1>2, <2>1 DEF Spent, Undecided
        <5> QED BY <2>3, <2>4, <4>1, <5>1
      <4>3. PICK x \in Others(c) \cup {c} : call[x].pc = "locked" /\ call[x].day = DayCost
        BY <2>1, <4>2 DEF OvershootInv, Accounted, LastRead
      <4>4. x # y
        BY <1>2, <1>3, <2>8, <4>1, <4>3
      <4>5. Undecided(x)
        BY <2>8, <4>3 DEF Undecided
      <4>6. Undecided(x)' /\ call'[x].day = DayCost
        BY <2>5, <4>3, <4>4, <4>5
      <4>7. cost * s2 = cost
        BY <1>3, <4>1
      <4>8. DayCost' <= call'[x].day + cost * s2
        BY <1>3, <4>6, <4>7
      <4> QED BY <2>1, <4>3, <4>6, <4>8 DEF Within, s2
    <3> QED BY <2>3, <3>1, <3>2
  <2>9. DayCost >= Caps.daily \/ DayCost < Caps.daily
    BY <1>3
  <2>10. DayCost' >= Caps.daily => \E most \in Costs : Within(c, most)'
    BY <2>7, <2>8, <2>9, Zenon
  <2> QED BY <2>2, <2>10, Zenon
<1> QED BY <1>4, <1>5 DEF OvershootInv, Accounted

-----------------------------------------------------------------------------
LEMMA BudgetTypesKept == BudgetTypes /\ [LlmNext]_llmVars => BudgetTypes'
<1> SUFFICES ASSUME BudgetTypes, [LlmNext]_llmVars PROVE BudgetTypes'
  OBVIOUS
<1> DEFINE Rec == [pc: CallPC, stage: Stages \cup {AnyStage}, run: Nat, day: Nat, inStage: Nat]
<1>0. ASSUME NEW c \in Callers, NEW x \in Rec, x.pc # "idle" => x.stage \in Stages,
             call' = [call EXCEPT ![c] = x], ledger' \in [Runs -> [Stages -> Nat]]
      PROVE  BudgetTypes'
  BY <1>0 DEF BudgetTypes
<1>1. ASSUME NEW c \in Callers, CallFails(c) PROVE BudgetTypes'
  <2>1. call' = [call EXCEPT ![c] = [call[c] EXCEPT !.pc = "error"]] /\ ledger' = ledger
    BY <1>1 DEF CallFails
  <2>2. /\ [call[c] EXCEPT !.pc = "error"] \in Rec
        /\ [call[c] EXCEPT !.pc = "error"].stage \in Stages
    BY <1>1 DEF CallFails, BudgetTypes, CallPC
  <2> QED BY <1>0, <2>1, <2>2 DEF BudgetTypes
<1>2. ASSUME NEW c \in Callers, ReadSums(c) PROVE BudgetTypes'
  <2> DEFINE x == [pc |-> "locked", stage |-> call[c].stage, run |-> RunCost(RunOf[c]),
                   day |-> DayCost, inStage |-> ledger[RunOf[c]][call[c].stage]]
  <2>1. call' = [call EXCEPT ![c] = x] /\ ledger' = ledger
    BY <1>2 DEF ReadSums
  <2>2. call[c].stage \in Stages /\ RunOf[c] \in Runs
    BY <1>2, BudgetAssumption DEF ReadSums, BudgetTypes
  <2>3. RunCost(RunOf[c]) \in Nat /\ DayCost \in Nat /\ ledger[RunOf[c]][call[c].stage] \in Nat
    BY <2>2, DayCostType DEF BudgetTypes, RunCost, DayCost
  <2>4. x \in Rec /\ x.stage \in Stages
    BY <2>2, <2>3 DEF CallPC
  <2> HIDE DEF x, Rec
  <2> QED BY <1>0, <2>1, <2>4 DEF BudgetTypes
<1>3. ASSUME NEW c \in Callers, Persist(c) PROVE BudgetTypes'
  <2>1. PICK cost \in Costs :
          /\ ledger' = Logged(c, cost)
          /\ call' = [call EXCEPT ![c] = [CallingFor(call[c].stage) EXCEPT !.pc = Evaluate(c, cost)]]
    BY <1>3 DEF Persist
  <2>2. call[c].pc # "idle" /\ call[c].stage \in Stages
    BY <1>3 DEF Persist, BudgetTypes
  <2>3. ledger' \in [Runs -> [Stages -> Nat]]
    BY <2>1, <2>2, LoggedDay
  <2>4. Evaluate(c, cost) \in CallPC
    BY DEF Evaluate, CallPC
  <2>5. /\ [CallingFor(call[c].stage) EXCEPT !.pc = Evaluate(c, cost)] \in Rec
        /\ [CallingFor(call[c].stage) EXCEPT !.pc = Evaluate(c, cost)].stage \in Stages
    BY <2>2, <2>4 DEF CallingFor
  <2> HIDE DEF Rec
  <2> QED BY <1>0, <2>1, <2>3, <2>5
<1>4. ASSUME NEW c \in Callers, NEW s \in Stages, Complete(c, s) PROVE BudgetTypes'
  <2>1. call' = [call EXCEPT ![c] = CallingFor(s)] /\ ledger' = ledger
    BY <1>4 DEF Complete
  <2>2. CallingFor(s) \in Rec /\ CallingFor(s).stage \in Stages
    BY DEF CallingFor, CallPC
  <2> QED BY <1>0, <2>1, <2>2 DEF BudgetTypes
<1>5. CASE UNCHANGED llmVars
  BY <1>5 DEF BudgetTypes, llmVars
<1> QED BY <1>1, <1>2, <1>3, <1>4, <1>5 DEF LlmNext, CallStep

LEMMA OvershootStep ==
  ASSUME IsFiniteSet(Callers), OvershootInv, [LlmNext]_llmVars
  PROVE  OvershootInv'
<1>0. BudgetTypes'
  BY BudgetTypesKept DEF OvershootInv
<1>1. ASSUME NEW c \in Callers, CallFails(c) PROVE OvershootInv'
  <2>1. /\ call[c].pc = "calling" /\ call'[c].pc = "error" /\ ledger' = ledger
        /\ \A d \in Callers \ {c} : call'[d] = call[d]
    BY <1>1 DEF CallFails, OvershootInv, BudgetTypes
  <2> QED BY <1>0, <2>1, PlainKeeps
<1>2. ASSUME NEW c \in Callers, ReadSums(c) PROVE OvershootInv'
  <2>1. /\ call[c].pc = "calling" /\ call'[c].pc = "locked" /\ ledger' = ledger
        /\ call'[c].day = DayCost /\ LockFree(RunOf[c])
        /\ \A d \in Callers \ {c} : call'[d] = call[d]
    BY <1>2 DEF ReadSums, OvershootInv, BudgetTypes
  <2> QED BY <1>0, <2>1, PlainKeeps
<1>3. ASSUME NEW c \in Callers, Persist(c) PROVE OvershootInv'
  BY <1>0, <1>3, PersistKeeps
<1>4. ASSUME NEW c \in Callers, NEW s \in Stages, Complete(c, s) PROVE OvershootInv'
  <2>1. /\ call[c].pc \in {"idle", "allowed", "error"} /\ call'[c].pc = "calling"
        /\ ledger' = ledger
        /\ \A d \in Callers \ {c} : call'[d] = call[d]
    BY <1>4 DEF Complete, CallingFor, OvershootInv, BudgetTypes
  <2> QED BY <1>0, <2>1, PlainKeeps
<1>5. CASE UNCHANGED llmVars
  <2>1. call' = call /\ ledger' = ledger
    BY <1>5 DEF llmVars
  <2>2. DayCost' = DayCost
    BY <2>1 DEF DayCost, RunCost
  <2>3. \A c \in Callers : Spent(c)' = Spent(c) /\ Others(c)' = Others(c)
    BY <2>1 DEF Spent, Undecided, Others
  <2>4. \A c \in Callers : SpentBy(c)' = SpentBy(c)
    BY <2>3 DEF SpentBy
  <2>5. \A c \in Callers : Undecided(c)' = Undecided(c) /\ LastRead(c)' = LastRead(c)
    BY <2>1, <2>2 DEF Undecided, LastRead, Others
  <2>6. ASSUME NEW c \in Callers, NEW most \in Costs, Within(c, most) PROVE Within(c, most)'
    BY <2>1, <2>2, <2>4, <2>6 DEF Within, Undecided, Others
  <2>7. Accounted'
    BY <2>2, <2>5, <2>6 DEF OvershootInv, Accounted
  <2>8. OneLockEach'
    BY <2>1 DEF OvershootInv, OneLockEach
  <2> QED BY <1>0, <2>7, <2>8 DEF OvershootInv
<1> QED BY <1>1, <1>2, <1>3, <1>4, <1>5 DEF LlmNext, CallStep

LEMMA OvershootInit == LlmInit => OvershootInv
<1> SUFFICES ASSUME LlmInit PROVE OvershootInv
  OBVIOUS
<1>1. NoCall \in [pc: CallPC, stage: Stages \cup {AnyStage}, run: Nat, day: Nat, inStage: Nat]
      /\ NoCall.pc = "idle"
  BY DEF NoCall, CallingFor, CallPC, AnyStage
<1>2. ledger \in [Runs -> [Stages -> Nat]]
  BY DEF LlmInit
<1>3. call \in [Callers -> [pc: CallPC, stage: Stages \cup {AnyStage},
                            run: Nat, day: Nat, inStage: Nat]]
      /\ \A c \in Callers : call[c].pc = "idle"
  BY <1>1 DEF LlmInit
<1> QED BY <1>2, <1>3 DEF OvershootInv, BudgetTypes, OneLockEach, Accounted, Undecided

(* The call that is let through.                                           *)
LEMMA LetThrough ==
  ASSUME IsFiniteSet(Callers), OvershootInv, [LlmNext]_llmVars, NEW c \in Callers,
         call[c].pc = "locked", call'[c].pc = "allowed"
  PROVE  \E most \in Costs : DayCost' < Caps.daily + 2 * most * Cardinality(Others(c))
<1>1. Persist(c)
  <2>1. ASSUME NEW d \in Callers, CallStep(d) \/ \E s \in Stages : Complete(d, s) PROVE d = c
    <3> SUFFICES ASSUME d # c PROVE FALSE
      OBVIOUS
    <3>1. call'[c] = call[c]
      BY <2>1 DEF CallStep, CallFails, ReadSums, Persist, Complete, OvershootInv, BudgetTypes
    <3> QED BY <3>1
  <2>2. ~CallFails(c) /\ ~ReadSums(c) /\ \A s \in Stages : ~Complete(c, s)
    BY DEF CallFails, ReadSums, Complete
  <2>3. ~UNCHANGED llmVars
    BY DEF llmVars
  <2> QED BY <2>1, <2>2, <2>3 DEF LlmNext, CallStep
<1>2. PICK cost \in Costs :
          /\ ledger' = Logged(c, cost)
          /\ call' = [call EXCEPT ![c] = [CallingFor(call[c].stage) EXCEPT !.pc = Evaluate(c, cost)]]
  BY <1>1 DEF Persist
<1>3. call[c].day + cost < Caps.daily /\ Undecided(c)
  <2>1. Evaluate(c, cost) = "allowed"
    BY <1>2 DEF CallingFor, OvershootInv, BudgetTypes
  <2>2. ~(call[c].day + cost >= Caps.daily)
    BY <2>1 DEF Evaluate
  <2>3. cost \in Nat /\ Caps.daily \in Nat /\ call[c].day \in Nat
    BY SpentType, BudgetAssumption DEF OvershootInv
  <2> QED BY <2>2, <2>3 DEF Undecided
<1>4. /\ DayCost' = DayCost + cost /\ DayCost \in Nat /\ Caps.daily \in Nat /\ cost \in Nat
      /\ \A d \in Callers : call[d].day \in Nat
  <2>1. DayCost' = DayCost + cost
    BY <1>2, LoggedDay DEF OvershootInv
  <2> QED BY <2>1, SpentType, BudgetAssumption DEF OvershootInv
<1> DEFINE n == Cardinality(Others(c))
           s == SpentBy(c)
<1>5. /\ n \in Nat /\ s \in Nat /\ s <= 2 * n
      /\ (\E x \in Others(c) : Undecided(x)) => s <= 2 * n - 2
      /\ Others(c) # {} => n >= 1
  BY SpentAtMost, SpentApart DEF OvershootInv
<1> HIDE DEF n, s
<1>6. CASE DayCost < Caps.daily /\ Others(c) = {}
  <2>1. DayCost = call[c].day
    BY <1>3, <1>6 DEF OvershootInv, Accounted, LastRead
  <2>2. 2 * cost * n \in Nat
    BY <1>4, <1>5
  <2> QED BY <1>3, <1>4, <2>1, <2>2 DEF n
<1>7. CASE DayCost < Caps.daily /\ Others(c) # {}
  <2>1. cost * 1 <= cost * (2 * n) /\ cost * 1 = cost /\ cost * (2 * n) = 2 * cost * n
    <3>1. 2 * n \in Nat /\ 1 \in Nat /\ 1 <= 2 * n
      BY <1>5, <1>7
    <3>2. cost * 1 <= cost * (2 * n)
      BY <1>4, <3>1, TimesMonotone
    <3> QED BY <1>4, <1>5, <3>2
  <2>2. 2 * cost * n \in Nat
    BY <1>4, <1>5
  <2> QED BY <1>4, <1>7, <2>1, <2>2 DEF n
<1>8. CASE DayCost >= Caps.daily
  <2>1. PICK m \in Costs : Within(c, m)
    BY <1>3, <1>8 DEF OvershootInv, Accounted
  <2>2. PICK most \in Costs : m <= most /\ cost <= most
    <3>1. m \in Nat /\ cost \in Nat
      BY <1>4, BudgetAssumption
    <3>2. /\ m <= m /\ cost <= cost
          /\ m <= cost \/ cost <= m
      BY <3>1
    <3> QED BY <3>2, Zenon
  <2>3. m \in Nat /\ most \in Nat
    BY BudgetAssumption
  <2>4. most * (2 * n) = 2 * most * n /\ 2 * n \in Nat /\ most * (2 * n) \in Nat
    BY <1>5, <2>3
  <2>5. CASE DayCost <= Caps.daily - 1 + m * (SpentBy(c) - 1)
    <3>1. s >= 1
      <4> SUFFICES ASSUME s = 0 PROVE FALSE
        BY <1>5
      <4>1. DayCost <= Caps.daily - 1 + m * (0 - 1)
        BY <2>5 DEF s
      <4> QED BY <1>4, <1>8, <2>3, <4>1
    <3>2. s - 1 \in Nat /\ (s - 1) + 1 <= 2 * n
      BY <1>5, <3>1
    <3>3. DayCost + cost <= Caps.daily - 1 + most * (2 * n)
      <4>1. Caps.daily - 1 \in Int /\ DayCost <= Caps.daily - 1 + m * (s - 1)
        BY <1>4, <2>5 DEF s
      <4> QED BY <1>4, <2>2, <2>3, <2>4, <3>2, <4>1, OneMore
    <3>4. DayCost' < Caps.daily + 2 * most * n
      BY <1>4, <2>4, <3>3
    <3> QED BY <3>4 DEF n
  <2>6. CASE \E x \in Others(c) \cup {c} :
                Undecided(x) /\ DayCost <= call[x].day + m * SpentBy(c)
    <3>1. PICK x \in Others(c) \cup {c} :
                Undecided(x) /\ DayCost <= call[x].day + m * s
      BY <2>6 DEF s
    <3>2. call[x].day \in Nat /\ call[x].day < Caps.daily
      BY <1>4, <3>1 DEF Undecided, Others
    <3>3. CASE x = c
      <4>1. s * m <= s * most /\ s * m \in Nat /\ most * s <= most * (2 * n) /\ most * s \in Nat
        BY <1>5, <2>2, <2>3, <2>4, TimesMonotone
      <4>2. m * s = s * m /\ most * s = s * most
        BY <1>5, <2>3
      <4>3. DayCost <= call[c].day + m * s
        BY <3>1, <3>3
      <4>4. DayCost' < Caps.daily + 2 * most * n
        BY <1>3, <1>4, <2>4, <4>1, <4>2, <4>3
      <4> QED BY <4>4 DEF n
    <3>4. CASE x # c
      <4>1. s + 1 <= 2 * n
        BY <1>5, <3>1, <3>4
      <4>2. DayCost + cost <= call[x].day + most * (2 * n)
        BY <1>4, <1>5, <2>2, <2>3, <2>4, <3>1, <3>2, <4>1, OneMore
      <4>3. DayCost' < Caps.daily + 2 * most * n
        BY <1>4, <2>4, <3>2, <4>2
      <4> QED BY <4>3 DEF n
    <3> QED BY <3>3, <3>4
  <2> QED BY <2>1, <2>5, <2>6 DEF Within
<1> QED BY <1>4, <1>6, <1>7, <1>8

(* The day's budget, which no lock protects, is passed by no more than two *)
(* calls of each caller of another run (client.py:299), for any runs,      *)
(* callers, caps and costs.                                                *)
THEOREM DayIsBounded ==
  ASSUME IsFiniteSet(Callers)
  PROVE  LlmSpec => DailyOvershoot
<1>1. OvershootInv /\ [LlmNext]_llmVars => OvershootInv'
  BY OvershootStep
<1>2. ASSUME OvershootInv, [LlmNext]_llmVars
      PROVE  [\A c \in Callers :
                call[c].pc = "locked" /\ call'[c].pc = "allowed" =>
                  \E most \in Costs :
                      DayCost' < Caps.daily
                          + 2 * most * Cardinality({d \in Callers : RunOf[d] # RunOf[c]})]_llmVars
  BY <1>2, LetThrough DEF Others
<1> QED BY <1>1, <1>2, OvershootInit, PTL DEF LlmSpec, DailyOvershoot

-----------------------------------------------------------------------------
(***************************************************************************)
(* Ingest: what readers at work on one feed store, for any documents,      *)
(* contents and number of readers. The inductive invariant says for each   *)
(* reader what it has fetched, which row it is about to write, and that a  *)
(* row it has got says what it fetched; for two readers, that none adds    *)
(* the row the other is at.                                                *)
(***************************************************************************)

IngestPCs == {"gather", "next", "fetch", "insert", "lookup", "byhash", "delete", "blocked",
              "deleted", "updated", "new", "failed", "done"}
Stored == {NoRow} \cup {Ingestion(c) : c \in Contents}
IngestTypes ==
    /\ upstream \in [DocSet -> Contents]
    /\ row \in [DocSet -> Stored]
    /\ pc \in [Readers -> IngestPCs]
    /\ todo \in [Readers -> SUBSET DOMAIN Docs]
    /\ payload \in [Readers -> [DocSet -> {Nothing} \cup Contents]]
    /\ cleared \in [Readers -> BOOLEAN] /\ alone \in [Readers -> BOOLEAN]
    /\ got \in [Readers -> SUBSET DocSet] /\ lost \in [Readers -> SUBSET DocSet]
    /\ read \in [Readers -> [DocSet -> Nat]]

(* What a reader is at, it has fetched.                                    *)
HasFetched(r) ==
    /\ pc[r] = "gather" => got[r] = {} /\ lost[r] = {} /\ r \in MacroReaders
    /\ pc[r] = "fetch" => r \notin MacroReaders
    /\ InTransaction(r) => todo[r] # {}
    /\ r \in MacroReaders /\ pc[r] # "gather" =>
          \A i \in todo[r] : payload[r][Docs[i]] \in Contents
    /\ r \notin MacroReaders /\ (pc[r] = "next" \/ InTransaction(r)) =>
          todo[r] # {} /\ Content(r) \in Contents

(* It replaces a row of a live snapshot, and adds one that is missing.     *)
Replacing(r) == pc[r] \in {"delete", "blocked", "deleted", "updated"}
WritesRow(r) ==
    /\ Replacing(r) => Doc(r) \in LiveDocs /\ Exists(Doc(r))
    /\ pc[r] = "new" => ~Exists(Doc(r))

(* It is through with what it has got and lost, and the row of an archival *)
(* document says what it fetched.                                          *)
HasGot(r) ==
    /\ \A i \in todo[r] : Docs[i] \notin lost[r]
    /\ \A e \in got[r] \ LiveDocs :
          /\ Exists(e)
          /\ \E i \in DOMAIN Docs \ todo[r] :
                Docs[i] \notin lost[r] /\ row[e].hash = payload[r][Docs[i]]
    /\ pc[r] = "done" =>
          \A e \in got[r] \ LiveDocs : \E d \in DocSet \ lost[r] : read[r][e] = payload[r][d]

(* What it found in the way is still there if no one else was about.       *)
FindsAgain(r) ==
    alone[r] =>
        /\ pc[r] = "lookup" => Exists(Doc(r)) \/ \E d \in DocSet : row[d].hash = Content(r)
        /\ pc[r] = "byhash" => \E d \in DocSet : row[d].hash = Content(r)
        /\ pc[r] \in {"blocked", "deleted", "updated"} => cleared[r]

ReaderOK(r) == HasFetched(r) /\ WritesRow(r) /\ HasGot(r) /\ FindsAgain(r)

(* Two readers: one of them does not add the row of the other's document,  *)
(* and none of them is in a transaction if the other's had no overlap.     *)
Apart(r, q) ==
    /\ pc[r] = "new" /\ pc[q] \in {"new", "updated"} => Doc(r) # Doc(q)
    /\ alone[r] /\ InTransaction(r) => ~InTransaction(q)

IngestIInv ==
    /\ IngestTypes
    /\ \A r \in Readers : ReaderOK(r)
    /\ \A r, q \in Readers : r # q => Apart(r, q)

LEMMA LeastPlace ==
  ASSUME NEW S \in SUBSET DOMAIN Docs, S # {}
  PROVE  Min(S) \in S
<1>1. S \subseteq Nat
  BY IngestAssumption
<1>2. \E x \in S : \A y \in S : x <= y
  BY <1>1, LeastNatural
<1> QED BY <1>2 DEF Min

(* The document a reader is at, in a transaction or about to begin one.    *)
LEMMA AtDoc ==
  ASSUME IngestTypes, NEW r \in Readers, HasFetched(r), todo[r] # {}
  PROVE  /\ Min(todo[r]) \in todo[r] /\ Doc(r) \in DocSet
         /\ Rest(r) = todo[r] \ {Min(todo[r])} /\ Min(todo[r]) \in DOMAIN Docs
         /\ Doc(r) = Docs[Min(todo[r])]
         /\ InTransaction(r) => Content(r) \in Contents
<1>1. todo[r] \in SUBSET DOMAIN Docs
  BY DEF IngestTypes
<1>2. Min(todo[r]) \in todo[r]
  BY <1>1, LeastPlace
<1>3. Doc(r) = Docs[Min(todo[r])] /\ Doc(r) \in DocSet
  BY <1>1, <1>2 DEF Doc, DocSet, Range
<1>4. InTransaction(r) => Content(r) \in Contents
  BY <1>2, <1>3 DEF HasFetched, Content, InTransaction
<1> QED BY <1>1, <1>2, <1>3, <1>4 DEF Rest

LEMMA StoredRows ==
  /\ \A x \in Stored : x = NoRow \/ (x.hash \in Contents /\ x.chunks = x.hash)
  /\ \A c \in Contents : Ingestion(c) \in Stored /\ Ingestion(c) # NoRow
                         /\ Ingestion(c).hash = c /\ c # Nothing
  /\ \A x \in Stored : x # NoRow <=> x.hash # Nothing
  /\ \A x \in Stored : x.chunks = x.hash
<1>1. ASSUME NEW c \in Contents
      PROVE  /\ Ingestion(c) \in Stored /\ Ingestion(c) # NoRow /\ Ingestion(c).hash = c
             /\ Ingestion(c).chunks = c /\ c # Nothing
  <2>1. c # Nothing
    BY IngestAssumption DEF Nothing
  <2>2. Ingestion(c).hash = c /\ Ingestion(c).chunks = c /\ NoRow.hash = Nothing
    BY DEF Ingestion, NoRow
  <2>3. Ingestion(c) # NoRow
    BY <2>1, <2>2
  <2> QED BY <2>1, <2>2, <2>3 DEF Stored
<1>2. NoRow.hash = Nothing /\ NoRow.chunks = Nothing
  BY DEF NoRow
<1>3. \A x \in Stored : x = NoRow \/ \E c \in Contents : x = Ingestion(c)
  BY DEF Stored
<1> QED BY <1>1, <1>2, <1>3, Zenon

(* The others, when a reader's step leaves the rows alone.                 *)
LEMMA OthersKeep ==
  ASSUME NEW r \in Readers, ReaderOK(r), row' = row, pc'[r] = pc[r], todo'[r] = todo[r],
         payload'[r] = payload[r], got'[r] = got[r], lost'[r] = lost[r], read'[r] = read[r],
         alone'[r] => alone[r], cleared'[r] = cleared[r]
  PROVE  ReaderOK(r)'
<1>1. Doc(r)' = Doc(r) /\ Content(r)' = Content(r)
  BY DEF Doc, Content
<1>2. HasFetched(r)'
  BY <1>1 DEF ReaderOK, HasFetched, InTransaction
<1>3. WritesRow(r)'
  BY <1>1 DEF ReaderOK, WritesRow, Replacing, Exists
<1>4. HasGot(r)'
  BY DEF ReaderOK, HasGot, Exists
<1>5. FindsAgain(r)'
  BY <1>1 DEF ReaderOK, FindsAgain, Exists
<1> QED BY <1>2, <1>3, <1>4, <1>5 DEF ReaderOK

LEMMA ApartKeeps ==
  ASSUME \A r, q \in Readers : r # q => Apart(r, q),
         \A r \in Readers : (InTransaction(r)' => InTransaction(r)) /\ (alone'[r] => alone[r])
                            /\ (pc'[r] \in {"new", "updated"} =>
                                   pc'[r] = pc[r] /\ todo'[r] = todo[r])
  PROVE  \A r, q \in Readers : r # q => Apart(r, q)'
<1> SUFFICES ASSUME NEW r \in Readers, NEW q \in Readers, r # q
             PROVE  Apart(r, q)'
  OBVIOUS
<1>1. pc'[r] = "new" /\ pc'[q] \in {"new", "updated"} => Doc(r)' # Doc(q)'
  BY DEF Apart, Doc
<1>2. alone'[r] /\ InTransaction(r)' => ~InTransaction(q)'
  BY DEF Apart
<1> QED BY <1>1, <1>2 DEF Apart

(* The transaction of y ends well or is rolled back.                       *)
LEMMA IngestedKeeps ==
  ASSUME IngestTypes, NEW y \in Readers, ReaderOK(y), InTransaction(y), NEW e \in DocSet,
         Ingested(y, e), row' \in [DocSet -> Stored], row'[e].hash = Content(y),
         \A x \in got[y] \ LiveDocs : row'[x] = row[x]
  PROVE  ReaderOK(y)'
<1>1. todo[y] # {}
  BY DEF ReaderOK, HasFetched
<1>2. /\ Min(todo[y]) \in todo[y] /\ Content(y) \in Contents /\ Min(todo[y]) \in DOMAIN Docs
      /\ Rest(y) = todo[y] \ {Min(todo[y])} /\ Doc(y) = Docs[Min(todo[y])]
  BY <1>1, AtDoc DEF ReaderOK
<1>3. /\ got'[y] = got[y] \cup {e} /\ todo'[y] = Rest(y) /\ pc'[y] = After(y)
      /\ payload' = payload /\ lost' = lost /\ read' = read
  BY DEF Ingested, IngestTypes
<1>4. HasFetched(y)'
  <2>1. pc[y] # "gather"
    BY DEF InTransaction
  <2>2. CASE y \in MacroReaders
    <3>1. pc'[y] = "next" /\ ~InTransaction(y)'
      BY <1>3, <2>2 DEF After, InTransaction
    <3> QED BY <1>2, <1>3, <2>1, <2>2, <3>1 DEF HasFetched, ReaderOK
  <2>3. CASE y \notin MacroReaders
    <3>1. pc'[y] = "fetch" /\ ~InTransaction(y)'
      BY <1>3, <2>3 DEF After, InTransaction
    <3> QED BY <2>3, <3>1 DEF HasFetched
  <2> QED BY <2>2, <2>3
<1>5. pc'[y] \in {"next", "fetch"}
  BY <1>3 DEF After
<1>6. WritesRow(y)' /\ FindsAgain(y)'
  BY <1>5 DEF WritesRow, Replacing, FindsAgain
<1>7. HasGot(y)'
  <2>1. \A i \in todo'[y] : Docs[i] \notin lost'[y]
    BY <1>2, <1>3 DEF ReaderOK, HasGot
  <2>2. ASSUME NEW x \in got'[y] \ LiveDocs
        PROVE  /\ row'[x] # NoRow
               /\ \E i \in DOMAIN Docs \ todo'[y] :
                     Docs[i] \notin lost'[y] /\ row'[x].hash = payload'[y][Docs[i]]
    <3>1. CASE x = e
      <4>1. row'[x] \in Stored /\ row'[x].hash \in Contents
        BY <1>2, <3>1
      <4>2. row'[x] # NoRow
        BY <4>1, StoredRows
      <4>3. /\ Min(todo[y]) \in DOMAIN Docs \ todo'[y] /\ Docs[Min(todo[y])] \notin lost'[y]
            /\ row'[x].hash = payload'[y][Docs[Min(todo[y])]]
        BY <1>2, <1>3, <3>1 DEF ReaderOK, HasGot, Content
      <4> QED BY <4>2, <4>3
    <3>2. CASE x # e
      <4>1. x \in got[y] \ LiveDocs
        BY <1>3, <3>2
      <4>2. Exists(x) /\ row'[x] = row[x]
        BY <4>1 DEF ReaderOK, HasGot
      <4>3. PICK i \in DOMAIN Docs \ todo[y] :
                Docs[i] \notin lost[y] /\ row[x].hash = payload[y][Docs[i]]
        BY <4>1 DEF ReaderOK, HasGot
      <4>4. i \in DOMAIN Docs \ todo'[y]
        BY <1>2, <1>3, <4>3
      <4> QED BY <1>3, <4>2, <4>3, <4>4 DEF Exists
    <3> QED BY <3>1, <3>2
  <2> QED BY <1>5, <2>1, <2>2 DEF HasGot, Exists
<1> QED BY <1>4, <1>6, <1>7 DEF ReaderOK

LEMMA RaisedKeeps ==
  ASSUME IngestTypes, NEW y \in Readers, ReaderOK(y), InTransaction(y), Raised(y)
  PROVE  ReaderOK(y)'
<1>1. todo[y] # {}
  BY DEF ReaderOK, HasFetched
<1>2. /\ Min(todo[y]) \in todo[y] /\ Min(todo[y]) \in DOMAIN Docs
      /\ Rest(y) = todo[y] \ {Min(todo[y])} /\ Doc(y) = Docs[Min(todo[y])]
  BY <1>1, AtDoc DEF ReaderOK
<1>3. /\ lost'[y] = lost[y] \cup {Doc(y)} /\ todo'[y] = Rest(y)
      /\ pc'[y] = IF y \in MacroReaders THEN "failed" ELSE "fetch"
      /\ payload' = payload /\ got' = got /\ read' = read /\ row' = row
  BY DEF Raised, IngestTypes
<1>4. HasFetched(y)'
  <2>1. pc'[y] \notin {"gather", "next"} /\ ~InTransaction(y)' /\ pc[y] # "gather"
    BY <1>3 DEF InTransaction
  <2>2. pc'[y] = "fetch" => y \notin MacroReaders
    BY <1>3
  <2>3. y \in MacroReaders => \A i \in todo'[y] : payload'[y][Docs[i]] \in Contents
    BY <1>2, <1>3, <2>1 DEF ReaderOK, HasFetched
  <2> QED BY <2>1, <2>2, <2>3 DEF HasFetched
<1>5. pc'[y] \in {"failed", "fetch"}
  BY <1>3
<1>6. WritesRow(y)' /\ FindsAgain(y)'
  BY <1>5 DEF WritesRow, Replacing, FindsAgain
<1>7. HasGot(y)'
  <2>0. \A i, j \in DOMAIN Docs : i # j => Docs[i] # Docs[j]
    BY IngestAssumption DEF IsInjective
  <2>00. todo[y] \subseteq DOMAIN Docs
    BY DEF IngestTypes
  <2>1. ASSUME NEW i \in todo'[y] PROVE Docs[i] \notin lost'[y]
    <3>1. i \in todo[y] /\ i # Min(todo[y]) /\ i \in DOMAIN Docs
      BY <1>2, <1>3, <2>00
    <3>2. Docs[i] \notin lost[y]
      BY <3>1 DEF ReaderOK, HasGot
    <3> QED BY <1>2, <1>3, <2>0, <3>1, <3>2
  <2>2. ASSUME NEW x \in got'[y] \ LiveDocs
        PROVE  /\ row'[x] # NoRow
               /\ \E i \in DOMAIN Docs \ todo'[y] :
                     Docs[i] \notin lost'[y] /\ row'[x].hash = payload'[y][Docs[i]]
    <3>1. x \in got[y] \ LiveDocs
      BY <1>3
    <3>2. PICK i \in DOMAIN Docs \ todo[y] :
              Docs[i] \notin lost[y] /\ row[x].hash = payload[y][Docs[i]]
      BY <3>1 DEF ReaderOK, HasGot
    <3>3. i # Min(todo[y]) /\ Docs[i] # Doc(y)
      BY <1>2, <2>0, <3>2
    <3>4. i \in DOMAIN Docs \ todo'[y] /\ Docs[i] \notin lost'[y]
      BY <1>2, <1>3, <3>2, <3>3
    <3> QED BY <1>3, <3>1, <3>2, <3>4 DEF ReaderOK, HasGot, Exists
  <2> QED BY <1>5, <2>1, <2>2 DEF HasGot, Exists
<1> QED BY <1>4, <1>6, <1>7 DEF ReaderOK

-----------------------------------------------------------------------------
(* A step of reader y that leaves rows and overlaps alone, and begins no   *)
(* write of a row.                                                         *)
Quietly(y) ==
    /\ row' = row /\ alone' = alone
    /\ \A r \in Readers \ {y} :
          /\ pc'[r] = pc[r] /\ todo'[r] = todo[r] /\ payload'[r] = payload[r]
          /\ got'[r] = got[r] /\ lost'[r] = lost[r] /\ read'[r] = read[r]
          /\ cleared'[r] = cleared[r]
    /\ InTransaction(y)' => InTransaction(y)

LEMMA QuietStep ==
  ASSUME IngestIInv, NEW y \in Readers, Quietly(y), IngestTypes', ReaderOK(y)',
         pc'[y] \in {"new", "updated"} => pc'[y] = pc[y] /\ todo'[y] = todo[y]
  PROVE  IngestIInv'
<1>1. \A r \in Readers : ReaderOK(r)'
  <2> SUFFICES ASSUME NEW r \in Readers, r # y PROVE ReaderOK(r)'
    OBVIOUS
  <2> QED BY OthersKeep DEF Quietly, IngestIInv
<1>2. \A r \in Readers : (InTransaction(r)' => InTransaction(r)) /\ (alone'[r] => alone[r])
                         /\ (pc'[r] \in {"new", "updated"} =>
                                pc'[r] = pc[r] /\ todo'[r] = todo[r])
  BY DEF Quietly, InTransaction
<1>3. \A r, q \in Readers : r # q => Apart(r, q)'
  BY <1>2, ApartKeeps DEF IngestIInv
<1> QED BY <1>1, <1>3 DEF IngestIInv

LEMMA PublishKeeps ==
  ASSUME IngestIInv, NEW d \in DocSet, Publish(d)
  PROVE  IngestIInv'
<1>1. /\ row' = row /\ pc' = pc /\ todo' = todo /\ payload' = payload /\ cleared' = cleared
      /\ got' = got /\ lost' = lost /\ read' = read /\ alone' = alone
      /\ upstream' \in [DocSet -> Contents]
  BY DEF Publish, IngestIInv, IngestTypes
<1>2. IngestTypes'
  BY <1>1 DEF IngestIInv, IngestTypes
<1>3. \A r \in Readers : ReaderOK(r)'
  BY <1>1, OthersKeep DEF IngestIInv
<1>4. \A r, q \in Readers : r # q => Apart(r, q)'
  BY <1>1, ApartKeeps DEF IngestIInv, InTransaction
<1> QED BY <1>2, <1>3, <1>4 DEF IngestIInv

LEMMA GatherKeeps ==
  ASSUME IngestIInv, NEW y \in Readers, Gather(y)
  PROVE  IngestIInv'
<1>1. PICK answered \in SUBSET DocSet :
         /\ payload' = [payload EXCEPT ![y] = [d \in DocSet |-> IF d \in answered THEN upstream[d] ELSE Nothing]]
         /\ todo' = [todo EXCEPT ![y] = {i \in @ : Docs[i] \in answered}]
  BY DEF Gather
<1>2. /\ pc[y] = "gather" /\ pc' = [pc EXCEPT ![y] = "next"] /\ upstream' = upstream
      /\ row' = row /\ cleared' = cleared /\ got' = got /\ lost' = lost /\ read' = read
      /\ alone' = alone
  BY DEF Gather
<1>3. /\ pc'[y] = "next" /\ todo'[y] = {i \in todo[y] : Docs[i] \in answered}
      /\ payload'[y] = [d \in DocSet |-> IF d \in answered THEN upstream[d] ELSE Nothing]
  BY <1>1, <1>2 DEF IngestIInv, IngestTypes
<1>4. IngestTypes'
  <2>1. payload'[y] \in [DocSet -> {Nothing} \cup Contents]
    BY <1>3 DEF IngestIInv, IngestTypes
  <2>2. todo'[y] \in SUBSET DOMAIN Docs
    BY <1>3 DEF IngestIInv, IngestTypes
  <2>3. payload' \in [Readers -> [DocSet -> {Nothing} \cup Contents]]
    BY <1>1, <2>1, <1>3 DEF IngestIInv, IngestTypes
  <2>4. todo' \in [Readers -> SUBSET DOMAIN Docs]
    BY <1>1, <2>2, <1>3 DEF IngestIInv, IngestTypes
  <2>5. pc' \in [Readers -> IngestPCs]
    BY <1>2 DEF IngestIInv, IngestTypes, IngestPCs
  <2> QED BY <1>2, <2>3, <2>4, <2>5 DEF IngestIInv, IngestTypes
<1>5. y \in MacroReaders /\ got[y] = {} /\ lost[y] = {}
  BY <1>2 DEF IngestIInv, ReaderOK, HasFetched
<1>6. HasFetched(y)'
  <2>1. \A i \in todo'[y] : payload'[y][Docs[i]] \in Contents
    BY <1>3 DEF IngestIInv, IngestTypes, DocSet, Range
  <2> QED BY <1>3, <1>5, <2>1 DEF HasFetched, InTransaction
<1>7. WritesRow(y)' /\ FindsAgain(y)' /\ HasGot(y)'
  BY <1>2, <1>3, <1>5 DEF WritesRow, Replacing, FindsAgain, HasGot
<1>8. Quietly(y)
  BY <1>1, <1>2, <1>3 DEF Quietly, InTransaction, IngestIInv, IngestTypes
<1> QED BY <1>3, <1>4, <1>6, <1>7, <1>8, QuietStep DEF ReaderOK

LEMMA FetchKeeps ==
  ASSUME IngestIInv, NEW y \in Readers, Fetch(y)
  PROVE  IngestIInv'
<1>1. /\ pc[y] = "fetch" /\ todo[y] # {} /\ y \notin MacroReaders /\ upstream' = upstream
      /\ row' = row /\ cleared' = cleared /\ got' = got /\ lost' = lost /\ read' = read
      /\ alone' = alone
  BY DEF Fetch, IngestIInv, ReaderOK, HasFetched
<1>2. /\ Min(todo[y]) \in todo[y] /\ Min(todo[y]) \in DOMAIN Docs /\ Doc(y) \in DocSet
      /\ Rest(y) = todo[y] \ {Min(todo[y])} /\ Doc(y) = Docs[Min(todo[y])]
  BY <1>1, AtDoc DEF IngestIInv, ReaderOK
<1>3. CASE /\ payload' = [payload EXCEPT ![y][Doc(y)] = upstream[Doc(y)]]
           /\ pc' = [pc EXCEPT ![y] = "next"] /\ todo' = todo
  <2>1. /\ pc'[y] = "next" /\ payload'[y] = [payload[y] EXCEPT ![Doc(y)] = upstream[Doc(y)]]
        /\ Doc(y)' = Doc(y)
    BY <1>3 DEF IngestIInv, IngestTypes, Doc
  <2>2. IngestTypes'
    <3>1. payload'[y] \in [DocSet -> {Nothing} \cup Contents]
      BY <1>2, <2>1 DEF IngestIInv, IngestTypes
    <3>2. payload' \in [Readers -> [DocSet -> {Nothing} \cup Contents]]
      BY <1>3, <2>1, <3>1 DEF IngestIInv, IngestTypes
    <3> QED BY <1>1, <1>3, <3>2 DEF IngestIInv, IngestTypes, IngestPCs
  <2>3. HasFetched(y)'
    <3>1. payload'[y][Doc(y)] = upstream[Doc(y)] /\ upstream[Doc(y)] \in Contents
      BY <1>2, <2>1 DEF IngestIInv, IngestTypes
    <3> QED BY <1>1, <1>3, <2>1, <3>1 DEF HasFetched, Content, InTransaction
  <2>4. WritesRow(y)' /\ FindsAgain(y)'
    BY <2>1 DEF WritesRow, Replacing, FindsAgain
  <2>5. HasGot(y)'
    <3>1. \A i \in DOMAIN Docs \ todo[y] : payload'[y][Docs[i]] = payload[y][Docs[i]]
      <4>1. \A i, j \in DOMAIN Docs : i # j => Docs[i] # Docs[j]
        BY IngestAssumption DEF IsInjective
      <4>2. \A i \in DOMAIN Docs \ todo[y] : Docs[i] # Doc(y) /\ Docs[i] \in DocSet
        BY <1>2, <4>1 DEF DocSet, Range
      <4> QED BY <2>1, <4>2 DEF IngestIInv, IngestTypes
    <3> QED BY <1>1, <1>3, <2>1, <3>1 DEF HasGot, IngestIInv, ReaderOK, Exists
  <2>6. Quietly(y)
    BY <1>1, <1>3, <2>1 DEF Quietly, InTransaction, IngestIInv, IngestTypes
  <2> QED BY <2>1, <2>2, <2>3, <2>4, <2>5, <2>6, QuietStep DEF ReaderOK
<1>4. CASE todo' = [todo EXCEPT ![y] = Rest(y)] /\ payload' = payload /\ pc' = pc
  <2>1. todo'[y] = Rest(y)
    BY <1>4 DEF IngestIInv, IngestTypes
  <2>2. IngestTypes'
    <3>1. todo'[y] \in SUBSET DOMAIN Docs
      BY <1>2, <2>1 DEF IngestIInv, IngestTypes
    <3>2. todo' \in [Readers -> SUBSET DOMAIN Docs]
      BY <1>4, <2>1, <3>1 DEF IngestIInv, IngestTypes
    <3> QED BY <1>1, <1>4, <3>2 DEF IngestIInv, IngestTypes
  <2>3. HasFetched(y)' /\ WritesRow(y)' /\ FindsAgain(y)'
    BY <1>1, <1>4 DEF HasFetched, WritesRow, Replacing, FindsAgain, InTransaction
  <2>4. HasGot(y)'
    BY <1>1, <1>2, <1>4, <2>1 DEF HasGot, IngestIInv, ReaderOK, Exists
  <2>5. Quietly(y)
    BY <1>1, <1>4, <2>1 DEF Quietly, InTransaction, IngestIInv, IngestTypes
  <2> QED BY <1>1, <1>4, <2>2, <2>3, <2>4, <2>5, QuietStep DEF ReaderOK
<1> QED BY <1>3, <1>4 DEF Fetch

(* A transaction that goes on: only its step changes, and what is cleared. *)
LEMMA GoesOn ==
  ASSUME IngestIInv, NEW y \in Readers, InTransaction(y),
         NEW next \in {"lookup", "byhash", "delete", "blocked", "deleted"},
         pc' = [pc EXCEPT ![y] = next], cleared' \in [Readers -> BOOLEAN],
         \A r \in Readers \ {y} : cleared'[r] = cleared[r],
         UNCHANGED <<upstream, row, todo, payload, got, lost, read, alone, published>>,
         next \in {"delete", "blocked", "deleted"} => Doc(y) \in LiveDocs /\ Exists(Doc(y)),
         FindsAgain(y)'
  PROVE  IngestIInv'
<1>1. pc'[y] = next /\ (\A r \in Readers \ {y} : pc'[r] = pc[r]) /\ next \in IngestPCs
  BY DEF IngestIInv, IngestTypes, IngestPCs
<1>2. IngestTypes'
  BY <1>1 DEF IngestIInv, IngestTypes
<1>3. HasFetched(y) /\ InTransaction(y)' /\ pc[y] # "gather"
  BY <1>1 DEF IngestIInv, ReaderOK, InTransaction
<1>4. HasFetched(y)'
  BY <1>1, <1>3 DEF HasFetched, Content, Doc
<1>5. WritesRow(y)' /\ HasGot(y)'
  BY <1>1 DEF WritesRow, Replacing, HasGot, Exists, Doc, IngestIInv, ReaderOK
<1>6. Quietly(y)
  BY <1>1 DEF Quietly
<1> QED BY <1>1, <1>2, <1>4, <1>5, <1>6, QuietStep DEF ReaderOK

LEMMA BeginKeeps ==
  ASSUME IngestIInv, NEW y \in Readers, Begin(y)
  PROVE  IngestIInv'
<1> DEFINE others == {q \in Readers \ {y} : InTransaction(q)}
<1>1. /\ pc[y] = "next" /\ todo[y] # {} /\ pc' = [pc EXCEPT ![y] = "insert"]
      /\ alone' = [q \in Readers |->
                      IF q = y THEN alone[y] /\ others = {} ELSE alone[q] /\ q \notin others]
      /\ upstream' = upstream /\ row' = row /\ todo' = todo /\ payload' = payload
      /\ cleared' = cleared /\ got' = got /\ lost' = lost /\ read' = read
  BY DEF Begin
<1>2. pc'[y] = "insert" /\ \A r \in Readers \ {y} : pc'[r] = pc[r]
  BY <1>1 DEF IngestIInv, IngestTypes
<1>3. /\ alone'[y] => alone[y] /\ others = {}
      /\ \A q \in Readers \ {y} : alone'[q] => alone[q] /\ q \notin others
  BY <1>1
<1>4. IngestTypes'
  <2>1. alone' \in [Readers -> BOOLEAN]
    <3>1. \A q \in Readers : alone[q] \in BOOLEAN
      BY DEF IngestIInv, IngestTypes
    <3> QED BY <1>1, <3>1
  <2>2. pc' \in [Readers -> IngestPCs]
    BY <1>1 DEF IngestIInv, IngestTypes, IngestPCs
  <2> QED BY <1>1, <2>1, <2>2 DEF IngestIInv, IngestTypes
<1>5. ReaderOK(y)'
  <2>1. Content(y)' = Content(y) /\ InTransaction(y)'
    BY <1>1, <1>2 DEF Content, Doc, InTransaction
  <2>2. HasFetched(y)'
    BY <1>1, <1>2, <2>1 DEF HasFetched, IngestIInv, ReaderOK
  <2>3. WritesRow(y)' /\ FindsAgain(y)'
    BY <1>2 DEF WritesRow, Replacing, FindsAgain
  <2>4. HasGot(y)'
    BY <1>1, <1>2 DEF HasGot, IngestIInv, ReaderOK, Exists
  <2> QED BY <2>2, <2>3, <2>4 DEF ReaderOK
<1>6. \A r \in Readers : ReaderOK(r)'
  <2> SUFFICES ASSUME NEW r \in Readers, r # y PROVE ReaderOK(r)'
    BY <1>5
  <2>1. alone'[r] => alone[r]
    BY <1>3
  <2> QED BY <1>1, <1>2, <2>1, OthersKeep DEF IngestIInv
<1>7. ASSUME NEW r \in Readers, NEW q \in Readers, r # q PROVE Apart(r, q)'
  <2>1. pc'[r] = "new" /\ pc'[q] \in {"new", "updated"} => Doc(r)' # Doc(q)'
    BY <1>1, <1>2, <1>7 DEF Doc, IngestIInv, Apart
  <2>2. alone'[r] /\ InTransaction(r)' => ~InTransaction(q)'
    <3>1. CASE r = y
      BY <1>2, <1>3, <1>7, <3>1 DEF InTransaction
    <3>2. CASE r # y
      <4>1. alone'[r] => alone[r] /\ ~InTransaction(r)
        BY <1>3, <3>2
      <4>2. InTransaction(r)' => InTransaction(r)
        BY <1>2, <3>2 DEF InTransaction
      <4> QED BY <4>1, <4>2
    <3> QED BY <3>1, <3>2
  <2> QED BY <2>1, <2>2 DEF Apart
<1> QED BY <1>4, <1>6, <1>7 DEF IngestIInv

(* A row is written in a transaction: new or updated, apart from the others.*)
LEMMA WriteBegins ==
  ASSUME IngestIInv, NEW y \in Readers, InTransaction(y), NEW next \in {"new", "updated"},
         pc' = [pc EXCEPT ![y] = next], Replacing(y) \/ pc[y] = "insert",
         UNCHANGED <<upstream, row, todo, payload, cleared, got, lost, read, alone, published>>,
         next = "updated" => pc[y] = "deleted",
         next = "new" => pc[y] = "insert" /\ ~Exists(Doc(y)),
         \A q \in Readers \ {y} : ~Holds(q, Doc(y), Content(y))
  PROVE  IngestIInv'
<1>1. pc'[y] = next /\ (\A r \in Readers \ {y} : pc'[r] = pc[r]) /\ next \in IngestPCs
  BY DEF IngestIInv, IngestTypes, IngestPCs
<1>2. IngestTypes'
  BY <1>1 DEF IngestIInv, IngestTypes
<1>3. HasFetched(y) /\ InTransaction(y)' /\ pc[y] # "gather"
  BY <1>1 DEF IngestIInv, ReaderOK, InTransaction
<1>4. HasFetched(y)'
  BY <1>1, <1>3 DEF HasFetched, Content, Doc
<1>5. WritesRow(y)' /\ HasGot(y)'
  BY <1>1 DEF WritesRow, Replacing, HasGot, Exists, Doc, IngestIInv, ReaderOK
<1>6. FindsAgain(y)'
  BY <1>1 DEF FindsAgain, Exists, Doc, Content, IngestIInv, ReaderOK
<1>7. \A r \in Readers : ReaderOK(r)'
  <2> SUFFICES ASSUME NEW r \in Readers, r # y PROVE ReaderOK(r)'
    BY <1>4, <1>5, <1>6 DEF ReaderOK
  <2> QED BY <1>1, OthersKeep DEF IngestIInv
<1>8. ASSUME NEW r \in Readers, NEW q \in Readers, r # q PROVE Apart(r, q)'
  <2>1. \A p \in Readers : Doc(p)' = Doc(p)
    BY DEF Doc
  <2>2. \A p \in Readers \ {y} : pc[p] \in {"new", "updated"} => Doc(p) # Doc(y)
    BY DEF Holds
  <2>3. pc'[r] = "new" /\ pc'[q] \in {"new", "updated"} => Doc(r)' # Doc(q)'
    <3>1. CASE r = y
      BY <1>1, <1>8, <2>1, <2>2, <3>1
    <3>2. CASE q = y
      BY <1>1, <1>8, <2>1, <2>2, <3>2
    <3>3. CASE r # y /\ q # y
      BY <1>1, <1>8, <2>1, <3>3 DEF IngestIInv, Apart
    <3> QED BY <3>1, <3>2, <3>3
  <2>4. \A p \in Readers : InTransaction(p)' <=> InTransaction(p)
    BY <1>1, <1>3 DEF InTransaction
  <2>5. alone'[r] /\ InTransaction(r)' => ~InTransaction(q)'
    BY <1>8, <2>4 DEF IngestIInv, Apart
  <2> QED BY <2>3, <2>5 DEF Apart
<1> QED BY <1>2, <1>7, <1>8 DEF IngestIInv

LEMMA InsertKeeps ==
  ASSUME IngestIInv, NEW y \in Readers, Insert(y)
  PROVE  IngestIInv'
<1> DEFINE clash == Exists(Doc(y)) \/ \E d \in DocSet : row[d].hash = Content(y)
<1>1. /\ pc[y] = "insert" /\ \A q \in Readers \ {y} : ~Holds(q, Doc(y), Content(y))
      /\ pc' = [pc EXCEPT ![y] = IF clash THEN "lookup" ELSE "new"]
      /\ UNCHANGED <<upstream, row, todo, payload, cleared, got, lost, read, alone, published>>
  BY DEF Insert
<1>2. InTransaction(y)
  BY <1>1 DEF InTransaction
<1>3. CASE clash
  <2>1. pc' = [pc EXCEPT ![y] = "lookup"] /\ pc'[y] = "lookup"
    BY <1>1, <1>3 DEF IngestIInv, IngestTypes
  <2>2. FindsAgain(y)'
    BY <1>1, <1>3, <2>1 DEF FindsAgain, Exists, Doc, Content
  <2>3. cleared' \in [Readers -> BOOLEAN]
    BY <1>1 DEF IngestIInv, IngestTypes
  <2> QED BY <1>1, <1>2, <2>1, <2>2, <2>3, GoesOn
<1>4. CASE ~clash
  <2>1. pc' = [pc EXCEPT ![y] = "new"] /\ ~Exists(Doc(y))
    BY <1>1, <1>4
  <2> QED BY <1>1, <1>2, <2>1, WriteBegins
<1> QED BY <1>3, <1>4

(* The end of a transaction that leaves the rows alone.                    *)
LEMMA EndsQuietly ==
  ASSUME IngestIInv, NEW y \in Readers, InTransaction(y), row' = row, cleared' = cleared,
         \/ Raised(y)
         \/ \E e \in DocSet : Ingested(y, e) /\ row[e].hash = Content(y)
  PROVE  IngestIInv'
<1>1. todo[y] # {}
  BY DEF IngestIInv, ReaderOK, HasFetched
<1>2. Rest(y) \in SUBSET DOMAIN Docs /\ Doc(y) \in DocSet
  BY <1>1, AtDoc DEF IngestIInv, ReaderOK, IngestTypes
<1>3. CASE Raised(y)
  <2>1. ReaderOK(y)'
    BY <1>3, RaisedKeeps DEF IngestIInv
  <2>2. IngestTypes'
    <3>1. todo' \in [Readers -> SUBSET DOMAIN Docs]
      BY <1>2, <1>3 DEF Raised, IngestIInv, IngestTypes
    <3>2. lost' \in [Readers -> SUBSET DocSet]
      BY <1>2, <1>3 DEF Raised, IngestIInv, IngestTypes
    <3> QED BY <1>3, <3>1, <3>2 DEF Raised, IngestIInv, IngestTypes, IngestPCs
  <2>3. pc'[y] \in {"failed", "fetch"} /\ Quietly(y)
    BY <1>3 DEF Raised, Quietly, InTransaction, IngestIInv, IngestTypes
  <2> QED BY <2>1, <2>2, <2>3, QuietStep
<1>4. CASE \E e \in DocSet : Ingested(y, e) /\ row[e].hash = Content(y)
  <2>1. PICK e \in DocSet : Ingested(y, e) /\ row[e].hash = Content(y)
    BY <1>4
  <2>2. ReaderOK(y)'
    BY <2>1, IngestedKeeps DEF IngestIInv, IngestTypes
  <2>3. IngestTypes'
    <3>1. todo' \in [Readers -> SUBSET DOMAIN Docs]
      BY <1>2, <2>1 DEF Ingested, IngestIInv, IngestTypes
    <3>2. got' \in [Readers -> SUBSET DocSet]
      BY <2>1 DEF Ingested, IngestIInv, IngestTypes
    <3>3. pc' \in [Readers -> IngestPCs]
      BY <2>1 DEF Ingested, After, IngestIInv, IngestTypes, IngestPCs
    <3> QED BY <2>1, <3>1, <3>2, <3>3 DEF Ingested, IngestIInv, IngestTypes
  <2>4. pc'[y] \in {"next", "fetch"} /\ Quietly(y)
    BY <2>1 DEF Ingested, After, Quietly, InTransaction, IngestIInv, IngestTypes
  <2> QED BY <2>2, <2>3, <2>4, QuietStep
<1> QED BY <1>3, <1>4

LEMMA LookupKeeps ==
  ASSUME IngestIInv, NEW y \in Readers, Lookup(y)
  PROVE  IngestIInv'
<1>1. pc[y] = "lookup" /\ InTransaction(y)
  BY DEF Lookup, InTransaction
<1>2. todo[y] # {} /\ Doc(y) \in DocSet
  BY <1>1, AtDoc DEF IngestIInv, ReaderOK, HasFetched
<1>3. CASE Exists(Doc(y)) /\ row[Doc(y)].hash = Content(y)
  <2>1. Ingested(y, Doc(y)) /\ UNCHANGED <<row, cleared>>
    BY <1>3 DEF Lookup
  <2> QED BY <1>1, <1>2, <1>3, <2>1, EndsQuietly
<1>4. CASE Exists(Doc(y)) /\ row[Doc(y)].hash # Content(y) /\ Doc(y) \notin LiveDocs
  <2>1. Raised(y) /\ UNCHANGED <<row, cleared>>
    BY <1>4 DEF Lookup, Raised
  <2> QED BY <1>1, <2>1, EndsQuietly
<1>5. CASE /\ ~(Exists(Doc(y)) /\ row[Doc(y)].hash = Content(y))
           /\ ~(Exists(Doc(y)) /\ row[Doc(y)].hash # Content(y) /\ Doc(y) \notin LiveDocs)
  <2> DEFINE next == IF Exists(Doc(y)) THEN "delete" ELSE "byhash"
  <2>1. /\ pc' = [pc EXCEPT ![y] = next]
        /\ UNCHANGED <<upstream, row, todo, payload, cleared, got, lost, read, alone, published>>
    BY <1>5 DEF Lookup
  <2>2. pc'[y] = next /\ (next = "delete" => Doc(y) \in LiveDocs /\ Exists(Doc(y)))
    BY <1>5, <2>1 DEF IngestIInv, IngestTypes
  <2>3. FindsAgain(y)'
    BY <1>1, <2>1, <2>2 DEF FindsAgain, Exists, Doc, Content, IngestIInv, ReaderOK
  <2>4. cleared' \in [Readers -> BOOLEAN] /\ next \in {"lookup", "byhash", "delete", "blocked", "deleted"}
        /\ next \notin {"blocked", "deleted"}
    BY <2>1 DEF IngestIInv, IngestTypes
  <2> HIDE DEF next
  <2> QED BY <1>1, <2>1, <2>2, <2>3, <2>4, GoesOn
<1> QED BY <1>3, <1>4, <1>5

LEMMA ByHashKeeps ==
  ASSUME IngestIInv, NEW y \in Readers, ByHash(y)
  PROVE  IngestIInv'
<1>1. InTransaction(y)
  BY DEF ByHash, InTransaction
<1>2. CASE \E d \in DocSet : row[d].hash = Content(y) /\ Ingested(y, d) /\ UNCHANGED <<row, cleared>>
  BY <1>1, <1>2, EndsQuietly
<1>3. CASE Raised(y)
  BY <1>1, <1>3, EndsQuietly DEF Raised
<1> QED BY <1>2, <1>3 DEF ByHash

LEMMA DeleteKeeps ==
  ASSUME IngestIInv, NEW y \in Readers, DeleteChunks(y)
  PROVE  IngestIInv'
<1> DEFINE next == IF \E q \in Readers \ {y} : HoldsChunks(q, Doc(y)) THEN "blocked" ELSE "deleted"
<1>1. /\ pc[y] = "delete" /\ cleared' = [cleared EXCEPT ![y] = TRUE]
      /\ pc' = [pc EXCEPT ![y] = next]
      /\ UNCHANGED <<upstream, row, todo, payload, got, lost, read, alone, published>>
  BY DEF DeleteChunks
<1>2. InTransaction(y) /\ Doc(y) \in LiveDocs /\ Exists(Doc(y))
  BY <1>1 DEF InTransaction, IngestIInv, ReaderOK, WritesRow, Replacing
<1>3. /\ next \in {"blocked", "deleted"} /\ cleared' \in [Readers -> BOOLEAN] /\ cleared'[y] = TRUE
      /\ \A r \in Readers \ {y} : cleared'[r] = cleared[r]
  BY <1>1 DEF IngestIInv, IngestTypes
<1> HIDE DEF next
<1>4. pc'[y] = next
  BY <1>1 DEF IngestIInv, IngestTypes
<1>5. FindsAgain(y)'
  BY <1>3, <1>4 DEF FindsAgain
<1> QED BY <1>1, <1>2, <1>3, <1>5, GoesOn

LEMMA DeleteGoesOnKeeps ==
  ASSUME IngestIInv, NEW y \in Readers, DeleteGoesOn(y)
  PROVE  IngestIInv'
<1>1. /\ pc[y] = "blocked" /\ pc' = [pc EXCEPT ![y] = "deleted"] /\ cleared' = cleared
      /\ UNCHANGED <<upstream, row, todo, payload, got, lost, read, alone, published>>
  BY DEF DeleteGoesOn
<1>2. InTransaction(y) /\ Doc(y) \in LiveDocs /\ Exists(Doc(y))
  BY <1>1 DEF InTransaction, IngestIInv, ReaderOK, WritesRow, Replacing
<1>3. pc'[y] = "deleted" /\ cleared' \in [Readers -> BOOLEAN]
  BY <1>1 DEF IngestIInv, IngestTypes
<1>4. FindsAgain(y)'
  BY <1>1, <1>3 DEF FindsAgain, IngestIInv, ReaderOK
<1> QED BY <1>1, <1>2, <1>3, <1>4, GoesOn

LEMMA UpdateKeeps ==
  ASSUME IngestIInv, NEW y \in Readers, Update(y)
  PROVE  IngestIInv'
<1>1. pc[y] = "deleted" /\ InTransaction(y) /\ Replacing(y)
  BY DEF Update, InTransaction, Replacing
<1>2. CASE Raised(y)
  BY <1>1, <1>2, EndsQuietly DEF Raised
<1>3. CASE /\ pc' = [pc EXCEPT ![y] = "updated"]
           /\ UNCHANGED <<upstream, row, todo, payload, cleared, got, lost, read, alone, published>>
  BY <1>1, <1>3, WriteBegins DEF Update
<1> QED BY <1>2, <1>3 DEF Update

LEMMA ChunkClashKeeps ==
  ASSUME IngestIInv, NEW y \in Readers, ChunkClash(y)
  PROVE  IngestIInv'
<1>1. InTransaction(y) /\ Raised(y)
  BY DEF ChunkClash, InTransaction
<1> QED BY <1>1, EndsQuietly DEF Raised

LEMMA MaterialiseKeeps ==
  ASSUME IngestIInv, NEW y \in Readers, Materialise(y)
  PROVE  IngestIInv'
<1>1. /\ pc[y] \in {"next", "fetch"} /\ todo[y] = {}
      /\ pc' = [pc EXCEPT ![y] = IF y \in MacroReaders /\ got[y] = {} THEN "failed" ELSE "done"]
      /\ read' = [read EXCEPT ![y] = [e \in DocSet |-> IF e \in got[y] THEN row[e].chunks ELSE Nothing]]
      /\ UNCHANGED <<upstream, row, todo, payload, cleared, got, lost, alone, published>>
  BY DEF Materialise
<1>2. /\ pc'[y] \in {"failed", "done"}
      /\ read'[y] = [e \in DocSet |-> IF e \in got[y] THEN row[e].chunks ELSE Nothing]
  BY <1>1 DEF IngestIInv, IngestTypes
<1>3. IngestTypes'
  <2>1. \A e \in DocSet : row[e].chunks \in Nat
    <3> SUFFICES ASSUME NEW e \in DocSet PROVE row[e].chunks \in Nat
      OBVIOUS
    <3>1. row[e] \in Stored
      BY DEF IngestIInv, IngestTypes
    <3>2. row[e] = NoRow \/ row[e].chunks \in Contents
      BY <3>1, StoredRows
    <3>3. NoRow.chunks = 0
      BY DEF NoRow, Nothing
    <3>4. Contents \subseteq Nat
      BY IngestAssumption
    <3>5. CASE row[e] = NoRow
      BY <3>3, <3>5
    <3>6. CASE row[e].chunks \in Contents
      BY <3>4, <3>6
    <3> QED BY <3>2, <3>5, <3>6
  <2>2. read'[y] \in [DocSet -> Nat]
    BY <1>2, <2>1 DEF Nothing
  <2>3. read' \in [Readers -> [DocSet -> Nat]]
    BY <1>1, <1>2, <2>2 DEF IngestIInv, IngestTypes
  <2>4. pc' \in [Readers -> IngestPCs]
    BY <1>1 DEF IngestIInv, IngestTypes, IngestPCs
  <2> QED BY <1>1, <2>3, <2>4 DEF IngestIInv, IngestTypes
<1>4. HasFetched(y)' /\ WritesRow(y)' /\ FindsAgain(y)'
  BY <1>1, <1>2 DEF HasFetched, WritesRow, Replacing, FindsAgain, InTransaction
<1>5. HasGot(y)'
  <2>1. ASSUME NEW e \in got[y] \ LiveDocs
        PROVE  \E d \in DocSet \ lost[y] : read'[y][e] = payload[y][d]
    <3>1. PICK i \in DOMAIN Docs : Docs[i] \notin lost[y] /\ row[e].hash = payload[y][Docs[i]]
      BY DEF IngestIInv, ReaderOK, HasGot
    <3>2. e \in DocSet /\ Docs[i] \in DocSet
      BY DEF IngestIInv, IngestTypes, DocSet, Range
    <3>3. row[e].chunks = row[e].hash
      BY <3>2, StoredRows DEF IngestIInv, IngestTypes
    <3> QED BY <1>2, <3>1, <3>2, <3>3
  <2> QED BY <1>1, <2>1 DEF HasGot, IngestIInv, ReaderOK, Exists
<1>6. Quietly(y)
  BY <1>1, <1>2 DEF Quietly, InTransaction, IngestIInv, IngestTypes
<1> QED BY <1>2, <1>3, <1>4, <1>5, <1>6, QuietStep DEF ReaderOK

(* A row is committed: new, or in place of the one of a live snapshot.     *)
LEMMA CommitKeeps ==
  ASSUME IngestIInv, NEW y \in Readers,
         \/ pc[y] = "new" /\ cleared' = cleared
         \/ /\ pc[y] = "updated"
            /\ cleared' = [q \in Readers |-> cleared[q] /\ ~(pc[q] = "blocked" /\ Doc(q) = Doc(y))],
         row' = [row EXCEPT ![Doc(y)] = Ingestion(Content(y))], Ingested(y, Doc(y))
  PROVE  IngestIInv'
<1>1. InTransaction(y) /\ todo[y] # {}
  BY DEF InTransaction, IngestIInv, ReaderOK, HasFetched
<1>2. /\ Doc(y) \in DocSet /\ Content(y) \in Contents
      /\ Rest(y) \in SUBSET DOMAIN Docs
  BY <1>1, AtDoc DEF IngestIInv, ReaderOK, IngestTypes
<1>3. /\ row'[Doc(y)] = Ingestion(Content(y)) /\ row' \in [DocSet -> Stored]
      /\ \A x \in DocSet : x # Doc(y) => row'[x] = row[x]
      /\ row'[Doc(y)] # NoRow /\ row'[Doc(y)].hash = Content(y)
  BY <1>2, StoredRows DEF IngestIInv, IngestTypes
<1>4. /\ got' = [got EXCEPT ![y] = @ \cup {Doc(y)}] /\ todo' = [todo EXCEPT ![y] = Rest(y)]
      /\ pc' = [pc EXCEPT ![y] = After(y)] /\ upstream' = upstream /\ payload' = payload
      /\ lost' = lost /\ read' = read /\ alone' = alone /\ published' = published
  BY DEF Ingested
<1>5. cleared' \in [Readers -> BOOLEAN]
  <2>1. \A q \in Readers : cleared[q] \in BOOLEAN
    BY DEF IngestIInv, IngestTypes
  <2> QED BY <2>1 DEF IngestIInv, IngestTypes
<1>6. IngestTypes'
  <2>1. todo' \in [Readers -> SUBSET DOMAIN Docs] /\ got' \in [Readers -> SUBSET DocSet]
    BY <1>2, <1>4 DEF IngestIInv, IngestTypes
  <2>2. pc' \in [Readers -> IngestPCs]
    BY <1>4 DEF After, IngestIInv, IngestTypes, IngestPCs
  <2> QED BY <1>3, <1>4, <1>5, <2>1, <2>2 DEF IngestIInv, IngestTypes
<1>7. /\ pc'[y] \in {"next", "fetch"} /\ todo'[y] = Rest(y)
      /\ \A r \in Readers \ {y} : pc'[r] = pc[r] /\ todo'[r] = todo[r] /\ got'[r] = got[r]
  BY <1>4 DEF After, IngestIInv, IngestTypes
<1>8. ASSUME NEW r \in Readers, NEW e \in got[r] \ LiveDocs
      PROVE  Exists(e) /\ e # Doc(y) /\ e \in DocSet /\ row'[e] = row[e]
  <2>1. Exists(e) /\ e \in DocSet
    BY <1>8 DEF IngestIInv, ReaderOK, HasGot, IngestTypes
  <2>2. e # Doc(y)
    BY <2>1, <1>8 DEF IngestIInv, ReaderOK, WritesRow, Replacing
  <2> QED BY <1>3, <2>1, <2>2
<1>9. ReaderOK(y)'
  BY <1>1, <1>2, <1>3, <1>8, IngestedKeeps DEF IngestIInv
<1>10. ASSUME NEW r \in Readers, r # y PROVE ReaderOK(r)'
  <2>1. /\ pc'[r] = pc[r] /\ Doc(r)' = Doc(r) /\ Content(r)' = Content(r) /\ todo'[r] = todo[r]
        /\ got'[r] = got[r]
    BY <1>4, <1>7, <1>10 DEF Doc, Content
  <2>2. HasFetched(r)'
    BY <1>4, <2>1 DEF IngestIInv, ReaderOK, HasFetched, InTransaction
  <2>3. WritesRow(r)'
    <3>1. InTransaction(r) => Doc(r) \in DocSet
      BY AtDoc DEF IngestIInv, ReaderOK, HasFetched
    <3>2. Replacing(r) => InTransaction(r)
      BY DEF Replacing, InTransaction
    <3>3. Replacing(r) => Doc(r) \in LiveDocs /\ row'[Doc(r)] # NoRow
      BY <1>3, <3>1, <3>2 DEF IngestIInv, ReaderOK, WritesRow, Exists
    <3>4. pc[r] = "new" => row'[Doc(r)] = NoRow
      <4>1. pc[r] = "new" => Doc(r) # Doc(y) /\ Doc(r) \in DocSet
        BY <1>10, <3>1 DEF IngestIInv, Apart, InTransaction
      <4> QED BY <1>3, <4>1 DEF IngestIInv, ReaderOK, WritesRow, Exists
    <3> QED BY <2>1, <3>3, <3>4 DEF WritesRow, Replacing, Exists
  <2>4. HasGot(r)'
    <3>1. \A i \in todo'[r] : Docs[i] \notin lost'[r]
      BY <1>4, <2>1 DEF IngestIInv, ReaderOK, HasGot
    <3>2. ASSUME NEW e \in got'[r] \ LiveDocs
          PROVE  /\ row'[e] # NoRow
                 /\ \E i \in DOMAIN Docs \ todo'[r] :
                       Docs[i] \notin lost'[r] /\ row'[e].hash = payload'[r][Docs[i]]
      <4>1. Exists(e) /\ row'[e] = row[e]
        BY <1>8, <2>1
      <4>2. e \in got[r] \ LiveDocs
        BY <2>1
      <4>3. PICK i \in DOMAIN Docs \ todo[r] :
                Docs[i] \notin lost[r] /\ row[e].hash = payload[r][Docs[i]]
        BY <4>2 DEF IngestIInv, ReaderOK, HasGot
      <4> QED BY <1>4, <2>1, <4>1, <4>3 DEF Exists
    <3>3. pc'[r] = "done" =>
            \A e \in got'[r] \ LiveDocs : \E d \in DocSet \ lost'[r] : read'[r][e] = payload'[r][d]
      <4> SUFFICES ASSUME pc'[r] = "done", NEW e \in got'[r] \ LiveDocs
                   PROVE  \E d \in DocSet \ lost'[r] : read'[r][e] = payload'[r][d]
        OBVIOUS
      <4>1. pc[r] = "done" /\ e \in got[r] \ LiveDocs
        BY <2>1
      <4>2. \E d \in DocSet \ lost[r] : read[r][e] = payload[r][d]
        BY <4>1 DEF IngestIInv, ReaderOK, HasGot
      <4> QED BY <1>4, <4>2
    <3> QED BY <3>1, <3>2, <3>3 DEF HasGot, Exists
  <2>5. FindsAgain(r)'
    <3>1. alone'[r] => ~InTransaction(r)
      BY <1>1, <1>4, <1>10 DEF IngestIInv, Apart
    <3> QED BY <2>1, <3>1 DEF FindsAgain, InTransaction
  <2> QED BY <2>2, <2>3, <2>4, <2>5 DEF ReaderOK
<1>11. \A r, q \in Readers : r # q => Apart(r, q)'
  <2>1. ASSUME NEW r \in Readers
        PROVE  /\ InTransaction(r)' => InTransaction(r) /\ (alone'[r] => alone[r])
               /\ alone'[r] => alone[r]
               /\ pc'[r] \in {"new", "updated"} => pc'[r] = pc[r] /\ todo'[r] = todo[r]
    BY <1>1, <1>4, <1>7 DEF InTransaction
  <2> QED BY <2>1, ApartKeeps DEF IngestIInv
<1> QED BY <1>6, <1>9, <1>10, <1>11 DEF IngestIInv

LEMMA IngestStep == IngestIInv /\ [IngestNext]_ingestVars => IngestIInv'
<1> SUFFICES ASSUME IngestIInv, [IngestNext]_ingestVars PROVE IngestIInv'
  OBVIOUS
<1>1. CASE UNCHANGED ingestVars
  <2>1. /\ row' = row /\ pc' = pc /\ todo' = todo /\ payload' = payload /\ cleared' = cleared
        /\ got' = got /\ lost' = lost /\ read' = read /\ alone' = alone /\ upstream' = upstream
    BY <1>1 DEF ingestVars
  <2>2. IngestTypes'
    BY <2>1 DEF IngestIInv, IngestTypes
  <2>3. \A r \in Readers : ReaderOK(r)'
    BY <2>1, OthersKeep DEF IngestIInv
  <2>4. \A r, q \in Readers : r # q => Apart(r, q)'
    BY <2>1, ApartKeeps DEF IngestIInv, InTransaction
  <2> QED BY <2>2, <2>3, <2>4 DEF IngestIInv
<1>2. CASE \E d \in DocSet : Publish(d)
  BY <1>2, PublishKeeps
<1>3. ASSUME NEW r \in Readers, Gather(r) \/ Fetch(r) \/ Begin(r) \/ Insert(r) \/ Lookup(r)
      PROVE  IngestIInv'
  BY <1>3, GatherKeeps, FetchKeeps, BeginKeeps, InsertKeeps, LookupKeeps
<1>4. ASSUME NEW r \in Readers,
             ByHash(r) \/ DeleteChunks(r) \/ DeleteGoesOn(r) \/ Update(r) \/ ChunkClash(r) \/ Materialise(r)
      PROVE  IngestIInv'
  BY <1>4, ByHashKeeps, DeleteKeeps, DeleteGoesOnKeeps, UpdateKeeps, ChunkClashKeeps, MaterialiseKeeps
<1>5. ASSUME NEW r \in Readers, Replaced(r) \/ Inserted(r) PROVE IngestIInv'
  <2>1. CASE Replaced(r)
    <3>1. /\ pc[r] = "updated" /\ row' = [row EXCEPT ![Doc(r)] = Ingestion(Content(r))]
          /\ cleared' = [q \in Readers |-> cleared[q] /\ ~(pc[q] = "blocked" /\ Doc(q) = Doc(r))]
          /\ Ingested(r, Doc(r))
      BY <2>1 DEF Replaced
    <3> QED BY <3>1, CommitKeeps
  <2>2. CASE Inserted(r)
    BY <2>2, CommitKeeps DEF Inserted
  <2> QED BY <1>5, <2>1, <2>2
<1> QED BY <1>1, <1>2, <1>3, <1>4, <1>5 DEF IngestNext

LEMMA IngestStarts == IngestInit => IngestIInv
<1> SUFFICES ASSUME IngestInit PROVE IngestIInv
  OBVIOUS
<1>1. IngestTypes
  <2>1. row \in [DocSet -> Stored]
    BY DEF IngestInit, Stored
  <2>2. pc \in [Readers -> IngestPCs]
    BY DEF IngestInit, IngestPCs
  <2> QED BY <2>1, <2>2 DEF IngestInit, IngestTypes, Nothing
<1>2. ASSUME NEW r \in Readers PROVE ReaderOK(r)
  <2>1. pc[r] = IF r \in MacroReaders THEN "gather" ELSE "fetch"
    BY DEF IngestInit
  <2>2. got[r] = {} /\ lost[r] = {}
    BY DEF IngestInit
  <2> QED BY <2>1, <2>2 DEF ReaderOK, HasFetched, WritesRow, Replacing, HasGot, FindsAgain, InTransaction
<1>3. ASSUME NEW r \in Readers, NEW q \in Readers PROVE Apart(r, q)
  <2>1. pc[r] \in {"gather", "fetch"}
    BY DEF IngestInit
  <2> QED BY <2>1 DEF Apart, InTransaction
<1> QED BY <1>1, <1>2, <1>3 DEF IngestIInv

(* A step by which y loses a document for no cause is not one of a reader  *)
(* that had no overlap.                                                    *)
LEMMA RaisedForCause ==
  ASSUME IngestIInv, NEW r \in Readers, alone[r],
         Lookup(r) \/ ByHash(r) \/ Update(r) \/ ChunkClash(r), Raised(r)
  PROVE  \/ Doc(r) \notin LiveDocs /\ Exists(Doc(r)) /\ row[Doc(r)].hash # Content(r)
         \/ Doc(r) \in LiveDocs /\ \E e \in DocSet \ {Doc(r)} : row[e].hash = Content(r)
<1>1. InTransaction(r) /\ todo[r] # {}
  BY DEF Lookup, ByHash, Update, ChunkClash, InTransaction, IngestIInv, ReaderOK, HasFetched
<1>2. Rest(r) # todo[r]
  BY <1>1, AtDoc DEF IngestIInv, ReaderOK
<1>3. todo'[r] # todo[r] /\ got' = got
  BY <1>2 DEF Raised, IngestIInv, IngestTypes
<1>4. CASE Lookup(r)
  <2>2. CASE Exists(Doc(r)) /\ row[Doc(r)].hash = Content(r)
    <3>1. pc'[r] = After(r) /\ Doc(r) \in got'[r] /\ lost' = lost
      BY <1>4, <2>2 DEF Lookup, Ingested, IngestIInv, IngestTypes
    <3>2. Doc(r) \in lost'[r]
      BY DEF Raised, IngestIInv, IngestTypes
    <3>3. Doc(r) \notin lost[r]
      BY <1>1, AtDoc DEF IngestIInv, ReaderOK, HasGot
    <3> QED BY <3>1, <3>2, <3>3
  <2>3. CASE Exists(Doc(r)) /\ row[Doc(r)].hash # Content(r) /\ Doc(r) \notin LiveDocs
    BY <2>3
  <2>4. CASE /\ ~(Exists(Doc(r)) /\ row[Doc(r)].hash = Content(r))
             /\ ~(Exists(Doc(r)) /\ row[Doc(r)].hash # Content(r) /\ Doc(r) \notin LiveDocs)
    <3>1. todo' = todo
      BY <1>4, <2>4 DEF Lookup
    <3> QED BY <1>3, <3>1
  <2> QED BY <2>2, <2>3, <2>4
<1>5. CASE ByHash(r)
  <2>1. pc[r] = "byhash"
    BY <1>5 DEF ByHash
  <2>2. \E e \in DocSet : row[e].hash = Content(r)
    BY <2>1 DEF IngestIInv, ReaderOK, FindsAgain
  <2>3. ~(\A d \in DocSet : row[d].hash # Content(r))
    BY <2>2
  <2>4. lost' = lost
    BY <1>5, <2>3 DEF ByHash, Ingested
  <2>5. Doc(r) \in lost'[r]
    BY DEF Raised, IngestIInv, IngestTypes
  <2>6. Doc(r) \notin lost[r]
    BY <1>1, AtDoc DEF IngestIInv, ReaderOK, HasGot
  <2> QED BY <2>4, <2>5, <2>6
<1>6. CASE Update(r)
  <2>1. pc[r] = "deleted" /\ Doc(r) \in LiveDocs
    BY <1>6 DEF Update, IngestIInv, ReaderOK, WritesRow, Replacing
  <2>2. ~(todo' = todo)
    BY <1>3
  <2>3. \E d \in DocSet \ {Doc(r)} : row[d].hash = Content(r)
    BY <1>6, <2>2 DEF Update
  <2> QED BY <2>1, <2>3
<1>7. CASE ChunkClash(r)
  BY <1>7 DEF ChunkClash, IngestIInv, ReaderOK, FindsAgain
<1> QED BY <1>4, <1>5, <1>6, <1>7

LEMMA LossHasCause ==
  IngestIInv /\ [IngestNext]_ingestVars =>
     [\A r \in Readers : alone[r] =>
          \A d \in lost'[r] \ lost[r] :
             \/ d \notin LiveDocs /\ Exists(d) /\ row[d].hash # payload[r][d]
             \/ d \in LiveDocs /\ \E e \in DocSet \ {d} : row[e].hash = payload[r][d]]_ingestVars
<1> SUFFICES ASSUME IngestIInv, IngestNext, NEW r \in Readers, alone[r], NEW d \in lost'[r] \ lost[r]
             PROVE  \/ d \notin LiveDocs /\ Exists(d) /\ row[d].hash # payload[r][d]
                    \/ d \in LiveDocs /\ \E e \in DocSet \ {d} : row[e].hash = payload[r][d]
  OBVIOUS
<1>1. lost' # lost
  OBVIOUS
<1>2. PICK y \in Readers : Raised(y) /\ (Lookup(y) \/ ByHash(y) \/ Update(y) \/ ChunkClash(y))
  <2>1. \A x \in DocSet : ~Publish(x)
    BY <1>1 DEF Publish
  <2>2. PICK y \in Readers :
           \/ Gather(y) \/ Fetch(y) \/ Begin(y) \/ Insert(y) \/ Lookup(y) \/ ByHash(y)
           \/ DeleteChunks(y) \/ DeleteGoesOn(y) \/ Update(y) \/ Replaced(y) \/ ChunkClash(y)
           \/ Inserted(y) \/ Materialise(y)
    BY <2>1 DEF IngestNext
  <2>3. ~Gather(y) /\ ~Fetch(y) /\ ~Begin(y) /\ ~Insert(y) /\ ~DeleteChunks(y) /\ ~DeleteGoesOn(y)
        /\ ~Replaced(y) /\ ~Inserted(y) /\ ~Materialise(y)
    BY <1>1 DEF Gather, Fetch, Begin, Insert, DeleteChunks, DeleteGoesOn, Replaced, Inserted,
                Materialise, Ingested
  <2>4. Lookup(y) => Raised(y)
    BY <1>1 DEF Lookup, Ingested
  <2>5. ByHash(y) => Raised(y)
    BY <1>1 DEF ByHash, Ingested
  <2>6. Update(y) => Raised(y)
    BY <1>1 DEF Update
  <2>7. ChunkClash(y) => Raised(y)
    BY DEF ChunkClash
  <2> QED BY <2>2, <2>3, <2>4, <2>5, <2>6, <2>7
<1>3. r = y /\ d = Doc(y)
  BY <1>2 DEF Raised, IngestIInv, IngestTypes
<1> QED BY <1>2, <1>3, RaisedForCause DEF Content

LEMMA EvidenceInv == IngestIInv => ChunksOfHash /\ ReadsFetched
<1> SUFFICES ASSUME IngestIInv PROVE ChunksOfHash /\ ReadsFetched
  OBVIOUS
<1>1. ChunksOfHash
  BY StoredRows DEF IngestIInv, IngestTypes, ChunksOfHash
<1>2. ReadsFetched
  BY DEF IngestIInv, ReaderOK, HasGot, ReadsFetched
<1> QED BY <1>1, <1>2

(* What a stage reads is what its sources said, and it misses none of it   *)
(* without a cause, for any documents, stages and interleaving             *)
(* (services/ingestion/_persist.py).                                       *)
THEOREM EvidenceIsSound == IngestSpec => EvidenceSound
<1>1. IngestInit => IngestIInv
  BY IngestStarts
<1>2. IngestIInv /\ [IngestNext]_ingestVars => IngestIInv'
  BY IngestStep
<1>3. IngestIInv => ChunksOfHash /\ ReadsFetched
  BY EvidenceInv
<1>4. IngestIInv /\ [IngestNext]_ingestVars =>
     [\A r \in Readers : alone[r] =>
          \A d \in lost'[r] \ lost[r] :
             \/ d \notin LiveDocs /\ Exists(d) /\ row[d].hash # payload[r][d]
             \/ d \in LiveDocs /\ \E e \in DocSet \ {d} : row[e].hash = payload[r][d]]_ingestVars
  BY LossHasCause
<1> QED BY <1>1, <1>2, <1>3, <1>4, PTL DEF IngestSpec, EvidenceSound, LostForCause

-----------------------------------------------------------------------------
(***************************************************************************)
(* Counterfactual: the gate fails a brief only for its first call.  A call *)
(* with an id of its own is the one its id stands for; if it has a         *)
(* direction or some conviction, two of the four perturbations change the  *)
(* decision, and that is half of them.                                     *)
(***************************************************************************)

(* The verdict is inductive with the type of the decision.                 *)
GateIInv ==
    /\ decision \in [calls: SeqOf(BriefCall, MaxCalls), quote: BOOLEAN]
    /\ FailsForTopCall

(* A call of any conviction.                                               *)
AnyCall == [id: CallIds, direction: {"overweight", "underweight", "neutral"},
            conviction: 0..10, evidence: 0..MaxEvidence]

LEMMA CallIsOne ==
  ASSUME GateAssumption, NEW c \in BriefCall
  PROVE  c \in AnyCall /\ c.conviction \in 0..10
<1>1. c.conviction \in 0..10
  BY DEF BriefCall, GateAssumption
<1> QED BY <1>1 DEF BriefCall, AnyCall

(* The decision whose first call is c.                                     *)
WithTop(d, c) == [d EXCEPT !.calls[1] = c]

LEMMA SequenceOf ==
  ASSUME NEW s \in SeqOf(BriefCall, MaxCalls), GateAssumption
  PROVE  /\ s \in Seq(BriefCall) /\ DOMAIN s = 1..Len(s) /\ Len(s) \in Nat
         /\ s # <<>> => 1 \in DOMAIN s /\ s[1] \in BriefCall
<1>1. PICK m \in 0..MaxCalls : s \in [1..m -> BriefCall]
  BY DEF SeqOf
<1>2. s \in Seq(BriefCall) /\ Len(s) = m
  BY <1>1, m \in Nat DEF GateAssumption
<1> QED BY <1>1, <1>2

(* A call with an id of its own is the one its id stands for.              *)
LEMMA TopById ==
  ASSUME NEW d \in [calls: SeqOf(BriefCall, MaxCalls), quote: BOOLEAN], GateAssumption,
         d.calls # <<>>, \A i \in 2..Len(d.calls) : d.calls[i].id # d.calls[1].id,
         NEW c \in AnyCall, c.id = d.calls[1].id
  PROVE  /\ ById(WithTop(d, c), c.id) = c
         /\ CallIdsOf(WithTop(d, c)) = CallIdsOf(d)
         /\ c.id \in CallIdsOf(d)
<1> DEFINE w == WithTop(d, c)
<1>1. /\ d.calls \in Seq(BriefCall) /\ DOMAIN d.calls = 1..Len(d.calls) /\ Len(d.calls) \in Nat
      /\ 1 \in DOMAIN d.calls
  BY SequenceOf
<1>2. /\ w.calls = [d.calls EXCEPT ![1] = c]
      /\ DOMAIN w.calls = 1..Len(d.calls)
      /\ w.calls[1] = c
      /\ \A i \in 2..Len(d.calls) : w.calls[i] = d.calls[i]
  BY <1>1 DEF WithTop
<1>3. w.calls \in Seq(AnyCall) /\ Len(w.calls) = Len(d.calls)
  <2>1. \A i \in 1..Len(d.calls) : w.calls[i] \in AnyCall
    <3> SUFFICES ASSUME NEW i \in 1..Len(d.calls) PROVE w.calls[i] \in AnyCall
      OBVIOUS
    <3>1. d.calls[i] \in AnyCall
      BY <1>1, CallIsOne
    <3>2. i = 1 \/ i \in 2..Len(d.calls)
      BY <1>1
    <3> QED BY <1>2, <3>1, <3>2
  <2>2. w.calls \in [1..Len(d.calls) -> AnyCall]
    BY <1>1, <1>2, <2>1
  <2> QED BY <1>1, <2>2
<1> HIDE DEF w
<1>4. {i \in 1..Len(w.calls) : w.calls[i].id = c.id} = {1}
  BY <1>1, <1>2, <1>3
<1>5. SelectLastInSeq(w.calls, LAMBDA k : k.id = c.id) = Max({1})
  BY <1>4 DEF SelectLastInSeq
<1>6. Max({1}) = 1
  BY DEF Max
<1>7. ById(w, c.id) = c
  BY <1>5, <1>6, <1>2 DEF ById
<1>8. \A i \in DOMAIN d.calls : w.calls[i].id = d.calls[i].id
  BY <1>1, <1>2
<1>9. CallIdsOf(w) = CallIdsOf(d)
  BY <1>1, <1>2, <1>8 DEF CallIdsOf
<1>10. c.id \in CallIdsOf(d)
  BY <1>1 DEF CallIdsOf
<1> QED BY <1>7, <1>9, <1>10 DEF w

(* So a first call with an id of its own that changes, changes the         *)
(* decision.                                                               *)
LEMMA TopChanges ==
  ASSUME NEW d \in [calls: SeqOf(BriefCall, MaxCalls), quote: BOOLEAN], GateAssumption,
         d.calls # <<>>, \A i \in 2..Len(d.calls) : d.calls[i].id # d.calls[1].id,
         NEW c \in AnyCall, c.id = d.calls[1].id,
         \/ c.direction # d.calls[1].direction
         \/ Distance(d.calls[1].conviction, c.conviction) >= 2
  PROVE  Changed(d, WithTop(d, c)) /\ WithTop(d, c) # d
<1> DEFINE top == d.calls[1]
<1>1. /\ top \in AnyCall /\ 1 \in DOMAIN d.calls /\ d.calls \in Seq(BriefCall)
      /\ DOMAIN d.calls = 1..Len(d.calls)
  BY SequenceOf, CallIsOne
<1>2. ById(WithTop(d, c), c.id) = c /\ c.id \in CallIdsOf(d)
  BY TopById
<1>3. WithTop(d, top) = d
  <2>1. [d.calls EXCEPT ![1] = top] = d.calls
    BY <1>1
  <2> HIDE DEF top
  <2>2. WithTop(d, top) = [d EXCEPT !.calls = [d.calls EXCEPT ![1] = top]]
    BY DEF WithTop
  <2>3. [d EXCEPT !.calls = d.calls] = d
    OBVIOUS
  <2> QED BY <2>1, <2>2, <2>3
<1>4. ById(WithTop(d, top), top.id) = top
  BY <1>1, TopById
<1>5. Changed(d, WithTop(d, c))
  BY <1>2, <1>3, <1>4 DEF Changed
<1>6. Distance(top.conviction, top.conviction) = 0
  BY <1>1 DEF Distance, AnyCall
<1>7. c # top
  BY <1>6
<1>8. WithTop(d, c).calls[1] = c
  BY <1>1 DEF WithTop
<1> QED BY <1>5, <1>7, <1>8

LEMMA FlipChanges ==
  ASSUME NEW d \in [calls: SeqOf(BriefCall, MaxCalls), quote: BOOLEAN], GateAssumption,
         d.calls # <<>>, \A i \in 2..Len(d.calls) : d.calls[i].id # d.calls[1].id
  PROVE  Changed(d, FlipTopDirection(d)) /\ FlipTopDirection(d) # d
<1> DEFINE top == d.calls[1]
           c == [top EXCEPT !.direction = IF @ = "overweight" THEN "underweight" ELSE "overweight"]
<1>1. top \in AnyCall
  BY SequenceOf, CallIsOne
<1>2. c \in AnyCall /\ c.id = top.id /\ c.direction # top.direction
  <2> DEFINE side == IF top.direction = "overweight" THEN "underweight" ELSE "overweight"
  <2>1. side \in {"overweight", "underweight", "neutral"} /\ side # top.direction
    OBVIOUS
  <2>2. c = [top EXCEPT !.direction = side]
    OBVIOUS
  <2> HIDE DEF side, c
  <2> HIDE DEF top
  <2>3. c \in AnyCall /\ c.id = top.id /\ c.direction = side
    BY <1>1, <2>1, <2>2 DEF AnyCall
  <2> QED BY <2>1, <2>3
<1>3. FlipTopDirection(d) = WithTop(d, c)
  BY DEF FlipTopDirection, OnTop, WithTop
<1> HIDE DEF c
<1> QED BY <1>2, <1>3, TopChanges

LEMMA LowerChanges ==
  ASSUME NEW d \in [calls: SeqOf(BriefCall, MaxCalls), quote: BOOLEAN], GateAssumption,
         d.calls # <<>>, \A i \in 2..Len(d.calls) : d.calls[i].id # d.calls[1].id,
         d.calls[1].direction # "neutral" \/ d.calls[1].conviction >= 2
  PROVE  Changed(d, LowerTopConviction(d)) /\ LowerTopConviction(d) # d
<1> DEFINE top == d.calls[1]
           c == [top EXCEPT !.conviction = IF @ < 4 THEN 0 ELSE @ - 4,
                            !.direction = IF top.conviction <= 6 THEN "neutral" ELSE @]
<1>1. top \in AnyCall
  BY SequenceOf, CallIsOne
<1>2. /\ c \in AnyCall /\ c.id = top.id
      /\ c.conviction = IF top.conviction < 4 THEN 0 ELSE top.conviction - 4
      /\ c.direction = IF top.conviction <= 6 THEN "neutral" ELSE top.direction
  <2> DEFINE less == IF top.conviction < 4 THEN 0 ELSE top.conviction - 4
             side == IF top.conviction <= 6 THEN "neutral" ELSE top.direction
  <2>1. top.conviction \in 0..10
    BY <1>1 DEF AnyCall
  <2>2. less \in 0..10
    BY <2>1
  <2>3. side \in {"overweight", "underweight", "neutral"}
    BY <1>1 DEF AnyCall
  <2>4. c = [top EXCEPT !.conviction = less, !.direction = side]
    OBVIOUS
  <2> HIDE DEF less, side, c
  <2>5. c \in AnyCall /\ c.id = top.id /\ c.conviction = less /\ c.direction = side
    BY <1>1, <2>2, <2>3, <2>4 DEF AnyCall
  <2> QED BY <2>5 DEF less, side
<1>3. LowerTopConviction(d) = WithTop(d, c)
  BY DEF LowerTopConviction, OnTop, WithTop
<1>4. \/ c.direction # top.direction
      \/ Distance(top.conviction, c.conviction) >= 2
  <2>1. top.conviction \in 0..10
    BY <1>1 DEF AnyCall
  <2> HIDE DEF c
  <2>2. CASE top.conviction <= 6 /\ top.direction # "neutral"
    BY <1>2, <2>2, Zenon
  <2>3. CASE top.conviction >= 2
    BY <1>2, <2>1, <2>3 DEF Distance
  <2> QED BY <2>1, <2>2, <2>3
<1> HIDE DEF c
<1> QED BY <1>2, <1>3, <1>4, TopChanges

LEMMA GateOutcome ==
  ASSUME GateIInv, GateAssumption, RunGate
  PROVE  FailsForTopCall'
<1> SUFFICES ASSUME gate' = Outcome(Meaningful), ~gate'.passed,
                    ~IF decision.calls = <<>> THEN decision.quote
                     ELSE LET top == decision.calls[1] IN
                          \/ top.direction = "neutral" /\ top.conviction < 2
                          \/ \E i \in 2..Len(decision.calls) : decision.calls[i].id = top.id
             PROVE  FALSE
  BY DEF RunGate, FailsForTopCall
<1> DEFINE meant == {n \in DOMAIN Meaningful : Meaningful[n] # decision}
           changed == {n \in meant : Changed(decision, Meaningful[n])}
<1>1. meant # {} /\ ~(2 * Cardinality(changed) >= Cardinality(meant))
  BY DEF Outcome
<1>2. DOMAIN Meaningful = 1..4
  BY DEF Meaningful
<1>3. /\ Meaningful[1] = DropTopEvidence(decision)
      /\ Meaningful[2] = FlipTopDirection(decision)
      /\ Meaningful[3] = RedactTopQuote(decision)
      /\ Meaningful[4] = LowerTopConviction(decision)
  BY DEF Meaningful
<1>4. CASE decision.calls = <<>>
  <2>1. ~decision.quote
    BY <1>4
  <2>2. RedactTopQuote(decision) = decision
    BY <2>1 DEF RedactTopQuote, GateIInv
  <2>3. /\ DropTopEvidence(decision) = decision
        /\ FlipTopDirection(decision) = decision
        /\ LowerTopConviction(decision) = decision
    BY <1>4 DEF DropTopEvidence, FlipTopDirection, LowerTopConviction, OnTop
  <2> QED BY <1>1, <1>2, <1>3, <2>2, <2>3
<1>5. CASE decision.calls # <<>>
  <2>1. /\ \A i \in 2..Len(decision.calls) : decision.calls[i].id # decision.calls[1].id
        /\ decision.calls[1].direction # "neutral" \/ ~(decision.calls[1].conviction < 2)
    BY <1>5
  <2>2. decision.calls[1] \in BriefCall
    BY <1>5, SequenceOf DEF GateIInv
  <2>3. decision.calls[1].direction # "neutral" \/ decision.calls[1].conviction >= 2
    BY <2>1, <2>2, CallIsOne
  <2>4. {2, 4} \subseteq changed
    BY <1>2, <1>3, <1>5, <2>1, <2>3, FlipChanges, LowerChanges DEF GateIInv
  <2>5. IsFiniteSet(1..4) /\ Cardinality(1..4) = 4
    <3>1. \A n \in Nat : IsFiniteSet(1..n) /\ Cardinality(1..n) = n
      BY FS_Interval
    <3> QED BY <3>1, 4 \in Nat, Zenon
  <2>6. meant \subseteq 1..4 /\ changed \subseteq 1..4
    BY <1>2
  <2> HIDE DEF meant, changed
  <2>7. /\ IsFiniteSet(changed) /\ IsFiniteSet(meant)
        /\ Cardinality(meant) <= 4 /\ Cardinality(meant) \in Nat /\ Cardinality(changed) \in Nat
    <3>1. IsFiniteSet(changed) /\ IsFiniteSet(meant)
      BY <2>5, <2>6, FS_Subset, Zenon
    <3>2. Cardinality(meant) <= Cardinality(1..4)
      BY <2>5, <2>6, FS_Subset, Zenon
    <3> QED BY <2>5, <3>1, <3>2, FS_CardinalityType
  <2>8. Cardinality({2, 4}) = 2
    <3>1. Cardinality({2}) = 1 /\ IsFiniteSet({2})
      BY FS_Singleton
    <3>2. Cardinality({2} \cup {4}) = Cardinality({2}) + 1
      BY <3>1, 4 \notin {2}, FS_AddElement
    <3>3. {2} \cup {4} = {2, 4}
      OBVIOUS
    <3>4. Cardinality({2, 4}) = 1 + 1
      BY <3>1, <3>2, <3>3, Zenon
    <3> QED BY <3>4
  <2>9. Cardinality({2, 4}) <= Cardinality(changed)
    BY <2>4, <2>7, FS_Subset
  <2> QED BY <1>1, <2>7, <2>8, <2>9
<1> QED BY <1>4, <1>5

(* Whatever a brief says, with calls of any number, convictions and        *)
(* evidence, the gate fails it only for its first call, or for a quote     *)
(* without any call (services/evals/counterfactual.py).                    *)
THEOREM GateIsHonest == GateSpec => []FailsForTopCall
<1> USE GateAssumption
<1>1. GateInit => GateIInv
  BY DEF GateInit, GateIInv, FailsForTopCall
<1>2. GateIInv /\ [RunGate]_gateVars => GateIInv'
  BY GateOutcome DEF GateIInv, FailsForTopCall, RunGate, gateVars
<1>3. GateIInv => FailsForTopCall
  BY DEF GateIInv
<1> QED BY <1>1, <1>2, <1>3, PTL DEF GateSpec

-----------------------------------------------------------------------------
(***************************************************************************)
(* Beliefs: what a hypothesis is believed to be follows from its relations,*)
(* whoever writes and edits at once, for any hypotheses, chunks, writers and*)
(* editors. The inductive invariant says for a session that missed no commit*)
(* that it has read every relation, and for an edit that what it was shown *)
(* is still true unless somebody wrote since.                              *)
(***************************************************************************)

(* A session that has read the relations of a hypothesis, and missed no    *)
(* commit since, has them and its own.                                     *)
WritersKnow ==
    /\ \A s \in Writers :
          /\ writer[s].pc # "idle" => writer[s].h \in Hyps /\ writer[s].own # {}
          /\ writer[s].pc \in {"loaded", "flushed"} /\ ~writer[s].missed =>
                writer[s].read = links[writer[s].h] \cup writer[s].own
    /\ \A s, t \in Writers :
          writer[s].pc = "flushed" /\ writer[t].pc = "flushed" /\ writer[s].h = writer[t].h
              => s = t

(* The fan-out and the pass do not overlap; what the pass has written is   *)
(* there.                                                                  *)
PassAlone ==
    /\ pass.pc = "judging" => \A s \in Writers : writer[s].pc = "idle"
    /\ pass.pc = "idle" => pass.written = {}
    /\ \A h \in pass.written : links[h] # {}

(* Without relations there is no belief.                                   *)
NoneUnknown == \A h \in Hyps : links[h] = {} => belief[h] = Unknown

(* What an editor has read is still true, unless somebody wrote since, and *)
(* a verdict that can move a status was the truth.                         *)
EditorsKnow ==
    \A e \in Editors :
        /\ editor[e].status # "none" /\ ~editor[e].stale =>
              editor[e].h \in Hyps /\ editor[e].status = status[editor[e].h]
        /\ editor[e].verdict \in {"low", "high"} => editor[e].truth = editor[e].verdict

BeliefIInv ==
    /\ BeliefTypeOK /\ WritersKnow /\ PassAlone /\ NoneUnknown /\ EditorsKnow
    /\ BeliefCurrent /\ ArchivedWhenGone

LEMMA BeliefStarts == BeliefInit => BeliefIInv
<1> SUFFICES ASSUME BeliefInit PROVE BeliefIInv
  OBVIOUS
<1> USE DEF BeliefInit
<1>1. IdleWriter \in Session /\ IdleEditor \in Reading
  BY DEF IdleWriter, IdleEditor, Session, Reading
<1>2. IdlePass \in [pc: {"idle", "judging"}, todo: [Hyps -> SUBSET Chunks], written: SUBSET Hyps]
  BY DEF IdlePass
<1>3. BeliefTypeOK
  BY <1>1, <1>2 DEF BeliefTypeOK, Open
<1>4. WritersKnow
  BY DEF WritersKnow, IdleWriter
<1>5. PassAlone /\ NoneUnknown
  BY DEF PassAlone, NoneUnknown, IdlePass
<1>6. EditorsKnow
  BY DEF EditorsKnow, IdleEditor
<1>7. BeliefCurrent /\ ArchivedWhenGone
  BY DEF BeliefCurrent, ArchivedWhenGone, Open
<1> QED BY <1>3, <1>4, <1>5, <1>6, <1>7 DEF BeliefIInv

(* Steps that leave the hypotheses and what is believed of them alone.     *)
LEMMA WriterKeeps ==
  ASSUME BeliefIInv, NEW s \in Writers,
         (\E h \in Hyps : AddRelation(s, h)) \/ Load(s) \/ FlushBelief(s) \/ Rollback(s)
  PROVE  BeliefIInv'
<1>1. /\ UNCHANGED <<status, archived, editor, crossed, links, belief, pass, lag>>
      /\ writer \in [Writers -> Session] /\ links \in [Hyps -> SUBSET Relation]
      /\ writer[s] \in Session
  BY DEF AddRelation, Load, FlushBelief, Rollback, hypVars, BeliefIInv, BeliefTypeOK
<1>2. \E x \in Session :
        /\ writer' = [writer EXCEPT ![s] = x]
        /\ x.pc # "idle" => pass.pc # "judging" /\ x.h \in Hyps /\ x.own # {}
        /\ x.pc \in {"loaded", "flushed"} /\ ~x.missed => x.read = links[x.h] \cup x.own
        /\ x.pc = "flushed" => \A t \in Writers \ {s} : writer[t].pc = "flushed" => writer[t].h # x.h
  <2>1. writer[s].pc # "idle" => pass.pc # "judging" /\ writer[s].h \in Hyps /\ writer[s].own # {}
    BY DEF BeliefIInv, WritersKnow, PassAlone
  <2>2. CASE \E h \in Hyps : AddRelation(s, h)
    <3>1. PICK h \in Hyps, r \in Relation :
            /\ writer' = [writer EXCEPT ![s] = [IdleWriter EXCEPT !.pc = "inserted", !.h = h, !.own = {r}]]
            /\ pass.pc = "idle"
      BY <2>2 DEF AddRelation
    <3> DEFINE x == [IdleWriter EXCEPT !.pc = "inserted", !.h = h, !.own = {r}]
    <3>2. x \in Session /\ x.pc = "inserted" /\ x.h = h /\ x.own = {r}
      BY DEF IdleWriter, Session
    <3> QED BY <3>1, <3>2
  <2>3. CASE Load(s)
    <3> DEFINE x == [writer[s] EXCEPT !.pc = "loaded", !.read = links[writer[s].h] \cup writer[s].own]
    <3>1. writer' = [writer EXCEPT ![s] = x]
      BY <1>1, <2>3 DEF Load
    <3>2. writer[s].pc = "inserted" /\ links[writer[s].h] \cup writer[s].own \in SUBSET Relation
      BY <1>1, <2>1, <2>3 DEF Load, Session
    <3>3. /\ x \in Session /\ x.pc = "loaded" /\ x.h = writer[s].h /\ x.own = writer[s].own
          /\ x.read = links[writer[s].h] \cup writer[s].own
      BY <1>1, <3>2 DEF Session
    <3> HIDE DEF x
    <3> QED BY <2>1, <3>1, <3>2, <3>3
  <2>4. CASE FlushBelief(s)
    <3> DEFINE x == [writer[s] EXCEPT !.pc = "flushed"]
    <3>1. writer' = [writer EXCEPT ![s] = x]
      BY <1>1, <2>4 DEF FlushBelief
    <3>2. /\ x \in Session /\ x.pc = "flushed" /\ x.h = writer[s].h /\ x.own = writer[s].own
          /\ x.read = writer[s].read /\ x.missed = writer[s].missed
      BY <1>1 DEF Session
    <3>3. writer[s].pc = "loaded" /\ (~writer[s].missed => writer[s].read = links[writer[s].h] \cup writer[s].own)
      BY <2>4 DEF FlushBelief, BeliefIInv, WritersKnow
    <3>4. \A t \in Writers : writer[t].pc = "flushed" => writer[t].h # writer[s].h
      BY <2>4 DEF FlushBelief, RowFree
    <3> HIDE DEF x
    <3> QED BY <2>1, <3>1, <3>2, <3>3, <3>4
  <2>5. CASE Rollback(s)
    <3>1. IdleWriter \in Session /\ IdleWriter.pc = "idle"
      BY DEF IdleWriter, Session
    <3> QED BY <2>5, <3>1 DEF Rollback
  <2> QED BY <2>2, <2>3, <2>4, <2>5
<1>3. PICK x \in Session :
        /\ writer' = [writer EXCEPT ![s] = x]
        /\ x.pc # "idle" => pass.pc # "judging" /\ x.h \in Hyps /\ x.own # {}
        /\ x.pc \in {"loaded", "flushed"} /\ ~x.missed => x.read = links[x.h] \cup x.own
        /\ x.pc = "flushed" => \A t \in Writers \ {s} : writer[t].pc = "flushed" => writer[t].h # x.h
  BY <1>2
<1>4. /\ writer' \in [Writers -> Session] /\ writer'[s] = x
      /\ \A t \in Writers \ {s} : writer'[t] = writer[t]
  BY <1>1, <1>3
<1>5. BeliefTypeOK'
  BY <1>1, <1>4 DEF BeliefIInv, BeliefTypeOK
<1>6. WritersKnow'
  BY <1>1, <1>3, <1>4 DEF BeliefIInv, WritersKnow
<1>7. PassAlone'
  BY <1>1, <1>3, <1>4 DEF BeliefIInv, PassAlone
<1>8. NoneUnknown' /\ EditorsKnow' /\ BeliefCurrent' /\ ArchivedWhenGone'
  BY <1>1 DEF BeliefIInv, NoneUnknown, EditorsKnow, BeliefCurrent, ArchivedWhenGone
<1> QED BY <1>5, <1>6, <1>7, <1>8 DEF BeliefIInv

(* A commit brings relations and belief; who has read them before without  *)
(* this one is marked.                                                     *)
LEMMA WriterCommits ==
  ASSUME BeliefIInv, NEW s \in Writers, Commit(s)
  PROVE  BeliefIInv'
<1> DEFINE h == writer[s].h
<1>1. /\ writer \in [Writers -> Session] /\ writer[s] \in Session
      /\ links \in [Hyps -> SUBSET Relation] /\ belief \in [Hyps -> {Unknown} \cup SUBSET Relation]
      /\ lag \in [Hyps -> {"no", "overlap", "halt"}]
  BY DEF BeliefIInv, BeliefTypeOK
<1>2. /\ writer[s].pc = "flushed" /\ h \in Hyps /\ writer[s].own # {}
      /\ ~writer[s].missed => writer[s].read = links[h] \cup writer[s].own
      /\ pass.pc # "judging"
  BY DEF Commit, BeliefIInv, WritersKnow, PassAlone
<1>3. UNCHANGED <<status, archived, editor, crossed, pass>>
  BY DEF Commit, hypVars
<1>4. /\ links' = [links EXCEPT ![h] = links[h] \cup writer[s].own]
      /\ belief' = [belief EXCEPT ![h] = writer[s].read]
      /\ lag' = [lag EXCEPT ![h] = IF writer[s].missed THEN "overlap" ELSE "no"]
      /\ writer' = [t \in Writers |-> IF t = s THEN IdleWriter
                       ELSE IF writer[t].pc = "loaded" /\ writer[t].h = h
                            THEN [writer[t] EXCEPT !.missed = TRUE] ELSE writer[t]]
  BY DEF Commit
<1> HIDE DEF h
<1>5. /\ links' \in [Hyps -> SUBSET Relation] /\ belief' \in [Hyps -> {Unknown} \cup SUBSET Relation]
      /\ lag' \in [Hyps -> {"no", "overlap", "halt"}]
      /\ links'[h] = links[h] \cup writer[s].own /\ belief'[h] = writer[s].read
      /\ lag'[h] = IF writer[s].missed THEN "overlap" ELSE "no"
      /\ \A g \in Hyps \ {h} : links'[g] = links[g] /\ belief'[g] = belief[g] /\ lag'[g] = lag[g]
  <2>1. writer[s].own \subseteq Relation /\ writer[s].read \subseteq Relation
    BY <1>1 DEF Session
  <2> QED BY <1>1, <1>2, <1>4, <2>1
<1>6. /\ IdleWriter \in Session /\ IdleWriter.pc = "idle" /\ writer'[s] = IdleWriter
      /\ \A t \in Writers \ {s} :
            \/ writer'[t] = writer[t] /\ ~(writer[t].pc = "loaded" /\ writer[t].h = h)
            \/ /\ writer'[t] \in Session /\ writer'[t].missed /\ writer'[t].pc = "loaded"
               /\ writer'[t].h = h /\ writer'[t].own = writer[t].own /\ writer[t].pc = "loaded"
  <2>1. IdleWriter \in Session /\ IdleWriter.pc = "idle"
    BY DEF IdleWriter, Session
  <2>2. ASSUME NEW t \in Writers \ {s}, writer[t].pc = "loaded", writer[t].h = h
        PROVE  /\ writer'[t] \in Session /\ writer'[t].missed /\ writer'[t].pc = "loaded"
               /\ writer'[t].h = h /\ writer'[t].own = writer[t].own
    <3>1. writer'[t] = [writer[t] EXCEPT !.missed = TRUE] /\ writer[t] \in Session
      BY <1>1, <1>4, <2>2
    <3> QED BY <2>2, <3>1 DEF Session
  <2>3. ASSUME NEW t \in Writers \ {s}, ~(writer[t].pc = "loaded" /\ writer[t].h = h)
        PROVE  writer'[t] = writer[t]
    BY <1>4, <2>3
  <2> QED BY <1>4, <2>1, <2>2, <2>3
<1>7. BeliefTypeOK'
  <2>1. writer' = [t \in Writers |-> writer'[t]] /\ \A t \in Writers : writer'[t] \in Session
    BY <1>1, <1>4, <1>6
  <2>2. writer' \in [Writers -> Session]
    BY <2>1
  <2> QED BY <1>3, <1>5, <2>2 DEF BeliefIInv, BeliefTypeOK
<1>8. WritersKnow'
  <2>1. ASSUME NEW t \in Writers, writer'[t].pc # "idle"
        PROVE  writer'[t].h \in Hyps /\ writer'[t].own # {}
    BY <1>2, <1>6, <2>1 DEF BeliefIInv, WritersKnow
  <2>2. ASSUME NEW t \in Writers, writer'[t].pc \in {"loaded", "flushed"}, ~writer'[t].missed
        PROVE  writer'[t].read = links'[writer'[t].h] \cup writer'[t].own
    <3>1. t # s /\ writer'[t] = writer[t] /\ ~(writer[t].pc = "loaded" /\ writer[t].h = h)
      BY <1>6, <2>2
    <3>2. writer[t].h \in Hyps /\ writer[t].read = links[writer[t].h] \cup writer[t].own
      BY <2>2, <3>1 DEF BeliefIInv, WritersKnow
    <3>3. writer[t].h # h
      BY <1>2, <2>2, <3>1 DEF BeliefIInv, WritersKnow, h
    <3> QED BY <1>5, <3>1, <3>2, <3>3
  <2>3. ASSUME NEW t \in Writers, NEW u \in Writers, writer'[t].pc = "flushed",
               writer'[u].pc = "flushed", writer'[t].h = writer'[u].h
        PROVE  t = u
    <3>1. t # s /\ u # s /\ writer'[t] = writer[t] /\ writer'[u] = writer[u]
      BY <1>6, <2>3
    <3> QED BY <2>3, <3>1 DEF BeliefIInv, WritersKnow
  <2> QED BY <2>1, <2>2, <2>3 DEF WritersKnow
<1>9. PassAlone'
  BY <1>2, <1>3, <1>5 DEF BeliefIInv, PassAlone, BeliefTypeOK
<1>10. NoneUnknown' /\ BeliefCurrent'
  BY <1>2, <1>3, <1>5 DEF BeliefIInv, NoneUnknown, BeliefCurrent
<1>11. EditorsKnow' /\ ArchivedWhenGone'
  BY <1>3 DEF BeliefIInv, EditorsKnow, ArchivedWhenGone
<1> QED BY <1>7, <1>8, <1>9, <1>10, <1>11 DEF BeliefIInv

-----------------------------------------------------------------------------
(* The pass.                                                               *)
LEMMA PassKeeps ==
  ASSUME BeliefIInv, SelectInputs \/ (\E h \in Hyps : Judge(h)) \/ HaltPass \/ Recompute
  PROVE  BeliefIInv'
<1> DEFINE Pass == [pc: {"idle", "judging"}, todo: [Hyps -> SUBSET Chunks], written: SUBSET Hyps]
<1>1. /\ UNCHANGED <<status, archived, editor, crossed, writer>>
      /\ pass \in Pass /\ links \in [Hyps -> SUBSET Relation]
      /\ belief \in [Hyps -> {Unknown} \cup SUBSET Relation]
      /\ lag \in [Hyps -> {"no", "overlap", "halt"}]
  BY DEF SelectInputs, Judge, HaltPass, Recompute, hypVars, BeliefIInv, BeliefTypeOK
<1>2. IdlePass \in Pass /\ IdlePass.pc = "idle" /\ IdlePass.written = {}
  BY DEF IdlePass
<1>3. \A s \in Writers : writer[s].pc = "idle"
  BY DEF SelectInputs, Judge, HaltPass, Recompute, BeliefIInv, PassAlone
<1>4. WritersKnow'
  BY <1>1, <1>3 DEF WritersKnow
<1>5. EditorsKnow' /\ ArchivedWhenGone'
  BY <1>1 DEF BeliefIInv, EditorsKnow, ArchivedWhenGone
<1>6. ASSUME pass' \in Pass, links' \in [Hyps -> SUBSET Relation],
             belief' \in [Hyps -> {Unknown} \cup SUBSET Relation],
             lag' \in [Hyps -> {"no", "overlap", "halt"}],
             pass'.pc = "idle" => pass'.written = {},
             \A g \in pass'.written : links'[g] # {},
             NoneUnknown', BeliefCurrent'
      PROVE  BeliefIInv'
  <2>1. BeliefTypeOK'
    BY <1>1, <1>6 DEF BeliefIInv, BeliefTypeOK
  <2>2. PassAlone'
    BY <1>1, <1>3, <1>6 DEF PassAlone
  <2> QED BY <1>4, <1>5, <1>6, <2>1, <2>2 DEF BeliefIInv
<1>7. CASE SelectInputs
  <2> DEFINE inputs == [h \in Hyps |-> IF status[h] \in Open /\ h \notin archived
                                     THEN Unjudged(h) ELSE {}]
  <2>1. inputs \in [Hyps -> SUBSET Chunks]
    BY DEF Unjudged
  <2>2. pass' = [pc |-> "judging", written |-> {}, todo |-> inputs]
        /\ pass.written = {} /\ UNCHANGED <<links, belief, lag>>
    BY <1>7 DEF SelectInputs, BeliefIInv, PassAlone
  <2> HIDE DEF inputs
  <2>3. pass' \in Pass /\ pass'.pc = "judging" /\ pass'.written = {}
    BY <2>1, <2>2
  <2>4. NoneUnknown' /\ BeliefCurrent'
    BY <2>2, <2>3 DEF BeliefIInv, NoneUnknown, BeliefCurrent
  <2> QED BY <1>1, <1>6, <2>2, <2>3, <2>4
<1>8. ASSUME NEW h \in Hyps, Judge(h)
      PROVE  BeliefIInv'
  <2>1. PICK supporting \in SUBSET pass.todo[h], contradicting \in SUBSET pass.todo[h] :
          LET new == supporting \X {"supports"} \cup contradicting \X {"contradicts"} IN
          /\ links' = [links EXCEPT ![h] = @ \cup new]
          /\ pass' = [pass EXCEPT !.todo[h] = {}, !.written = IF new = {} THEN @ ELSE @ \cup {h}]
    BY <1>8 DEF Judge
  <2> DEFINE new == supporting \X {"supports"} \cup contradicting \X {"contradicts"}
  <2>2. new \subseteq Relation
    BY <1>1 DEF Relation
  <2>3. /\ links' = [links EXCEPT ![h] = links[h] \cup new]
        /\ pass' = [pass EXCEPT !.todo = [pass.todo EXCEPT ![h] = {}],
                                !.written = IF new = {} THEN pass.written ELSE pass.written \cup {h}]
        /\ pass.pc = "judging" /\ UNCHANGED <<belief, lag>>
    BY <1>8, <2>1 DEF Judge
  <2> HIDE DEF new
  <2>4. pass' \in Pass /\ pass'.pc = "judging"
        /\ pass'.written = IF new = {} THEN pass.written ELSE pass.written \cup {h}
    BY <1>1, <2>3
  <2>5. /\ links' \in [Hyps -> SUBSET Relation] /\ links'[h] = links[h] \cup new
        /\ \A g \in Hyps \ {h} : links'[g] = links[g]
    BY <1>1, <2>2, <2>3
  <2>6. \A g \in pass'.written : links'[g] # {}
    BY <1>1, <2>4, <2>5 DEF BeliefIInv, PassAlone
  <2>7. NoneUnknown' /\ BeliefCurrent'
    <3>1. CASE new = {}
      <4>1. links'[h] = links[h] /\ pass'.written = pass.written
        BY <2>4, <2>5, <3>1
      <4>2. \A g \in Hyps : links'[g] = links[g]
        BY <2>5, <4>1
      <4> QED BY <2>3, <4>1, <4>2 DEF BeliefIInv, NoneUnknown, BeliefCurrent
    <3>2. CASE new # {}
      <4>1. links'[h] # {} /\ pass'.written = pass.written \cup {h}
        BY <2>4, <2>5, <3>2
      <4> QED BY <2>3, <2>5, <4>1 DEF BeliefIInv, NoneUnknown, BeliefCurrent
    <3> QED BY <3>1, <3>2
  <2> QED BY <1>1, <1>6, <2>3, <2>4, <2>5, <2>6, <2>7
<1>9. CASE HaltPass
  <2>1. /\ pass' = IdlePass /\ UNCHANGED <<links, belief>>
        /\ lag' = [h \in Hyps |-> IF h \in pass.written THEN "halt" ELSE lag[h]]
    BY <1>9 DEF HaltPass
  <2>2. lag' \in [Hyps -> {"no", "overlap", "halt"}]
    BY <1>1, <2>1
  <2>3. NoneUnknown' /\ BeliefCurrent'
    BY <2>1 DEF BeliefIInv, NoneUnknown, BeliefCurrent
  <2> QED BY <1>1, <1>2, <1>6, <2>1, <2>2, <2>3
<1>10. CASE Recompute
  <2>1. /\ pass' = IdlePass /\ UNCHANGED links
        /\ belief' = [h \in Hyps |-> IF h \in pass.written THEN links[h] ELSE belief[h]]
        /\ lag' = [h \in Hyps |-> IF h \in pass.written THEN "no" ELSE lag[h]]
    BY <1>10 DEF Recompute
  <2>2. lag' \in [Hyps -> {"no", "overlap", "halt"}]
        /\ belief' \in [Hyps -> {Unknown} \cup SUBSET Relation]
    BY <1>1, <2>1
  <2>3. NoneUnknown' /\ BeliefCurrent'
    BY <2>1 DEF BeliefIInv, NoneUnknown, BeliefCurrent, PassAlone
  <2> QED BY <1>1, <1>2, <1>6, <2>1, <2>2, <2>3
<1> QED BY <1>7, <1>8, <1>9, <1>10

-----------------------------------------------------------------------------
(* Those who edit leave the relations and beliefs alone.                   *)
LEMMA EditorFrame ==
  ASSUME BeliefIInv, UNCHANGED <<links, belief, writer, pass, lag>>,
         status' \in [Hyps -> Open \cup Settled], archived' \subseteq Hyps,
         crossed' \subseteq Hyps, editor' \in [Editors -> Reading],
         EditorsKnow', ArchivedWhenGone'
  PROVE  BeliefIInv'
<1>1. BeliefTypeOK'
  BY DEF BeliefIInv, BeliefTypeOK
<1>2. WritersKnow'
  BY DEF BeliefIInv, WritersKnow
<1>3. PassAlone' /\ NoneUnknown' /\ BeliefCurrent'
  BY DEF BeliefIInv, PassAlone, NoneUnknown, BeliefCurrent
<1> QED BY <1>1, <1>2, <1>3 DEF BeliefIInv

(* A session writes h; what it read there was open.                        *)
LEMMA WriteKeeps ==
  ASSUME BeliefIInv, NEW e \in Editors, NEW h \in Hyps, Write(e, h),
         editor[e].status \in Open, NEW to \in Open \cup Settled,
         status' = [status EXCEPT ![h] = to], archived' \in {archived, archived \cup {h}},
         h \notin archived => (h \in archived' <=> to \in {"expired", "superseded"})
  PROVE  BeliefIInv'
<1>1. /\ status \in [Hyps -> Open \cup Settled] /\ archived \subseteq Hyps
      /\ crossed \subseteq Hyps /\ editor \in [Editors -> Reading]
  BY DEF BeliefIInv, BeliefTypeOK
<1>2. /\ h = editor[e].h /\ UNCHANGED <<links, belief, writer, pass, lag>>
      /\ crossed' = IF editor[e].stale THEN crossed \cup {h} ELSE crossed
      /\ editor' = [d \in Editors |->
                       IF d = e THEN IdleEditor
                       ELSE IF editor[d].h = h THEN [editor[d] EXCEPT !.stale = TRUE]
                       ELSE editor[d]]
  BY DEF Write
<1>3. /\ status' \in [Hyps -> Open \cup Settled] /\ archived' \subseteq Hyps
      /\ crossed' \subseteq Hyps /\ status'[h] = to
      /\ \A g \in Hyps \ {h} : status'[g] = status[g] /\ (g \in archived' <=> g \in archived)
  BY <1>1, <1>2
<1>4. \A d \in Editors :
        /\ editor'[d] \in Reading
        /\ \/ editor'[d] = IdleEditor
           \/ editor'[d] = editor[d] /\ editor[d].h # h
           \/ /\ editor'[d].stale /\ editor'[d].verdict = editor[d].verdict
              /\ editor'[d].truth = editor[d].truth
  <2>1. IdleEditor \in Reading
    BY DEF IdleEditor, Reading
  <2>2. TAKE d \in Editors
  <2>3. CASE d = e
    BY <1>2, <2>1, <2>3
  <2>4. CASE d # e /\ editor[d].h # h
    BY <1>1, <1>2, <2>4
  <2>5. CASE d # e /\ editor[d].h = h
    <3>1. editor'[d] = [editor[d] EXCEPT !.stale = TRUE] /\ editor[d] \in Reading
      BY <1>1, <1>2, <2>5
    <3> QED BY <3>1 DEF Reading
  <2> QED BY <2>3, <2>4, <2>5
<1>5. editor' \in [Editors -> Reading]
  BY <1>2, <1>4
<1>6. EditorsKnow'
  BY <1>3, <1>4 DEF BeliefIInv, EditorsKnow, IdleEditor
<1>7. ArchivedWhenGone'
  <2>1. ASSUME NEW g \in Hyps \ crossed', g # h
        PROVE  g \in archived' <=> status'[g] \in {"expired", "superseded"}
    BY <1>2, <1>3, <2>1 DEF BeliefIInv, ArchivedWhenGone
  <2>2. ASSUME h \notin crossed'
        PROVE  h \in archived' <=> status'[h] \in {"expired", "superseded"}
    <3>1. ~editor[e].stale /\ h \notin crossed
      BY <1>2, <2>2
    <3>2. status[h] = editor[e].status
      BY <1>2, <3>1 DEF BeliefIInv, EditorsKnow, Open
    <3>3. h \notin archived
      BY <3>1, <3>2 DEF BeliefIInv, ArchivedWhenGone, Open
    <3> QED BY <1>3, <3>1, <3>2, <3>3
  <2> QED BY <2>1, <2>2 DEF ArchivedWhenGone
<1> QED BY <1>2, <1>3, <1>5, <1>6, <1>7, EditorFrame

LEMMA EditorKeeps ==
  ASSUME BeliefIInv, NEW e \in Editors, NEW h \in Hyps,
         Sweep(e, h) \/ ResolveEvent(e, h) \/ Transition(e, h) \/ Supersede(e, h)
  PROVE  BeliefIInv'
<1>1. CASE Sweep(e, h)
  <2>1. CASE Below(e)
    <3>1. /\ status' = [status EXCEPT ![h] = "expired"] /\ archived' = archived \cup {h}
          /\ Write(e, h) /\ editor[e].status \in Open /\ "expired" \in Open \cup Settled
      BY <1>1, <2>1 DEF Sweep, Below, Settled
    <3> QED BY <3>1, WriteKeeps
  <2>2. CASE ~Below(e) /\ Above(e)
    <3>1. /\ status' = [status EXCEPT ![h] = "validated"] /\ archived' = archived
          /\ Write(e, h) /\ editor[e].status \in Open /\ "validated" \in Open \cup Settled
      BY <1>1, <2>2 DEF Sweep, Above, Open, Settled
    <3> QED BY <3>1, WriteKeeps
  <2> QED BY <1>1, <2>1, <2>2 DEF Sweep
<1>2. CASE ResolveEvent(e, h)
  <2>1. PICK to \in {"validated", "falsified"} : status' = [status EXCEPT ![h] = to]
    BY <1>2 DEF ResolveEvent
  <2>2. to \in Open \cup Settled /\ to \notin {"expired", "superseded"}
    BY DEF Settled
  <2>3. editor[e].status \in Open /\ Write(e, h) /\ archived' = archived
    BY <1>2 DEF ResolveEvent
  <2> QED BY <2>1, <2>2, <2>3, WriteKeeps
<1>3. CASE Transition(e, h)
  <2>1. PICK to \in AllowedTransitions(editor[e].status) :
          /\ status' = [status EXCEPT ![h] = to]
          /\ archived' = IF to \in {"expired", "superseded"} THEN archived \cup {h} ELSE archived
    BY <1>3 DEF Transition
  <2>2. editor[e].status \in Open /\ to \in Open \cup Settled
    BY <2>1 DEF AllowedTransitions, Open, Settled
  <2>3. Write(e, h)
    BY <1>3 DEF Transition
  <2>4. /\ archived' \in {archived, archived \cup {h}}
        /\ h \notin archived => (h \in archived' <=> to \in {"expired", "superseded"})
    BY <2>1
  <2> QED BY <2>1, <2>2, <2>3, <2>4, WriteKeeps
<1>4. CASE Supersede(e, h)
  <2>1. /\ status' = [status EXCEPT ![h] = "superseded"] /\ archived' = archived \cup {h}
        /\ Write(e, h) /\ editor[e].status \in Open /\ "superseded" \in Open \cup Settled
    BY <1>4 DEF Supersede, Settled
  <2> QED BY <2>1, WriteKeeps
<1> QED BY <1>1, <1>2, <1>3, <1>4

LEMMA ReadKeeps ==
  ASSUME BeliefIInv, NEW e \in Editors, Leave(e) \/ \E h \in Hyps : ReadHyp(e, h)
  PROVE  BeliefIInv'
<1>1. /\ UNCHANGED <<status, archived, links, belief, writer, pass, lag, crossed>>
      /\ status \in [Hyps -> Open \cup Settled] /\ archived \subseteq Hyps
      /\ crossed \subseteq Hyps /\ editor \in [Editors -> Reading]
  BY DEF Leave, ReadHyp, BeliefIInv, BeliefTypeOK
<1>2. ArchivedWhenGone'
  BY <1>1 DEF BeliefIInv, ArchivedWhenGone
<1>3. ASSUME NEW x \in Reading, editor' = [editor EXCEPT ![e] = x],
             x.status # "none" => x.h \in Hyps /\ x.status = status[x.h],
             x.verdict \in {"low", "high"} => x.truth = x.verdict
      PROVE  BeliefIInv'
  <2>1. /\ editor' \in [Editors -> Reading] /\ editor'[e] = x
        /\ \A d \in Editors \ {e} : editor'[d] = editor[d]
    BY <1>1, <1>3
  <2>2. EditorsKnow'
    BY <1>1, <1>3, <2>1 DEF BeliefIInv, EditorsKnow
  <2> QED BY <1>1, <1>2, <2>1, <2>2, EditorFrame
<1>4. CASE Leave(e)
  <2>1. /\ IdleEditor \in Reading /\ IdleEditor.status = "none" /\ IdleEditor.verdict = "none"
    BY DEF IdleEditor, Reading
  <2> QED BY <1>3, <1>4, <2>1 DEF Leave
<1>5. ASSUME NEW h \in Hyps, ReadHyp(e, h)
      PROVE  BeliefIInv'
  <2> DEFINE verdict == Belief(belief[h])
             truth == IF lag[h] = "no" /\ h \notin pass.written
                      THEN Belief(links[h]) ELSE Belief(belief[h])
             x == [h |-> h, status |-> status[h], verdict |-> verdict, truth |-> truth,
                   stale |-> FALSE]
  <2>1. /\ verdict \in {"none", "low", "between", "high"}
        /\ truth \in {"none", "low", "between", "high"}
    BY DEF Belief
  <2>2. verdict \in {"low", "high"} => truth = verdict
    <3>1. CASE links[h] = {}
      <4>1. verdict = "none"
        BY <3>1 DEF BeliefIInv, NoneUnknown, Belief
      <4> QED BY <4>1
    <3>2. CASE links[h] # {} /\ lag[h] = "no" /\ h \notin pass.written
      <4>1. belief[h] = links[h]
        BY <3>2 DEF BeliefIInv, BeliefCurrent
      <4> QED BY <4>1
    <3> QED BY <3>1, <3>2
  <2>3. editor' = [editor EXCEPT ![e] = x]
    BY <1>5 DEF ReadHyp
  <2> HIDE DEF verdict, truth
  <2>4. x \in Reading
    BY <1>1, <2>1 DEF Reading
  <2>5. x.status = status[h] /\ x.h = h /\ x.verdict = verdict /\ x.truth = truth
    OBVIOUS
  <2> HIDE DEF x
  <2> QED BY <1>3, <2>2, <2>3, <2>4, <2>5
<1> QED BY <1>4, <1>5

LEMMA BeliefsKept == BeliefIInv /\ [BeliefNext]_beliefVars => BeliefIInv'
<1> SUFFICES ASSUME BeliefIInv, [BeliefNext]_beliefVars PROVE BeliefIInv'
  OBVIOUS
<1>1. CASE UNCHANGED beliefVars
  BY <1>1 DEF beliefVars, BeliefIInv, BeliefTypeOK, WritersKnow, PassAlone, NoneUnknown,
              EditorsKnow, BeliefCurrent, ArchivedWhenGone
<1>2. CASE BeliefNext
  BY <1>2, WriterKeeps, WriterCommits, PassKeeps, EditorKeeps, ReadKeeps DEF BeliefNext
<1> QED BY <1>1, <1>2

(* Whatever sessions overlap and passes halt, a belief is that of the      *)
(* relations unless one of the three causes is on record; archived rows    *)
(* and statuses agree unless two sessions crossed in the row; and the sweep*)
(* acts only on a verdict that was true.                                   *)
THEOREM BeliefsAreSound == BeliefSpec => BeliefsSound
<1>1. BeliefIInv => BeliefCurrent /\ ArchivedWhenGone
  BY DEF BeliefIInv
<1>2. BeliefIInv => SweepHonest
  <2>1. SUFFICES ASSUME BeliefIInv, NEW e \in Editors, NEW h \in Hyps, Sweep(e, h)
                 PROVE  editor[e].truth = IF status'[h] = "validated" THEN "high" ELSE "low"
    BY DEF SweepHonest
  <2>2. status' = [status EXCEPT ![h] = IF Below(e) THEN "expired" ELSE "validated"]
        /\ status \in [Hyps -> Open \cup Settled]
    BY <2>1 DEF Sweep, BeliefIInv, BeliefTypeOK
  <2>3. status'[h] = IF Below(e) THEN "expired" ELSE "validated"
    BY <2>2
  <2>4. editor[e].truth = editor[e].verdict /\ editor[e].verdict = IF Below(e) THEN "low" ELSE "high"
    BY <2>1 DEF Sweep, Below, Above, BeliefIInv, EditorsKnow
  <2> QED BY <2>3, <2>4
<1> QED BY <1>1, <1>2, BeliefStarts, BeliefsKept, PTL DEF BeliefSpec, BeliefsSound

-----------------------------------------------------------------------------
(***************************************************************************)
(* EventStream: what the stream of a run has sent when it ends, for any    *)
(* number of events and size of a batch. The inductive invariant says that *)
(* the cursor has passed no event that was not sent, but those committed   *)
(* behind it; so a last batch that is not full has everything that was due.*)
(***************************************************************************)

EventRows == [Events -> [at: 0..MaxClock, state: {"none", "flushed", "committed"}]]

(* The cursor has not passed a committed event that was not sent, unless it*)
(* was committed behind it.                                                *)
CursorBehind ==
    \A e \in Committed \ (stream.seen \cup behind) : event[e].at >= stream.cursor

StreamIInv == StreamTypeOK /\ CursorBehind /\ EndSendsAll

LEMMA StreamStarts == StreamInit => StreamIInv
<1> SUFFICES ASSUME StreamInit PROVE StreamIInv
  OBVIOUS
<1>1. /\ clock = 1 /\ event = [e \in Events |-> [at |-> 0, state |-> "none"]] /\ over = FALSE
      /\ stream = [pc |-> "run", terminal |-> FALSE, cursor |-> 0, seen |-> {}, full |-> FALSE]
      /\ behind = {} /\ due = {}
  BY DEF StreamInit
<1>2. 1 \in 1..MaxClock /\ 0 \in 0..MaxClock
  BY StreamAssumption
<1>3. stream \in Stream /\ stream.pc = "run"
  BY <1>1, <1>2 DEF Stream
<1>4. event \in EventRows
  BY <1>1, <1>2 DEF EventRows
<1>5. Committed = {}
  BY <1>1 DEF Committed
<1>6. StreamTypeOK
  BY <1>1, <1>2, <1>3, <1>4 DEF StreamTypeOK, EventRows
<1> QED BY <1>1, <1>3, <1>5, <1>6 DEF StreamIInv, CursorBehind, EndSendsAll

LEMMA EventRowKeeps ==
  ASSUME StreamIInv, NEW e \in Events, Flush(e) \/ CommitEvent(e) \/ EndRun(e)
  PROVE  StreamIInv'
<1>1. /\ event \in EventRows /\ stream \in Stream /\ stream' = stream /\ due' = due
      /\ event[e].at \in Nat /\ stream.cursor \in Nat
      /\ clock' = clock /\ clock \in 1..MaxClock /\ over' \in BOOLEAN
      /\ behind \subseteq Committed /\ due \subseteq Committed
  <2>1. /\ event \in EventRows /\ stream \in Stream /\ clock \in 1..MaxClock /\ over \in BOOLEAN
        /\ behind \subseteq Committed /\ due \subseteq Committed
    BY DEF StreamIInv, StreamTypeOK, EventRows
  <2>2. /\ stream' = stream /\ due' = due /\ clock' = clock
        /\ over' = over \/ over' = TRUE
    BY Zenon DEF Flush, CommitEvent, EndRun
  <2>3. event[e].at \in Nat
    BY <2>1, StreamAssumption DEF EventRows
  <2>4. stream.cursor \in Nat
    BY <2>1, StreamAssumption DEF Stream
  <2>5. over' \in BOOLEAN
    BY <2>1, <2>2
  <2> QED BY <2>1, <2>2, <2>3, <2>4, <2>5
<1>2. CASE Flush(e)
  <2>1. event' = [event EXCEPT ![e] = [at |-> clock, state |-> "flushed"]] /\ behind' = behind
        /\ event[e].state = "none"
    BY <1>2 DEF Flush
  <2>2. event' \in EventRows /\ \A f \in Events \ {e} : event'[f] = event[f]
    BY <1>1, <2>1 DEF EventRows
  <2>3. event'[e].state = "flushed"
    BY <1>1, <2>1 DEF EventRows
  <2>4. Committed' = Committed /\ e \notin Committed
    BY <2>1, <2>2, <2>3 DEF Committed
  <2>5. CursorBehind'
    BY <1>1, <2>1, <2>2, <2>4 DEF StreamIInv, CursorBehind, Committed
  <2> QED BY <1>1, <2>1, <2>2, <2>4, <2>5 DEF StreamIInv, StreamTypeOK, EventRows, EndSendsAll
<1>3. CASE CommitEvent(e) \/ EndRun(e)
  <2>1. event' = [event EXCEPT ![e].state = "committed"]
        /\ behind' = IF event[e].at < stream.cursor THEN behind \cup {e} ELSE behind
    BY <1>3 DEF CommitEvent, EndRun
  <2>2. event' \in EventRows /\ \A f \in Events \ {e} : event'[f] = event[f]
    BY <1>1, <2>1 DEF EventRows
  <2>3. event'[e].state = "committed" /\ event'[e].at = event[e].at
    BY <1>1, <2>1 DEF EventRows
  <2>4. Committed' = Committed \cup {e}
    BY <2>2, <2>3 DEF Committed
  <2>5. CursorBehind'
    <3>1. ASSUME NEW f \in Committed' \ (stream.seen \cup behind')
          PROVE  event'[f].at >= stream.cursor
      <4>1. CASE f = e
        BY <1>1, <2>1, <2>3, <3>1, <4>1
      <4>2. CASE f # e
        BY <2>1, <2>2, <2>4, <3>1, <4>2 DEF StreamIInv, CursorBehind, Committed
      <4> QED BY <4>1, <4>2
    <3> QED BY <1>1, <3>1 DEF CursorBehind
  <2>6. EndSendsAll'
    BY <1>1, <2>1 DEF StreamIInv, EndSendsAll
  <2> QED BY <1>1, <2>1, <2>2, <2>4, <2>5, <2>6 DEF StreamIInv, StreamTypeOK, EventRows
<1> QED BY <1>2, <1>3

(* What was not in the batch is not older than what was; a batch that is   *)
(* not full is everything.                                                 *)
LEMMA BatchIsOldest ==
  ASSUME NEW b \in Batches
  PROVE  /\ b \subseteq Matching
         /\ \A e \in b, f \in Matching \ b : event[e].at <= event[f].at
         /\ Cardinality(b) # Limit => b = Matching
<1>1. /\ b \subseteq Matching /\ \A e \in b, f \in Matching \ b : event[e].at <= event[f].at
      /\ Cardinality(b) = IF Cardinality(Matching) < Limit THEN Cardinality(Matching) ELSE Limit
  BY DEF Batches
<1>2. IsFiniteSet(Matching)
  BY StreamAssumption, FS_Subset DEF Matching, Committed
<1>3. Cardinality(b) # Limit => Cardinality(b) = Cardinality(Matching)
  BY <1>1
<1> QED BY <1>1, <1>2, <1>3, FS_Subset

(* The latest time of a set of events.                                     *)
LEMMA LatestTime ==
  ASSUME event \in EventRows, NEW S, S \subseteq Events, S # {}
  PROVE  LET top == CHOOSE t \in 0..MaxClock : /\ \E e \in S : event[e].at = t
                                               /\ \A e \in S : event[e].at <= t
         IN  /\ top \in 0..MaxClock /\ \E e \in S : event[e].at = top
             /\ \A e \in S : event[e].at <= top
<1> DEFINE T == {MaxClock - event[e].at : e \in S}
<1>1. \A e \in S : event[e].at \in 0..MaxClock
  BY DEF EventRows
<1>2. T \subseteq Nat /\ T # {}
  BY <1>1, StreamAssumption
<1>3. PICK m \in T : \A n \in T : m <= n
  BY <1>2, LeastNatural
<1>4. PICK e \in S : m = MaxClock - event[e].at
  BY <1>3
<1>5. \A f \in S : event[f].at <= event[e].at
  <2>1. TAKE f \in S
  <2>2. MaxClock - event[e].at <= MaxClock - event[f].at
    BY <1>3, <1>4
  <2> QED BY <1>1, <2>2, StreamAssumption
<1>6. \E t \in 0..MaxClock : (\E f \in S : event[f].at = t) /\ \A f \in S : event[f].at <= t
  BY <1>1, <1>5
<1> QED BY <1>6

LEMMA EventsReadKeep ==
  ASSUME StreamIInv, ReadEvents
  PROVE  StreamIInv'
<1>1. PICK b \in Batches :
        LET new == {e \in b : e \notin stream.seen} IN
        stream' = [pc |-> IF stream.terminal THEN "ended" ELSE "run",
                   terminal |-> stream.terminal,
                   cursor |-> IF new = {} THEN stream.cursor
                              ELSE CHOOSE t \in 0..MaxClock :
                                      /\ \E e \in new : event[e].at = t
                                      /\ \A e \in new : event[e].at <= t,
                   seen |-> stream.seen \cup new,
                   full |-> Cardinality(b) = Limit]
  BY DEF ReadEvents
<1> DEFINE new == {e \in b : e \notin stream.seen}
           top == CHOOSE t \in 0..MaxClock : /\ \E e \in new : event[e].at = t
                                             /\ \A e \in new : event[e].at <= t
<1>2. /\ event' = event /\ due' = due /\ behind' = behind
      /\ event \in EventRows /\ stream \in Stream /\ clock' = clock /\ over' = over
      /\ clock \in 1..MaxClock /\ over \in BOOLEAN
      /\ behind \subseteq Committed /\ due \subseteq Committed
      /\ b \subseteq Matching /\ Matching \subseteq Committed /\ Committed \subseteq Events
      /\ \A e \in b, f \in Matching \ b : event[e].at <= event[f].at
      /\ Cardinality(b) # Limit => b = Matching
  BY BatchIsOldest DEF ReadEvents, StreamIInv, StreamTypeOK, EventRows, Matching, Committed
<1>3. new # {} => /\ top \in 0..MaxClock /\ \E e \in new : event[e].at = top
                  /\ \A e \in new : event[e].at <= top
  <2>1. new \subseteq Events
    BY <1>2
  <2> HIDE DEF new
  <2> QED BY <1>2, <2>1, LatestTime
<1>4. /\ stream'.cursor = IF new = {} THEN stream.cursor ELSE top
      /\ stream'.seen = stream.seen \cup b /\ stream'.full = (Cardinality(b) = Limit)
  <2>1. stream'.cursor = IF new = {} THEN stream.cursor ELSE top
    BY <1>1
  <2>2. stream'.seen = stream.seen \cup new /\ stream'.full = (Cardinality(b) = Limit)
    BY <1>1
  <2> QED BY <2>1, <2>2
<1>5. stream' \in Stream
  <2>1. stream.cursor \in 0..MaxClock /\ stream.terminal \in BOOLEAN /\ stream.seen \subseteq Events
    BY <1>2 DEF Stream
  <2>2. new \subseteq Events
    BY <1>2
  <2> DEFINE c == IF new = {} THEN stream.cursor ELSE top
  <2>3. c \in 0..MaxClock
    BY <1>3, <2>1
  <2>4. stream' = [pc |-> IF stream.terminal THEN "ended" ELSE "run", terminal |-> stream.terminal,
                   cursor |-> c, seen |-> stream.seen \cup new, full |-> Cardinality(b) = Limit]
    BY <1>1, Zenon
  <2> HIDE DEF c, new, top
  <2> QED BY <2>1, <2>2, <2>3, <2>4 DEF Stream
<1>6. Committed' = Committed
  BY <1>2 DEF Committed
<1>7. CursorBehind'
  <2>1. ASSUME NEW f \in Committed \ (stream'.seen \cup behind)
        PROVE  event[f].at >= stream'.cursor
    <3>1. event[f].at >= stream.cursor /\ f \notin b
      BY <1>4, <2>1 DEF StreamIInv, CursorBehind
    <3>2. CASE new = {}
      BY <1>4, <3>1, <3>2
    <3>3. CASE new # {}
      <4>1. f \in Matching \ b
        BY <2>1, <3>1 DEF Matching
      <4>2. PICK e \in new : event[e].at = top
        BY <1>3, <3>3
      <4>3. event[e].at <= event[f].at
        BY <1>2, <4>1, <4>2
      <4>4. event[e].at \in Int /\ event[f].at \in Int
        <5>1. e \in Events /\ f \in Events
          BY <1>2, <2>1, <4>2
        <5>2. event \in EventRows
          BY <1>2
        <5> QED BY <5>1, <5>2, StreamAssumption DEF EventRows
      <4> QED BY <1>4, <3>3, <4>2, <4>3, <4>4
    <3> QED BY <3>2, <3>3
  <2> QED BY <1>2, <1>6, <2>1 DEF CursorBehind
<1>8. EndSendsAll'
  <2>1. ASSUME Cardinality(b) # Limit, NEW e \in due PROVE e \in stream.seen \cup b \cup behind
    <3>1. e \in Committed /\ b = Matching
      BY <1>2, <2>1
    <3> QED BY <3>1 DEF StreamIInv, CursorBehind, Matching
  <2> QED BY <1>2, <1>4, <2>1 DEF EndSendsAll
<1> QED BY <1>2, <1>5, <1>6, <1>7, <1>8 DEF StreamIInv, StreamTypeOK, EventRows

LEMMA StreamKeeps == StreamIInv /\ [StreamNext]_streamVars => StreamIInv'
<1> SUFFICES ASSUME StreamIInv, [StreamNext]_streamVars PROVE StreamIInv'
  OBVIOUS
<1>1. CASE \E e \in Events : Flush(e) \/ CommitEvent(e) \/ EndRun(e)
  BY <1>1, EventRowKeeps
<1>2. CASE ReadEvents
  BY <1>2, EventsReadKeep
<1>3. CASE ReadRun
  <2>1. /\ stream' = [stream EXCEPT !.pc = "events", !.terminal = over]
        /\ due' = IF over THEN Committed ELSE due
        /\ UNCHANGED <<clock, event, over, behind>> /\ stream \in Stream /\ over \in BOOLEAN
    BY <1>3 DEF ReadRun, StreamIInv, StreamTypeOK
  <2>2. /\ stream' \in Stream /\ stream'.pc = "events"
        /\ stream'.seen = stream.seen /\ stream'.cursor = stream.cursor
    BY <2>1 DEF Stream
  <2>3. Committed' = Committed
    BY <2>1 DEF Committed
  <2> QED BY <2>1, <2>2, <2>3 DEF StreamIInv, StreamTypeOK, CursorBehind, EndSendsAll
<1>4. CASE ClockTicks
  BY <1>4, StreamAssumption DEF ClockTicks, StreamIInv, StreamTypeOK, Committed, CursorBehind,
                                EndSendsAll
<1>5. CASE UNCHANGED streamVars
  BY <1>5 DEF streamVars, StreamIInv, StreamTypeOK, Committed, CursorBehind, EndSendsAll
<1> QED BY <1>1, <1>2, <1>3, <1>4, <1>5 DEF StreamNext, Poll

(* Whatever is committed between the reads of the loop, and in whatever    *)
(* order: what was there when the run was found to be over has been sent,  *)
(* was committed behind the cursor, or did not fit into the last batch.    *)
THEOREM EndIsComplete == StreamSpec => []EndSendsAll
<1>1. StreamIInv => EndSendsAll
  BY DEF StreamIInv
<1> QED BY <1>1, StreamStarts, StreamKeeps, PTL DEF StreamSpec

-----------------------------------------------------------------------------
(***************************************************************************)
(* Sources: what is kept of a source from run to run, for any width of an id,*)
(* length of a list and number of changes.  The invariant says that a stored*)
(* row was made of an answer the source may have given; for a feed the stretch*)
(* of items it lists follows from the id, so a second answer with one id is*)
(* the same answer.                                                        *)
(***************************************************************************)

(* The items of an answer are a stretch of what was published.             *)
Stretches == {s \in SUBSET Nat : \E lo, hi \in Nat : lo <= hi /\ s = lo..hi}

Senders == {"ainvest_congress", "capitol_trades"}
AnswerRecords == [items: Stretches, dated: Nat, rest: Nat, by: Senders]

(* Nothing of a feed changes but the stretch, and Congress's trades alone  *)
(* have two senders.                                                       *)
Possible ==
    {a \in AnswerRecords :
        source \in Feeds => /\ a.dated = 1 /\ a.rest = 0
                            /\ source # "congress_trades" => a.by = "ainvest_congress"}

RowsKnown == \A r \in stored : \E a \in Possible : r = Row(a)

(* A profile under whose fields a row is stored was answered.              *)
ProfilesTold ==
    /\ source # "finnhub_profile" => holders = 0
    /\ holders \in 0..2
    /\ source = "finnhub_profile" =>
          \A r \in stored : r.id # NoFields => r.id \in former \cup {told}

FeedIInv ==
    /\ answer \in Possible /\ answer.by = "ainvest_congress"
    /\ RowsKnown /\ ProfilesTold /\ SourcesSound

(* The ids of the sources it matters for.                                  *)
LEMMA IdOf ==
  ASSUME NEW a
  PROVE  /\ source \in {"tiingo_news", "finnhub_insider"} => DocumentOf(a).id = Listed(a.items)
         /\ source = "congress_trades" => DocumentOf(a).id = <<a.by, Listed(a.items)>>
         /\ source = "finnhub_profile" => DocumentOf(a).id = a.dated
         /\ source \in {"polymarket_events", "congress_bills"} => DocumentOf(a).live
<1>1. CASE source = "tiingo_news"
  BY <1>1 DEF DocumentOf, TiingoNews, Document
<1>2. CASE source = "finnhub_insider"
  BY <1>2 DEF DocumentOf, FinnhubInsider, Document
<1>3. CASE source = "congress_trades"
  BY <1>3 DEF DocumentOf, CongressTrades, Document
<1>4. CASE source = "finnhub_profile"
  BY <1>4 DEF DocumentOf, FinnhubProfile, Document
<1>5. CASE source = "polymarket_events"
  BY <1>5 DEF DocumentOf, PolymarketEvents, Document
<1>6. CASE source = "congress_bills"
  BY <1>6 DEF DocumentOf, CongressBills, Document
<1> QED BY <1>1, <1>2, <1>3, <1>4, <1>5, <1>6

(* How many items are older than one of a stretch, and how many are newer. *)
LEMMA OlderNewer ==
  ASSUME NEW lo \in Nat, NEW hi \in Nat, NEW k \in lo..hi
  PROVE  /\ Cardinality({j \in lo..hi : j < k}) = k - lo
         /\ Cardinality({j \in lo..hi : j > k}) = hi - k
<1>1. {j \in lo..hi : j < k} = lo..(k - 1) /\ {j \in lo..hi : j > k} = (k + 1)..hi
  OBVIOUS
<1>2. lo \in Int /\ hi \in Int /\ k \in Int /\ k - 1 \in Int /\ k + 1 \in Int /\ lo <= k /\ k <= hi
  OBVIOUS
<1>3. Cardinality(lo..(k - 1)) = k - lo
  <2>1. Cardinality(lo..(k - 1)) = IF lo > k - 1 THEN 0 ELSE k - 1 - lo + 1
    BY <1>2, FS_Interval
  <2> QED BY <1>2, <2>1
<1>4. Cardinality((k + 1)..hi) = hi - k
  <2>1. Cardinality((k + 1)..hi) = IF k + 1 > hi THEN 0 ELSE hi - (k + 1) + 1
    BY <1>2, FS_Interval
  <2> QED BY <1>2, <2>1
<1> QED BY <1>1, <1>3, <1>4

(* The number of a stretch and its oldest keys say which one it is.        *)
LEMMA ListedTells ==
  ASSUME NEW s \in Stretches, NEW t \in Stretches, Listed(s) = Listed(t)
  PROVE  s = t
<1>1. PICK l1, h1 \in Nat : l1 <= h1 /\ s = l1..h1
  BY DEF Stretches
<1>2. PICK l2, h2 \in Nat : l2 <= h2 /\ t = l2..h2
  BY DEF Stretches
<1> DEFINE Oldest(x) == {k \in x : Cardinality({j \in x : j < k}) < Width}
<1>3. Cardinality(s) = Cardinality(t) /\ Oldest(s) = Oldest(t)
  BY DEF Listed
<1>4. Cardinality(s) = h1 - l1 + 1 /\ Cardinality(t) = h2 - l2 + 1
  BY <1>1, <1>2, FS_Interval
<1>5. l1 \in Oldest(s) /\ l2 \in Oldest(t)
  <2>1. Cardinality({j \in l1..h1 : j < l1}) = l1 - l1
    BY <1>1, OlderNewer
  <2>2. Cardinality({j \in l2..h2 : j < l2}) = l2 - l2
    BY <1>2, OlderNewer
  <2>3. 0 < Width
    BY SourcesAssumption
  <2> QED BY <1>1, <1>2, <2>1, <2>2, <2>3
<1>6. Oldest(s) \subseteq s /\ Oldest(t) \subseteq t
  OBVIOUS
<1> HIDE DEF Oldest
<1>7. l1 \in l2..h2 /\ l2 \in l1..h1
  BY <1>1, <1>2, <1>3, <1>5, <1>6
<1>8. l1 = l2 /\ h1 = h2
  <2>1. l1 = l2
    BY <1>7
  <2>2. h1 - l1 + 1 = h2 - l2 + 1
    BY <1>3, <1>4
  <2> QED BY <2>1, <2>2
<1> QED BY <1>1, <1>2, <1>8

(* Two answers of a feed with one id are one answer.                       *)
LEMMA FeedIdTells ==
  ASSUME source \in Feeds, NEW a \in Possible, NEW b \in Possible,
         DocumentOf(a).id = DocumentOf(b).id
  PROVE  a = b
<1>1. /\ a \in AnswerRecords /\ a.dated = 1 /\ a.rest = 0 /\ b \in AnswerRecords /\ b.dated = 1 /\ b.rest = 0
      /\ source # "congress_trades" => a.by = b.by
  BY DEF Possible
<1>2. Listed(a.items) = Listed(b.items) /\ a.by = b.by
  BY <1>1, IdOf DEF Feeds
<1>3. a.items = b.items
  BY <1>1, <1>2, ListedTells DEF AnswerRecords
<1> QED BY <1>1, <1>2, <1>3 DEF AnswerRecords

(* The source stays the same, and so does what its answers are stored as.  *)
LEMMA RowStays ==
  ASSUME source' = source
  PROVE  /\ \A a : Row(a)' = Row(a)
         /\ \A a : queried' = a => Row(queried)' = Row(a)
         /\ Possible' = Possible
<1>1. ASSUME NEW a PROVE DocumentOf(a)' = DocumentOf(a)
  BY DEF DocumentOf, TiingoNews, FinnhubInsider, FinnhubRecommendation, FinnhubPeers, KalshiMarkets,
         PolymarketEvents, CongressBills, CongressTrades, PolygonAggregates, FinnhubPriceTarget,
         FinnhubProfile, Fred, SecFilings
<1>2. ASSUME NEW a PROVE Row(a)' = Row(a)
  BY <1>1 DEF Row
<1>3. ASSUME NEW a, queried' = a PROVE Row(queried)' = Row(a)
  BY <1>3 DEF Row, DocumentOf, TiingoNews, FinnhubInsider, FinnhubRecommendation, FinnhubPeers,
         KalshiMarkets, PolymarketEvents, CongressBills, CongressTrades, PolygonAggregates,
         FinnhubPriceTarget, FinnhubProfile, Fred, SecFilings
<1>4. Possible' = Possible
  BY DEF Possible
<1> QED BY <1>2, <1>3, <1>4

LEMMA FeedStarts == FeedInit => FeedIInv
<1> SUFFICES ASSUME FeedInit PROVE FeedIInv
  OBVIOUS
<1>1. /\ answer = [items |-> {1}, dated |-> 1, rest |-> 0, by |-> "ainvest_congress"]
      /\ stored = {} /\ fetched = {} /\ fate = "none"
      /\ holders = 0 /\ attrs = NoFields
  BY DEF FeedInit
<1>2. {1} \in Stretches
  <2>1. {1} = 1..1
    OBVIOUS
  <2> QED BY <2>1 DEF Stretches
<1>3. answer \in Possible
  BY <1>1, <1>2 DEF Possible, AnswerRecords, Senders
<1> QED BY <1>1, <1>3 DEF FeedIInv, RowsKnown, ProfilesTold, SourcesSound, FeedsKept, MacroFailsFor,
                          NeverOutdated, EntityCurrent

(* A stretch that moves on is a stretch.                                   *)
LEMMA StretchMoves ==
  ASSUME NEW s \in Stretches
  PROVE  /\ Newest(s \cup {LastKey(s) + 1}) \in Stretches
         /\ Cardinality(s) > 1 => {k \in s : \E j \in s : j < k} \in Stretches
<1>1. PICK lo, hi \in Nat : lo <= hi /\ s = lo..hi
  BY DEF Stretches
<1>2. LastKey(s) = hi
  <2>1. hi \in s /\ \A j \in s : j <= hi
    BY <1>1
  <2>2. LastKey(s) \in s /\ \A j \in s : j <= LastKey(s)
    BY <2>1 DEF LastKey
  <2> QED BY <1>1, <2>1, <2>2
<1>3. s \cup {LastKey(s) + 1} = lo..(hi + 1)
  BY <1>1, <1>2
<1>4. Newest(lo..(hi + 1)) \in Stretches
  <2> DEFINE from == IF lo > hi + 2 - ListLength THEN lo ELSE hi + 2 - ListLength
  <2>1. ListLength \in Nat \ {0}
    BY SourcesAssumption
  <2>2. from \in Nat /\ from <= hi + 1 /\ lo <= from
    BY <1>1, <2>1
  <2>3. ASSUME NEW k \in lo..(hi + 1)
        PROVE  Cardinality({j \in lo..(hi + 1) : j > k}) < ListLength <=> from <= k
    <3>0. PICK top \in Nat : top = hi + 1
      OBVIOUS
    <3>1. Cardinality({j \in lo..(hi + 1) : j > k}) = hi + 1 - k
      <4>1. Cardinality({j \in lo..top : j > k}) = top - k
        <5>1. k \in lo..top
          BY <3>0
        <5> QED BY <5>1, OlderNewer
      <4> QED BY <3>0, <4>1
    <3>2. hi + 1 - k < ListLength <=> hi + 2 - ListLength <= k
      BY <2>1, <2>3
    <3>3. hi + 2 - ListLength <= k <=> from <= k
      BY <2>1, <2>3
    <3> HIDE DEF from
    <3> QED BY <3>1, <3>2, <3>3
  <2> HIDE DEF from
  <2>4. Newest(lo..(hi + 1)) = from..(hi + 1)
    BY <2>2, <2>3 DEF Newest
  <2>5. hi + 1 \in Nat /\ from..(hi + 1) \in SUBSET Nat
    BY <2>2
  <2> QED BY <2>2, <2>4, <2>5 DEF Stretches
<1>5. ASSUME Cardinality(s) > 1 PROVE {k \in s : \E j \in s : j < k} \in Stretches
  <2>1. Cardinality(s) = hi - lo + 1
    BY <1>1, FS_Interval
  <2>2. lo + 1 <= hi
    BY <1>1, <1>5, <2>1
  <2>3. {k \in s : \E j \in s : j < k} = (lo + 1)..hi
    BY <1>1
  <2>4. lo + 1 \in Nat /\ (lo + 1)..hi \in SUBSET Nat
    OBVIOUS
  <2> QED BY <2>2, <2>3, <2>4 DEF Stretches
<1> QED BY <1>3, <1>4, <1>5

LEMMA ChangeKeeps ==
  ASSUME FeedIInv, AnswerChanges
  PROVE  FeedIInv'
<1>1. /\ source' = source /\ stored' = stored /\ fate' = fate /\ queried' = queried
      /\ fetched' = fetched /\ attrs' = attrs /\ told' = told /\ former' = former
      /\ holders' = holders
  BY DEF AnswerChanges
<1>2. answer \in Possible /\ answer \in AnswerRecords /\ answer.by = "ainvest_congress"
  BY DEF FeedIInv, Possible
<1>3. answer' \in Possible /\ answer'.by = "ainvest_congress"
  <2>1. CASE MoveOn
    <3>1. \E s \in Stretches : answer' = [answer EXCEPT !.items = s]
      BY <1>2, <2>1, StretchMoves DEF MoveOn, AnswerRecords
    <3> QED BY <1>2, <3>1 DEF Possible, AnswerRecords
  <2>2. CASE Revise
    BY <1>2, <2>2 DEF Revise, Possible, AnswerRecords
  <2>3. CASE Restate
    <3>1. source \notin Feeds
      BY <2>3 DEF Restate, Dated, Feeds
    <3>2. PICK d : /\ d \in IF source = "finnhub_profile" THEN {NoFields, 1, 2} \ {answer.dated}
                            ELSE {answer.dated + 1}
                   /\ answer' = [answer EXCEPT !.dated = d, !.rest = @ + 1]
      BY <2>3 DEF Restate
    <3>3. d \in Nat
      BY <1>2, <3>2 DEF AnswerRecords, NoFields
    <3>4. answer.rest + 1 \in Nat
      BY <1>2 DEF AnswerRecords
    <3>5. answer' = [items |-> answer.items, dated |-> d, rest |-> answer.rest + 1, by |-> answer.by]
      BY <1>2, <3>2 DEF AnswerRecords
    <3>6. answer' \in AnswerRecords
      BY <1>2, <3>3, <3>4, <3>5 DEF AnswerRecords
    <3> QED BY <1>2, <3>1, <3>5, <3>6 DEF Possible
  <2> QED BY <2>1, <2>2, <2>3 DEF AnswerChanges
<1>4. /\ \A a : Row(a)' = Row(a) /\ Possible' = Possible /\ Row(queried)' = Row(queried)
  BY <1>1, RowStays
<1>5. RowsKnown'
  BY <1>1, <1>4 DEF FeedIInv, RowsKnown
<1>6. ProfilesTold' /\ SourcesSound'
  BY <1>1, <1>4 DEF FeedIInv, ProfilesTold, SourcesSound, FeedsKept, MacroFailsFor, NeverOutdated,
                    EntityCurrent
<1> QED BY <1>3, <1>4, <1>5, <1>6 DEF FeedIInv

(* An entity gets the ticker: what was told before was told to nobody, or  *)
(* to one of two.                                                          *)
LEMMA RegisteredKeeps ==
  ASSUME FeedIInv, Registered
  PROVE  FeedIInv'
<1>1. /\ source' = source /\ stored' = stored /\ fate' = fate /\ queried' = queried
      /\ fetched' = fetched /\ attrs' = attrs /\ answer' = answer
      /\ source = "finnhub_profile" /\ holders' = holders + 1 /\ holders \in {0, 1}
      /\ told' = IF holders = 0 THEN NoFields ELSE told
      /\ former' = former \cup {told}
  BY DEF Registered, FeedIInv, ProfilesTold
<1>2. /\ \A a : Row(a)' = Row(a) /\ Possible' = Possible /\ Row(queried)' = Row(queried)
  BY <1>1, RowStays
<1>3. RowsKnown' /\ ProfilesTold'
  BY <1>1, <1>2 DEF FeedIInv, RowsKnown, ProfilesTold
<1>4. EntityCurrent'
  BY <1>1 DEF FeedIInv, SourcesSound, EntityCurrent
<1>5. FeedsKept' /\ MacroFailsFor' /\ NeverOutdated'
  BY <1>1, <1>2 DEF FeedIInv, SourcesSound, FeedsKept, MacroFailsFor, NeverOutdated
<1> QED BY <1>1, <1>2, <1>3, <1>4, <1>5 DEF FeedIInv, SourcesSound

LEMMA IngestKept ==
  ASSUME FeedIInv, NEW a \in Possible, NEW stage, stage = "macro" => source \in Macro, Ingest(a, stage)
  PROVE  FeedIInv'
<1>1. source' = source /\ answer' = answer /\ queried' = a /\ holders' = holders
  BY DEF Ingest, Accepted, Kept, Undone, Conflict, Unused
<1>2. /\ \A q : Row(q)' = Row(q) /\ Possible' = Possible /\ Row(queried)' = Row(a)
  BY <1>1, RowStays
<1>3. /\ a.dated \notin {NoFields, told} /\ source = "finnhub_profile" =>
             told' = a.dated /\ former' = former \cup {told}
      /\ a.dated \in {NoFields, told} \/ source # "finnhub_profile" =>
             told' = told /\ former' = former
  BY DEF Ingest, TellsOf
<1>4. CASE Accepted(a)
  <2>1. /\ stored' = (stored \ SameId(a)) \cup {Row(a)} /\ fate' = "kept" /\ fetched' = {Row(a)}
        /\ attrs' = IF source = "finnhub_profile" /\ holders = 1 /\ a.dated # NoFields
                    THEN a.dated ELSE attrs
    BY <1>4 DEF Accepted, Kept, Backfilled
  <2>2. RowsKnown'
    BY <1>2, <2>1 DEF FeedIInv, RowsKnown
  <2>3. FeedsKept' /\ MacroFailsFor' /\ NeverOutdated'
    BY <1>2, <2>1 DEF FeedsKept, MacroFailsFor, NeverOutdated
  <2>4. EntityCurrent'
    BY <1>1, <1>3, <2>1 DEF FeedIInv, ProfilesTold, SourcesSound, EntityCurrent
  <2>5. source = "finnhub_profile" => Row(a).id = a.dated
    BY IdOf DEF Row
  <2>6. ProfilesTold'
    BY <1>1, <1>3, <2>1, <2>5 DEF FeedIInv, ProfilesTold
  <2> QED BY <1>1, <1>2, <2>2, <2>3, <2>4, <2>6 DEF FeedIInv, SourcesSound
<1>5. CASE Conflict(a, stage)
  <2>1. /\ stored' = stored /\ attrs' = attrs /\ fetched' = {}
        /\ fate' = IF stage = "macro" THEN "raised" ELSE "lost"
        /\ ~DocumentOf(a).live /\ SameBody(a) = {}
    BY <1>5 DEF Conflict, Unused
  <2>2. PICK r \in stored : r.id = DocumentOf(a).id
    BY <1>5 DEF Conflict, SameId
  <2>3. source \notin Feeds
    <3>1. SUFFICES ASSUME source \in Feeds PROVE FALSE
      OBVIOUS
    <3>2. PICK b \in Possible : r = Row(b)
      BY <2>2 DEF FeedIInv, RowsKnown
    <3>3. DocumentOf(b).id = DocumentOf(a).id /\ r.body = b
      BY <2>2, <3>2 DEF Row
    <3>4. r.body = a
      BY <3>1, <3>3, FeedIdTells
    <3> QED BY <2>1, <2>2, <3>4 DEF SameBody, SameId
  <2>4. RowsKnown'
    BY <1>2, <2>1 DEF FeedIInv, RowsKnown
  <2>5. fate' = "raised" => source \in {"fred", "kalshi_markets"}
    BY <2>1, <2>3, IdOf DEF Macro, Feeds
  <2>6. FeedsKept' /\ MacroFailsFor' /\ NeverOutdated'
    BY <1>1, <2>1, <2>3, <2>5 DEF FeedsKept, MacroFailsFor, NeverOutdated
  <2>7. source = "finnhub_profile" /\ a.dated # NoFields => a.dated \in former \cup {told}
    BY <2>2, IdOf DEF FeedIInv, ProfilesTold
  <2>8. EntityCurrent'
    BY <1>1, <1>3, <2>1, <2>7 DEF FeedIInv, SourcesSound, EntityCurrent
  <2>9. ProfilesTold'
    BY <1>1, <1>3, <2>1 DEF FeedIInv, ProfilesTold
  <2> QED BY <1>1, <1>2, <2>4, <2>6, <2>8, <2>9 DEF FeedIInv, SourcesSound
<1>6. CASE Undone(a)
  <2>1. /\ stored' = stored /\ attrs' = attrs /\ fetched' = {} /\ fate' = "lost"
        /\ source = "finnhub_profile" /\ holders > 1
    BY <1>6 DEF Undone, Unused, HolderAmbiguous
  <2>2. RowsKnown'
    BY <1>2, <2>1 DEF FeedIInv, RowsKnown
  <2>3. FeedsKept' /\ MacroFailsFor' /\ NeverOutdated'
    BY <1>1, <2>1 DEF FeedsKept, MacroFailsFor, NeverOutdated, Feeds
  <2>4. EntityCurrent'
    BY <1>1, <2>1 DEF FeedIInv, ProfilesTold, EntityCurrent
  <2>5. ProfilesTold'
    BY <1>1, <1>3, <2>1 DEF FeedIInv, ProfilesTold
  <2> QED BY <1>1, <1>2, <2>2, <2>3, <2>4, <2>5 DEF FeedIInv, SourcesSound
<1> QED BY <1>4, <1>5, <1>6 DEF Ingest

LEMMA SkippedKeeps ==
  ASSUME FeedIInv, Skipped
  PROVE  FeedIInv'
<1>1. /\ fate' = "skipped" /\ fetched' = {}
      /\ source' = source /\ answer' = answer /\ stored' = stored /\ attrs' = attrs
      /\ told' = told /\ former' = former /\ holders' = holders
  BY DEF Skipped, Unused
<1>2. \A q : Row(q)' = Row(q) /\ Possible' = Possible
  BY <1>1, RowStays
<1>3. RowsKnown' /\ ProfilesTold'
  BY <1>1, <1>2 DEF FeedIInv, RowsKnown, ProfilesTold
<1>4. SourcesSound'
  BY <1>1 DEF FeedIInv, SourcesSound, FeedsKept, MacroFailsFor, NeverOutdated, EntityCurrent
<1> QED BY <1>1, <1>2, <1>3, <1>4 DEF FeedIInv

LEMMA FetchingKeeps ==
  ASSUME FeedIInv, NEW name, NEW stage, stage = "macro" => name \in Macro, Fetching(name, stage)
  PROVE  FeedIInv'
<1>1. CASE Skipped
  BY <1>1, SkippedKeeps
<1>2. CASE Ingest(answer, stage)
  <2>1. source = name
    BY DEF Fetching
  <2>2. PICK a : a = answer
    OBVIOUS
  <2>3. a \in Possible /\ Ingest(a, stage)
    BY <1>2, <2>2 DEF FeedIInv
  <2> QED BY <2>1, <2>3, IngestKept
<1> QED BY <1>1, <1>2 DEF Fetching

LEMMA FallbackKeeps ==
  ASSUME FeedIInv, source = "congress_trades",
         Ingest([answer EXCEPT !.by = "capitol_trades"], "company")
  PROVE  FeedIInv'
<1>1. PICK a : a = [answer EXCEPT !.by = "capitol_trades"]
  OBVIOUS
<1>2. a \in Possible
  BY <1>1 DEF FeedIInv, Possible, AnswerRecords, Senders
<1>3. Ingest(a, "company")
  BY <1>1
<1> QED BY <1>2, <1>3, IngestKept

LEMMA FeedKeeps == FeedIInv /\ [FeedNext]_feedVars => FeedIInv'
<1> SUFFICES ASSUME FeedIInv, [FeedNext]_feedVars PROVE FeedIInv'
  OBVIOUS
<1>1. CASE AnswerChanges
  BY <1>1, ChangeKeeps
<1>8. CASE Registered
  BY <1>8, RegisteredKeeps
<1>2. CASE \E name \in Macro : Fetching(name, "macro")
  BY <1>2, FetchingKeeps
<1>3. CASE \E name \in Sector : Fetching(name, "sector")
  BY <1>3, FetchingKeeps
<1>4. CASE \E name \in Company : Fetching(name, "company")
  BY <1>4, FetchingKeeps
<1>5. CASE source = "congress_trades" /\ Ingest([answer EXCEPT !.by = "capitol_trades"], "company")
  BY <1>5, FallbackKeeps
<1>6. CASE UNCHANGED feedVars
  <2>1. /\ fate' = fate /\ fetched' = fetched /\ queried' = queried
        /\ source' = source /\ answer' = answer /\ stored' = stored /\ attrs' = attrs
        /\ told' = told /\ former' = former /\ holders' = holders
    BY <1>6 DEF feedVars
  <2>2. \A q : Row(q)' = Row(q) /\ Possible' = Possible /\ Row(queried)' = Row(queried)
    BY <2>1, RowStays
  <2> QED BY <2>1, <2>2 DEF FeedIInv, RowsKnown, ProfilesTold, SourcesSound, FeedsKept, MacroFailsFor,
                           NeverOutdated, EntityCurrent
<1>7. FeedNext => \/ AnswerChanges \/ Registered
                  \/ \E name \in Macro : Fetching(name, "macro")
                  \/ \E name \in Sector : Fetching(name, "sector")
                  \/ \E name \in Company : Fetching(name, "company")
                  \/ source = "congress_trades" /\ Ingest([answer EXCEPT !.by = "capitol_trades"], "company")
  BY DEF FeedNext, MacroFetch, SectorAggregates, SectorNews, FetchAggregates, FetchNews, FetchSec,
         FetchFinnhubRecommendation, FetchFinnhubPriceTarget, FetchFinnhubInsider, FetchFinnhubPeers,
         FetchFinnhubProfile, FetchCongressTrades, Sector, Company
<1> QED BY <1>1, <1>2, <1>3, <1>4, <1>5, <1>6, <1>7, <1>8

(* Whatever the width of an id, the length of a list and the number of     *)
(* changes: feeds are never in conflict, only FRED and Kalshi end the macro*)
(* stage, no stage uses an old version, and the only entity with a ticker  *)
(* has the profile that was answered last (services/ingestion/).           *)
THEOREM SourcesAreSound == FeedSpec => []SourcesSound
<1>1. FeedIInv => SourcesSound
  BY DEF FeedIInv
<1> QED BY <1>1, FeedStarts, FeedKeeps, PTL DEF FeedSpec

=============================================================================
