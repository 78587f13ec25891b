---------------------------- MODULE Fanout_proofs ---------------------------
(***************************************************************************)
(* Proofs about Fanout, for any items, chunks, limits, caps and costs.     *)
(* The money part rests on two facts: the lock lets one call of the run at *)
(* a time between its sums and its log, and a run costs what its sums said *)
(* and the logged call on top.  The rest follows each item through its     *)
(* phases: which of its tasks may have a call in hand in which of them.    *)
(***************************************************************************)
EXTENDS Fanout, SumTheorems, TLAPS

(* Phases in which chunk tasks of an item may be at work or waiting.       *)
Working == {"extracting", "halting", "failing", "failed", "halted"}

Quiet(i) == todo[i] = {} /\ \A k \in Chunks : ~Busy(<<i, k>>)

(* What an item's phase says about its calls, its brief and the run.       *)
Phase(i) ==
    /\ item[i] \in Working \/ Quiet(i)
    /\ Busy(<<i, Main>>) => item[i] \in {"synth", "judge"}
    /\ \A k \in todo[i] : ~Busy(<<i, k>>)
    /\ i \in briefs => item[i] \in {"queued", "persisted", "cancelled"}
    /\ item[i] = "halting" => status # "running"
    /\ fanout # "running" => item[i] \in Over

Phases == \A i \in Items : Phase(i)

(* One call at a time is between its sums and its log.                     *)
OneLock ==
    \A c, d \in Callers : call[c].pc = "locked" /\ call[d].pc = "locked" => c = d

IInv == TypeOK /\ OneLock /\ SumsCurrent /\ Phases /\ CapReachesStatus

-----------------------------------------------------------------------------
(* Calls and sums.                                                         *)

LEMMA CallTypes ==
  /\ NoCall \in Call /\ NoCall.pc = "idle"
  /\ \A s \in {"extraction", "synthesis", "judge"} :
        CallingFor(s) \in Call /\ CallingFor(s).pc = "calling"
  /\ \A s \in Stages : CallingFor(s) \in Call
  /\ \A i \in Items, k \in Chunks \cup {Main} : <<i, k>> \in Callers
  /\ Run \in Runs
  /\ \A c \in Callers : RunOf[c] = Run
<1>1. \A s \in Stages : CallingFor(s) \in Call /\ CallingFor(s).pc = "calling"
  BY DEF CallingFor, Call, CallPC
<1>2. {"extraction", "synthesis", "judge"} \subseteq Stages
  BY FanoutAssumption
<1>3. NoCall \in Call /\ NoCall.pc = "idle"
  <2> DEFINE s == CHOOSE s \in Stages : TRUE
  <2>1. s \in Stages
    BY <1>2
  <2> HIDE DEF s
  <2>2. /\ [CallingFor(s) EXCEPT !.pc = "idle"] \in Call
        /\ [CallingFor(s) EXCEPT !.pc = "idle"].pc = "idle"
    BY <2>1 DEF CallingFor, Call, CallPC
  <2> QED BY <2>2 DEF NoCall, s
<1>4. \A i \in Items, k \in Chunks \cup {Main} : <<i, k>> \in Callers
  BY FanoutAssumption DEF ItemCallers
<1>5. Run \in Runs
  BY FanoutAssumption
<1> QED BY <1>1, <1>2, <1>3, <1>4, <1>5, FanoutAssumption

(* One caller's call is replaced.                                          *)
LEMMA CallWritten ==
  ASSUME call \in [Callers -> Call], NEW c \in Callers, NEW x \in Call,
         call' = [call EXCEPT ![c] = x]
  PROVE  /\ call' \in [Callers -> Call] /\ call'[c] = x
         /\ \A d \in Callers \ {c} : call'[d] = call[d]
  OBVIOUS

(* A run costs a natural number, and so does the day.                      *)
LEMMA CostType ==
  ASSUME ledger \in [Runs -> [Stages -> Nat]]
  PROVE  /\ \A r \in Runs : RunCost(r) \in Nat
         /\ DayCost \in Nat
<1>1. ASSUME NEW r \in Runs PROVE RunCost(r) \in Nat
  <2> DEFINE f == ledger[r]
  <2>1. \A s \in Stages : f[s] \in Nat
    OBVIOUS
  <2> HIDE DEF f
  <2>2. SumFunctionOnSet(f, Stages) \in Nat
    BY <2>1, SumType, BudgetAssumption
  <2> QED BY <2>2 DEF RunCost, f
<1> DEFINE g == [r \in Runs |-> RunCost(r)]
<1>2. \A r \in Runs : g[r] \in Nat
  BY <1>1
<1> HIDE DEF g
<1>3. SumFunctionOnSet(g, Runs) \in Nat
  BY <1>2, SumType, BudgetAssumption
<1>4. DayCost \in Nat
  BY <1>3 DEF DayCost, g
<1> QED BY <1>1, <1>4

(* A logged call adds its cost to what its run has cost.                   *)
LEMMA LoggedCost ==
  ASSUME ledger \in [Runs -> [Stages -> Nat]], call \in [Callers -> Call],
         NEW c \in Callers, NEW cost \in Costs, ledger' = Logged(c, cost)
  PROVE  /\ ledger' \in [Runs -> [Stages -> Nat]]
         /\ RunCost(Run)' = RunCost(Run) + cost
         /\ RunCost(Run) \in Nat
<1> DEFINE s == call[c].stage
           f == ledger[Run]
           g == ledger'[Run]
<1>1. Run \in Runs /\ RunOf[c] = Run /\ s \in Stages /\ cost \in Nat
  BY CallTypes, BudgetAssumption DEF Call
<1>2. /\ ledger' = [ledger EXCEPT ![Run] = [ledger[Run] EXCEPT ![s] = ledger[Run][s] + cost]]
      /\ ledger[Run] \in [Stages -> Nat]
  BY <1>1 DEF Logged
<1>3. [ledger[Run] EXCEPT ![s] = ledger[Run][s] + cost] \in [Stages -> Nat]
  BY <1>1, <1>2
<1>4. /\ ledger' \in [Runs -> [Stages -> Nat]]
      /\ g = [ledger[Run] EXCEPT ![s] = ledger[Run][s] + cost]
  BY <1>1, <1>2, <1>3
<1>5. /\ \A x \in Stages : f[x] \in Int /\ g[x] \in Int
      /\ \A x \in Stages \ {s} : f[x] = g[x]
      /\ g[s] = f[s] + cost
  BY <1>1, <1>2, <1>4
<1>6. RunCost(Run) = SumFunctionOnSet(f, Stages) /\ RunCost(Run)' = SumFunctionOnSet(g, Stages)
  BY DEF RunCost
<1>7. RunCost(Run) \in Nat
  BY <1>1, CostType
<1> HIDE DEF f, g, s
<1>8. SumFunctionOnSet(g, Stages) = SumFunctionOnSet(f, Stages) - f[s] + g[s]
  <2>1. IsFiniteSet(Stages) /\ s \in Stages
    BY <1>1, BudgetAssumption
  <2>2. /\ \A x \in Stages : f[x] \in Int /\ g[x] \in Int
        /\ \A x \in Stages \ {s} : f[x] = g[x]
    BY <1>5
  <2> QED BY <2>1, <2>2, SumChanged
<1>9. f[s] \in Int /\ SumFunctionOnSet(f, Stages) \in Int
  BY <1>1, <1>5, <1>6, <1>7
<1>10. RunCost(Run)' = RunCost(Run) + cost
  BY <1>1, <1>5, <1>6, <1>8, <1>9
<1> QED BY <1>4, <1>7, <1>10

(* Steps that log nothing and take no lock.                                *)
LEMMA MoneyKept ==
  ASSUME IInv, ledger' = ledger,
         \A d \in Callers : call'[d] = call[d] \/ call'[d].pc # "locked"
  PROVE  OneLock' /\ SumsCurrent' /\ RunCost(Run)' = RunCost(Run)
<1>1. OneLock'
  BY DEF IInv, OneLock
<1>2. SumsCurrent'
  BY DEF IInv, SumsCurrent, RunCost
<1> QED BY <1>1, <1>2 DEF RunCost

(* A halted call, or a run over its cap, stays noticed.                    *)
LEMMA CapKept ==
  ASSUME IInv, RunCost(Run)' = RunCost(Run),
         \/ fanout' = "ended"
         \/ status' # "running"
         \/ /\ fanout # "ended" /\ (status = "running" => status' = "running")
            /\ status # "running" => status' # "running"
            /\ \A c \in Callers : call[c].pc \in {"paused", "killed"} =>
                                      call'[c].pc \in {"paused", "killed"}
  PROVE  CapReachesStatus'
<1>1. ItemCallers = Callers
  BY FanoutAssumption
<1> QED BY <1>1 DEF IInv, CapReachesStatus

-----------------------------------------------------------------------------
(* A step of one item keeps the phases of the others.                      *)
LEMMA OthersKeep ==
  ASSUME IInv, NEW i \in Items,
         \A c \in Callers : c[1] # i => call'[c] = call[c],
         \A j \in Items \ {i} : /\ item'[j] = item[j] /\ todo'[j] = todo[j]
                                /\ j \in briefs' <=> j \in briefs,
         status # "running" => status' # "running",
         fanout' = fanout, Phase(i)'
  PROVE  Phases'
<1> SUFFICES ASSUME NEW j \in Items \ {i} PROVE Phase(j)'
  BY DEF Phases
<1>1. \A k \in Chunks \cup {Main} : call'[<<j, k>>] = call[<<j, k>>]
  BY CallTypes
<1>2. todo[j] \subseteq Chunks
  BY DEF IInv, TypeOK
<1>3. Phase(j)
  BY DEF IInv, Phases
<1> QED BY <1>1, <1>2, <1>3 DEF Phase, Quiet, Busy

(* The item's own call is replaced.                                        *)
LEMMA OwnCall ==
  ASSUME NEW i \in Items, NEW k \in Chunks \cup {Main},
         \A d \in Callers \ {<<i, k>>} : call'[d] = call[d]
  PROVE  /\ \A c \in Callers : c[1] # i => call'[c] = call[c]
         /\ \A l \in Chunks \cup {Main} : l # k => call'[<<i, l>>] = call[<<i, l>>]
<1>1. <<i, k>> \in Callers /\ \A l \in Chunks \cup {Main} : <<i, l>> \in Callers
  BY CallTypes
<1> QED BY <1>1

(* Facts that most steps need.                                             *)
LEMMA Known ==
  ASSUME IInv, NEW i \in Items
  PROVE  /\ call \in [Callers -> Call] /\ ledger \in [Runs -> [Stages -> Nat]]
         /\ item \in [Items -> ItemPC] /\ todo \in [Items -> SUBSET Chunks]
         /\ regens \in [Items -> 0..MaxRegens] /\ briefs \subseteq Items
         /\ Phase(i) /\ todo[i] \subseteq Chunks
         /\ fanout \in {"running", "done", "halted", "ended"}
         /\ status \in {"running", "paused", "failed", "cancelled"}
         /\ MaxRegens \in Nat /\ Main \notin Chunks
  BY FanoutAssumption DEF IInv, TypeOK, Phases

-----------------------------------------------------------------------------
(* The items, up to the halt.                                              *)

(* Steps of an item that make no call.                                     *)
LEMMA PlainItemSteps ==
  ASSUME IInv, NEW i \in Items, Start(i) \/ Fetch(i) \/ Save(i) \/ ItemFails(i)
  PROVE  IInv'
<1>1. /\ call' = call /\ ledger' = ledger /\ fanout' = fanout /\ status' = status
      /\ regens' = regens
  BY DEF Start, Fetch, Save, ItemFails, llmVars
<1>2. /\ \E p \in ItemPC : item' = [item EXCEPT ![i] = p]
      /\ todo' = todo \/ todo' = [todo EXCEPT ![i] = Chunks]
      /\ briefs' = briefs \/ briefs' = briefs \cup {i}
  BY DEF Start, Fetch, Save, ItemFails, Goto, ItemPC
<1>3. /\ item' \in [Items -> ItemPC] /\ todo' \in [Items -> SUBSET Chunks]
      /\ briefs' \subseteq Items
      /\ \A j \in Items \ {i} : /\ item'[j] = item[j] /\ todo'[j] = todo[j]
                                /\ j \in briefs' <=> j \in briefs
  BY <1>2, Known
<1>4. TypeOK'
  BY <1>1, <1>3 DEF IInv, TypeOK
<1>5. Phase(i)'
  <2>1. CASE Start(i)
    BY <1>1, <2>1, Known DEF Start, Goto, Phase, Quiet, Busy, Working, Over
  <2>2. CASE Fetch(i)
    BY <1>1, <2>2, Known DEF Fetch, Goto, Phase, Quiet, Busy, Working, Over
  <2>3. CASE Save(i)
    BY <1>1, <2>3, Known DEF Save, Goto, Phase, Quiet, Busy, Working, Over
  <2>4. CASE ItemFails(i)
    BY <1>1, <2>4, Known DEF ItemFails, Goto, Phase, Quiet, Busy, Working, Over
  <2> QED BY <2>1, <2>2, <2>3, <2>4
<1>6. Phases'
  BY <1>1, <1>3, <1>5, OthersKeep
<1>7. OneLock' /\ SumsCurrent' /\ RunCost(Run)' = RunCost(Run)
  BY <1>1, MoneyKept
<1>8. CapReachesStatus'
  BY <1>1, <1>7 DEF IInv, CapReachesStatus
<1> QED BY <1>4, <1>6, <1>7, <1>8 DEF IInv

(* A chunk task begins; the item's task begins to synthesise.              *)
LEMMA BeginnersKeep ==
  ASSUME IInv, NEW i \in Items, NEW k \in Chunks \cup {Main},
         \/ k \in Chunks /\ StartChunk(i, k)
         \/ k = Main /\ Synthesise(i)
  PROVE  IInv'
<1>1. PICK x \in Call : call' = [call EXCEPT ![<<i, k>>] = x] /\ x.pc = "calling"
  BY CallTypes DEF StartChunk, Synthesise
<1>2. /\ call' \in [Callers -> Call] /\ call'[<<i, k>>] = x
      /\ \A c \in Callers : c[1] # i => call'[c] = call[c]
      /\ \A l \in Chunks \cup {Main} : l # k => call'[<<i, l>>] = call[<<i, l>>]
      /\ \A c \in Callers : call'[c] = call[c] \/ c = <<i, k>>
  <2>1. <<i, k>> \in Callers /\ call \in [Callers -> Call]
    BY CallTypes DEF IInv, TypeOK
  <2>2. /\ call' \in [Callers -> Call] /\ call'[<<i, k>>] = x
        /\ \A d \in Callers \ {<<i, k>>} : call'[d] = call[d]
    BY <1>1, <2>1, CallWritten
  <2> QED BY <2>2, OwnCall
<1>3. /\ ledger' = ledger /\ fanout' = fanout /\ status' = status
      /\ regens' = regens /\ briefs' = briefs
  BY DEF StartChunk, Synthesise
<1>4. /\ item' \in [Items -> ItemPC] /\ todo' \in [Items -> SUBSET Chunks]
      /\ \A j \in Items \ {i} : item'[j] = item[j] /\ todo'[j] = todo[j]
  <2>1. \/ item' = item \/ item' = [item EXCEPT ![i] = "synth"]
    BY DEF StartChunk, Synthesise, Goto
  <2>2. todo' = todo \/ todo' = [todo EXCEPT ![i] = todo[i] \ {k}]
    BY DEF StartChunk, Synthesise
  <2> QED BY <2>1, <2>2, Known DEF ItemPC
<1>5. TypeOK'
  BY <1>2, <1>3, <1>4 DEF IInv, TypeOK
<1>6. ~Busy(<<i, k>>)
  BY Known DEF StartChunk, Synthesise, Phase
<1>7. Phase(i)'
  <2>1. CASE k \in Chunks /\ StartChunk(i, k)
    <3>1. todo'[i] = todo[i] \ {k} /\ item'[i] = item[i] /\ k \in todo[i]
      BY <2>1, Known DEF StartChunk
    <3>2. item[i] \in Working
      BY <3>1, Known DEF Phase, Quiet
    <3>3. call'[<<i, Main>>] = call[<<i, Main>>]
      BY <1>2, <2>1, Known
    <3>4. \A l \in todo'[i] : call'[<<i, l>>] = call[<<i, l>>]
      BY <1>2, <3>1, Known
    <3> QED BY <1>3, <3>1, <3>2, <3>3, <3>4, Known DEF Phase, Busy, Quiet
  <2>2. CASE k = Main /\ Synthesise(i)
    <3>1. todo'[i] = todo[i] /\ item'[i] = "synth" /\ item[i] = "extracting"
          /\ todo[i] = {} /\ \A l \in Chunks : ~Busy(<<i, l>>)
      BY <2>2, Known DEF Synthesise, Goto, ChunksAtWork
    <3>2. \A l \in Chunks : call'[<<i, l>>] = call[<<i, l>>]
      BY <1>2, <2>2, Known
    <3> QED BY <1>3, <3>1, <3>2, Known DEF Phase, Busy, Quiet, Over
  <2> QED BY <2>1, <2>2
<1>8. Phases'
  BY <1>2, <1>3, <1>4, <1>7, OthersKeep
<1>9. OneLock' /\ SumsCurrent' /\ RunCost(Run)' = RunCost(Run)
  BY <1>1, <1>2, <1>3, MoneyKept
<1>10. \A c \in Callers : call[c].pc \in {"paused", "killed"} => call'[c] = call[c]
  BY <1>2, <1>6 DEF Busy
<1>11. CapReachesStatus'
  <2>1. CASE fanout = "ended"
    BY <1>3, <2>1 DEF CapReachesStatus
  <2> QED BY <1>3, <1>9, <1>10, <2>1, CapKept
<1> QED BY <1>5, <1>8, <1>9, <1>11 DEF IInv

(* A call that came back with an answer or an error is taken up by its     *)
(* task.                                                                   *)
LEMMA AnsweredKeep ==
  ASSUME IInv, NEW i \in Items, NEW k \in Chunks \cup {Main},
         \/ k \in Chunks /\ (ChunkDone(i, k) \/ ChunkFails(i, k))
         \/ k = Main /\ (Regenerate(i) \/ Verified(i) \/ SynthesisFails(i) \/ Judged(i))
  PROVE  IInv'
<1>1. PICK x \in Call : /\ call' = [call EXCEPT ![<<i, k>>] = x]
                        /\ x.pc \in {"idle", "calling"}
  BY CallTypes DEF ChunkDone, ChunkFails, Regenerate, Verified, SynthesisFails, Judged
<1>2. call[<<i, k>>].pc \in {"allowed", "error"}
  BY DEF ChunkDone, ChunkFails, Regenerate, Verified, SynthesisFails, Judged
<1>3. /\ call' \in [Callers -> Call] /\ call'[<<i, k>>] = x
      /\ \A c \in Callers : c[1] # i => call'[c] = call[c]
      /\ \A l \in Chunks \cup {Main} : l # k => call'[<<i, l>>] = call[<<i, l>>]
      /\ \A c \in Callers \ {<<i, k>>} : call'[c] = call[c]
  <2>1. <<i, k>> \in Callers /\ call \in [Callers -> Call]
    BY CallTypes DEF IInv, TypeOK
  <2>2. /\ call' \in [Callers -> Call] /\ call'[<<i, k>>] = x
        /\ \A d \in Callers \ {<<i, k>>} : call'[d] = call[d]
    BY <1>1, <2>1, CallWritten
  <2> QED BY <2>2, OwnCall
<1>4. /\ ledger' = ledger /\ fanout' = fanout /\ status' = status
      /\ todo' = todo /\ briefs' = briefs
  BY DEF ChunkDone, ChunkFails, Regenerate, Verified, SynthesisFails, Judged, itemVars
<1>5. /\ \/ item' = item
         \/ \E p \in {"judge", "saving", "failed", "failing"} : item' = [item EXCEPT ![i] = p]
      /\ \/ regens' = regens
         \/ regens' = [regens EXCEPT ![i] = @ + 1] /\ regens[i] < MaxRegens
  BY DEF ChunkDone, ChunkFails, Raise, Regenerate, Verified, SynthesisFails, Judged,
         itemVars, Goto
<1>6. TypeOK'
  <2>1. regens' \in [Items -> 0..MaxRegens]
    BY <1>5, Known
  <2>2. item' \in [Items -> ItemPC]
    BY <1>5, Known DEF ItemPC
  <2> QED BY <1>3, <1>4, <2>1, <2>2 DEF IInv, TypeOK
<1>7. \A j \in Items \ {i} : item'[j] = item[j]
  BY <1>5, Known
<1>8. Phase(i)'
  <2>1. CASE k \in Chunks /\ (ChunkDone(i, k) \/ ChunkFails(i, k))
    <3>1. x.pc = "idle"
      BY <1>3, <2>1, CallTypes, Known DEF ChunkDone, ChunkFails
    <3>2. item[i] \in Working
      BY <1>2, <2>1, Known DEF Phase, Quiet, Busy
    <3>3. ~Busy(<<i, Main>>) /\ call'[<<i, Main>>] = call[<<i, Main>>]
      BY <1>3, <2>1, <3>2, Known DEF Phase, Working
    <3>4. \A l \in todo[i] : call'[<<i, l>>] = call[<<i, l>>] \/ l = k
      BY <1>3, Known
    <3>5. item'[i] = item[i] \/ (item[i] = "extracting" /\ item'[i] = "failing")
      BY <2>1, <3>2, Known DEF ChunkDone, ChunkFails, Raise, Goto, itemVars, Working
    <3> QED BY <1>3, <1>4, <3>1, <3>2, <3>3, <3>4, <3>5, Known
            DEF Phase, Busy, Working, Over
  <2>2. CASE k = Main /\ (Regenerate(i) \/ Verified(i) \/ SynthesisFails(i) \/ Judged(i))
    <3>1. item[i] \in {"synth", "judge"}
      BY <2>2 DEF Regenerate, Verified, SynthesisFails, Judged
    <3>2. Quiet(i) /\ i \notin briefs /\ fanout = "running"
      BY <3>1, Known DEF Phase, Working, Over
    <3>3. \A l \in Chunks : call'[<<i, l>>] = call[<<i, l>>]
      BY <1>3, <2>2, Known
    <3>4. Quiet(i)'
      BY <1>4, <3>2, <3>3 DEF Quiet, Busy
    <3>5. \/ item'[i] \in {"synth", "judge"}
          \/ item'[i] \in {"saving", "failed"} /\ x.pc = "idle"
      <4>1. CASE Regenerate(i) \/ Verified(i)
        BY <1>3, <2>2, <3>1, <4>1, CallTypes, Known DEF Regenerate, Verified, Goto
      <4>2. CASE SynthesisFails(i) \/ Judged(i)
        BY <1>3, <2>2, <3>1, <4>2, CallTypes, Known DEF SynthesisFails, Judged, Goto
      <4> QED BY <2>2, <4>1, <4>2
    <3> QED BY <1>3, <1>4, <2>2, <3>2, <3>4, <3>5 DEF Phase, Quiet, Busy
  <2> QED BY <2>1, <2>2
<1>9. Phases'
  BY <1>3, <1>4, <1>7, <1>8, OthersKeep
<1>10. OneLock' /\ SumsCurrent' /\ RunCost(Run)' = RunCost(Run)
  BY <1>1, <1>3, <1>4, MoneyKept
<1>11. \A c \in Callers : call[c].pc \in {"paused", "killed"} => call'[c] = call[c]
  BY <1>2, <1>3
<1>12. CapReachesStatus'
  <2>1. CASE fanout = "ended"
    BY <1>4, <2>1 DEF CapReachesStatus
  <2> QED BY <1>4, <1>10, <1>11, <2>1, CapKept
<1> QED BY <1>6, <1>9, <1>10, <1>12 DEF IInv

(* A halt ends the running of its run before its item hears of it.         *)
LEMMA HaltKeeps ==
  ASSUME IInv, NEW i \in Items, NEW k \in Chunks \cup {Main}, Halt(i, k)
  PROVE  IInv'
<1>1. call' = [call EXCEPT ![<<i, k>>] = NoCall] /\ call[<<i, k>>].pc \in {"paused", "killed"}
  BY DEF Halt
<1>2. /\ call' \in [Callers -> Call] /\ call'[<<i, k>>].pc = "idle"
      /\ \A c \in Callers : c[1] # i => call'[c] = call[c]
      /\ \A l \in Chunks \cup {Main} : l # k => call'[<<i, l>>] = call[<<i, l>>]
      /\ \A c \in Callers : call'[c] = call[c] \/ call'[c].pc = "idle"
  <2>1. <<i, k>> \in Callers /\ call \in [Callers -> Call] /\ NoCall \in Call
        /\ NoCall.pc = "idle"
    BY CallTypes DEF IInv, TypeOK
  <2>2. /\ call' \in [Callers -> Call] /\ call'[<<i, k>>] = NoCall
        /\ \A d \in Callers \ {<<i, k>>} : call'[d] = call[d]
    BY <1>1, <2>1, CallWritten
  <2> QED BY <2>1, <2>2, OwnCall
<1>3. /\ ledger' = ledger /\ fanout' = fanout /\ todo' = todo /\ regens' = regens
      /\ briefs' = briefs
  BY DEF Halt
<1>4. status' \in {"running", "paused", "failed", "cancelled"} /\ status' # "running"
  BY <1>1, Known DEF Halt
<1>5. \/ item' = item /\ item[i] \notin {"extracting", "synth", "judge"}
      \/ /\ item[i] \in {"extracting", "synth", "judge"}
         /\ \E p \in {"halting", "failing"} : item' = [item EXCEPT ![i] = p]
  BY DEF Halt, Raise, Goto
<1>6. /\ item' \in [Items -> ItemPC] /\ \A j \in Items \ {i} : item'[j] = item[j]
      /\ item[i] \notin {"extracting", "synth", "judge"} => item'[i] = item[i]
      /\ item[i] \in {"extracting", "synth", "judge"} => item'[i] \in {"halting", "failing"}
  BY <1>5, Known DEF ItemPC
<1>7. TypeOK'
  BY <1>2, <1>3, <1>4, <1>6 DEF IInv, TypeOK
<1>8. Phase(i)'
  <2>1. k = Main => item[i] \in {"synth", "judge"}
    BY <1>1, Known DEF Phase, Busy
  <2>2. k \in Chunks => item[i] \in Working
    BY <1>1, Known DEF Phase, Quiet, Busy
  <2>3. item'[i] \in Working
    BY <1>6, <2>1, <2>2 DEF Working
  <2>4. ~Busy(<<i, Main>>)'
    <3>1. CASE k = Main
      BY <1>2, <3>1 DEF Busy
    <3>2. CASE k # Main
      BY <1>2, <2>2, <3>2, Known DEF Phase, Busy, Working
    <3> QED BY <3>1, <3>2
  <2>5. \A l \in todo[i] : ~Busy(<<i, l>>)'
    <3> SUFFICES ASSUME NEW l \in todo[i] PROVE ~Busy(<<i, l>>)'
      OBVIOUS
    <3>1. l \in Chunks /\ ~Busy(<<i, l>>)
      BY Known DEF Phase
    <3> QED BY <1>2, <3>1 DEF Busy
  <2>6. i \notin briefs
    BY <2>1, <2>2, Known DEF Phase, Working
  <2>7. fanout # "running" => item'[i] \in Over
    BY <1>6, Known DEF Phase, Over
  <2> QED BY <1>3, <1>4, <2>3, <2>4, <2>5, <2>6, <2>7 DEF Phase
<1>9. Phases'
  BY <1>2, <1>3, <1>4, <1>6, <1>8, OthersKeep
<1>10. OneLock' /\ SumsCurrent' /\ RunCost(Run)' = RunCost(Run)
  BY <1>2, <1>3, MoneyKept
<1>11. CapReachesStatus'
  BY <1>4 DEF CapReachesStatus
<1> QED BY <1>7, <1>9, <1>10, <1>11 DEF IInv

-----------------------------------------------------------------------------
(* The budgeted call.                                                      *)

(* The items see of a call only whether there is one.                      *)
LEMMA BusyKept ==
  ASSUME IInv, \A c \in Callers : Busy(c)' <=> Busy(c),
         UNCHANGED <<itemVars, fanout, status>>
  PROVE  Phases'
<1> SUFFICES ASSUME NEW i \in Items PROVE Phase(i)'
  BY DEF Phases
<1>1. \A k \in Chunks \cup {Main} : Busy(<<i, k>>)' <=> Busy(<<i, k>>)
  BY CallTypes
<1>2. item' = item /\ todo' = todo /\ briefs' = briefs /\ fanout' = fanout /\ status' = status
  BY DEF itemVars
<1> QED BY <1>1, <1>2, Known DEF Phase, Quiet

LEMMA LlmStepKeeps ==
  ASSUME IInv, NEW c \in Callers, LlmStep(c)
  PROVE  IInv'
<1>1. /\ call \in [Callers -> Call] /\ ledger \in [Runs -> [Stages -> Nat]]
      /\ UNCHANGED <<itemVars, fanout, status>> /\ call[c] \in Call
      /\ RunOf[c] = Run /\ Run \in Runs
  BY CallTypes DEF IInv, TypeOK, LlmStep
<1>2. CASE CallFails(c)
  <2> DEFINE x == [call[c] EXCEPT !.pc = "error"]
  <2>1. x \in Call /\ x.pc = "error" /\ call[c].pc = "calling"
    BY <1>1, <1>2 DEF Call, CallPC, CallFails
  <2>2. call' = [call EXCEPT ![c] = x] /\ ledger' = ledger
    BY <1>2 DEF CallFails
  <2> HIDE DEF x
  <2>3. /\ call' \in [Callers -> Call] /\ call'[c] = x
        /\ \A d \in Callers \ {c} : call'[d] = call[d]
    BY <1>1, <2>1, <2>2, CallWritten
  <2>4. Phases'
    <3>1. \A d \in Callers : Busy(d)' <=> Busy(d)
      BY <2>1, <2>3 DEF Busy
    <3> QED BY <1>1, <3>1, BusyKept
  <2>5. OneLock' /\ SumsCurrent' /\ RunCost(Run)' = RunCost(Run)
    BY <2>1, <2>2, <2>3, MoneyKept
  <2>6. CapReachesStatus'
    <3>1. CASE fanout = "ended"
      BY <1>1, <3>1 DEF CapReachesStatus
    <3> QED BY <1>1, <2>1, <2>3, <2>5, <3>1, CapKept
  <2>7. TypeOK'
    BY <1>1, <2>2, <2>3 DEF IInv, TypeOK, itemVars
  <2> QED BY <2>4, <2>5, <2>6, <2>7 DEF IInv
<1>3. CASE ReadSums(c)
  <2> DEFINE x == [pc |-> "locked", stage |-> call[c].stage, run |-> RunCost(Run),
                   day |-> DayCost, inStage |-> ledger[Run][call[c].stage]]
  <2>1. call[c].pc = "calling" /\ \A d \in Callers : call[d].pc # "locked"
    BY <1>3, CallTypes DEF ReadSums, LockFree
  <2>2. call' = [call EXCEPT ![c] = x] /\ ledger' = ledger
    BY <1>1, <1>3 DEF ReadSums
  <2>3. x \in Call
    <3>1. RunCost(Run) \in Nat /\ DayCost \in Nat
      BY <1>1, CostType
    <3>2. call[c].stage \in Stages
      BY <1>1 DEF Call
    <3>3. ledger[Run][call[c].stage] \in Nat
      BY <1>1, <3>2
    <3> QED BY <3>1, <3>2, <3>3 DEF Call, CallPC
  <2>4. /\ x.pc = "locked" /\ x.stage = call[c].stage /\ x.run = RunCost(Run)
        /\ x.inStage = ledger[Run][call[c].stage]
    OBVIOUS
  <2> HIDE DEF x
  <2>5. /\ call' \in [Callers -> Call] /\ call'[c] = x
        /\ \A d \in Callers \ {c} : call'[d] = call[d]
    BY <1>1, <2>2, <2>3, CallWritten
  <2>6. Phases'
    <3>1. \A d \in Callers : Busy(d)' <=> Busy(d)
      BY <2>1, <2>4, <2>5 DEF Busy
    <3> QED BY <1>1, <3>1, BusyKept
  <2>7. OneLock'
    BY <2>1, <2>5 DEF OneLock
  <2>8. RunCost(Run)' = RunCost(Run)
    BY <2>2 DEF RunCost
  <2>9. SumsCurrent'
    <3> SUFFICES ASSUME NEW d \in Callers, call'[d].pc = "locked"
                 PROVE  /\ call'[d].run = RunCost(RunOf[d])'
                        /\ call'[d].inStage = ledger'[RunOf[d]][call'[d].stage]
      BY DEF SumsCurrent
    <3>1. d = c
      BY <2>1, <2>5
    <3> QED BY <1>1, <2>2, <2>4, <2>5, <2>8, <3>1
  <2>10. CapReachesStatus'
    <3>1. CASE fanout = "ended"
      BY <1>1, <3>1 DEF CapReachesStatus
    <3> QED BY <1>1, <2>1, <2>5, <2>8, <3>1, CapKept
  <2>11. TypeOK'
    BY <1>1, <2>2, <2>5 DEF IInv, TypeOK, itemVars
  <2> QED BY <2>6, <2>7, <2>9, <2>10, <2>11 DEF IInv
<1>4. CASE Persist(c)
  <2>1. PICK cost \in Costs :
          /\ ledger' = Logged(c, cost)
          /\ call' = [call EXCEPT ![c] = [CallingFor(call[c].stage) EXCEPT !.pc = Evaluate(c, cost)]]
    BY <1>1, <1>4 DEF Persist
  <2> DEFINE x == [CallingFor(call[c].stage) EXCEPT !.pc = Evaluate(c, cost)]
  <2>2. Evaluate(c, cost) \in {"allowed", "paused", "killed"}
    BY DEF Evaluate
  <2>3. x \in Call /\ x.pc = Evaluate(c, cost)
    <3>1. call[c].stage \in Stages
      BY <1>1 DEF Call
    <3> QED BY <2>2, <3>1 DEF CallingFor, Call, CallPC
  <2> HIDE DEF x
  <2>4. /\ call' \in [Callers -> Call] /\ call'[c] = x
        /\ \A d \in Callers \ {c} : call'[d] = call[d]
    BY <1>1, <2>1, <2>3, CallWritten DEF x
  <2>5. /\ ledger' \in [Runs -> [Stages -> Nat]]
        /\ RunCost(Run)' = RunCost(Run) + cost /\ RunCost(Run) \in Nat
    BY <1>1, <2>1, LoggedCost
  <2>6. call[c].pc = "locked" /\ call[c].run = RunCost(Run)
    BY <1>1, <1>4 DEF Persist, IInv, SumsCurrent
  <2>7. Phases'
    <3>1. \A d \in Callers : Busy(d)' <=> Busy(d)
      BY <2>2, <2>3, <2>4, <2>6 DEF Busy
    <3> QED BY <1>1, <3>1, BusyKept
  <2>8. \A d \in Callers : call'[d].pc # "locked"
    BY <2>2, <2>3, <2>4, <2>6 DEF IInv, OneLock
  <2>9. OneLock' /\ SumsCurrent'
    BY <2>8 DEF OneLock, SumsCurrent
  <2>10. CapReachesStatus'
    <3> SUFFICES ASSUME fanout # "ended", RunCost(Run)' >= Caps.hard
                 PROVE  call'[c].pc \in {"paused", "killed"}
      BY <1>1, FanoutAssumption DEF CapReachesStatus
    <3>1. call[c].run + cost >= Caps.hard
      BY <2>5, <2>6
    <3> QED BY <2>3, <2>4, <3>1 DEF Evaluate
  <2>11. TypeOK'
    BY <1>1, <2>4, <2>5 DEF IInv, TypeOK, itemVars
  <2> QED BY <2>7, <2>9, <2>10, <2>11 DEF IInv
<1> QED BY <1>2, <1>3, <1>4 DEF LlmStep, CallStep

-----------------------------------------------------------------------------
(* The end of the fan-out.                                                 *)

(* Cancelled tasks log nothing any more, except for a commit under way.    *)
LEMMA CancelledKeeps ==
  ASSUME IInv, NEW cs \in SUBSET Callers, Cancelled(cs)
  PROVE  /\ call' \in [Callers -> Call] /\ ledger' \in [Runs -> [Stages -> Nat]]
         /\ OneLock' /\ SumsCurrent'
         /\ \A c \in Callers : IF c \in cs THEN ~Busy(c)' ELSE call'[c] = call[c]
<1>1. /\ call \in [Callers -> Call] /\ ledger \in [Runs -> [Stages -> Nat]]
      /\ NoCall \in Call /\ NoCall.pc = "idle"
  BY CallTypes DEF IInv, TypeOK
<1>2. call' = [c \in Callers |-> IF c \in cs THEN NoCall ELSE call[c]]
  BY DEF Cancelled
<1>3. /\ call' \in [Callers -> Call]
      /\ \A c \in Callers : IF c \in cs THEN call'[c] = NoCall ELSE call'[c] = call[c]
  BY <1>1, <1>2
<1>4. \A c \in Callers : call'[c].pc = "locked" => c \notin cs /\ call'[c] = call[c]
  BY <1>1, <1>3
<1>5. OneLock'
  BY <1>4 DEF IInv, OneLock
<1>6. CASE UNCHANGED ledger
  <2>1. SumsCurrent'
    BY <1>4, <1>6 DEF IInv, SumsCurrent, RunCost
  <2> QED BY <1>1, <1>3, <1>5, <1>6, <2>1 DEF Busy
<1>7. CASE \E c \in cs, cost \in Costs : call[c].pc = "locked" /\ ledger' = Logged(c, cost)
  <2> PICK c \in cs, cost \in Costs : call[c].pc = "locked" /\ ledger' = Logged(c, cost)
    BY <1>7
  <2>1. ledger' \in [Runs -> [Stages -> Nat]]
    BY <1>1, LoggedCost
  <2>2. \A d \in Callers : call'[d].pc # "locked"
    BY <1>4 DEF IInv, OneLock
  <2>3. SumsCurrent'
    BY <2>2 DEF SumsCurrent
  <2> QED BY <1>1, <1>3, <1>5, <2>1, <2>3 DEF Busy
<1> QED BY <1>6, <1>7 DEF Cancelled

LEMMA ItemHaltsKeeps ==
  ASSUME IInv, NEW i \in Items, ItemHalts(i)
  PROVE  IInv'
<1>1. /\ call' \in [Callers -> Call] /\ ledger' \in [Runs -> [Stages -> Nat]]
      /\ OneLock' /\ SumsCurrent'
      /\ \A c \in Callers : IF c \in Children(i) THEN ~Busy(c)' ELSE call'[c] = call[c]
  <2>1. Children(i) \in SUBSET Callers
    BY FanoutAssumption DEF Children
  <2> QED BY <2>1, CancelledKeeps DEF ItemHalts
<1>2. /\ item[i] = "halting" /\ fanout' = "halted" /\ status' = status /\ status # "running"
      /\ regens' = regens
  BY Known DEF ItemHalts, Phase
<1>3. PICK saved \in SUBSET {j \in Items : item[j] = "saving"} : briefs' = briefs \cup saved
  BY DEF ItemHalts
<1>4. /\ item' = [j \in Items |-> IF j = i THEN "halted"
                                  ELSE IF j \in Pending THEN Stopped(j) ELSE item[j]]
      /\ todo' = [j \in Items |-> IF j \in Pending \ {i} /\ Stopped(j) = "cancelled"
                                  THEN {} ELSE todo[j]]
  BY DEF ItemHalts
<1>5. \A j \in Items : Stopped(j) \in {"halted", "failed", "cancelled"}
  BY DEF Stopped
<1>6. TypeOK'
  <2>1. item' \in [Items -> ItemPC]
    BY <1>4, <1>5, Known DEF ItemPC
  <2>2. todo' \in [Items -> SUBSET Chunks]
    BY <1>4, Known
  <2>3. briefs' \subseteq Items
    BY <1>3, Known
  <2> QED BY <1>1, <1>2, <2>1, <2>2, <2>3, Known DEF IInv, TypeOK
<1>7. ASSUME NEW j \in Items PROVE Phase(j)'
  <2>1. \A k \in Chunks \cup {Main} :
           IF j \in Pending \ {i} /\ Stopped(j) = "cancelled"
           THEN ~Busy(<<j, k>>)' ELSE call'[<<j, k>>] = call[<<j, k>>]
    <3>1. \A k \in Chunks \cup {Main} : <<j, k>> \in Callers /\ <<j, k>> \in ItemCallers
      BY CallTypes, FanoutAssumption
    <3> QED BY <1>1, <3>1 DEF Children
  <2>2. /\ Phase(j) /\ todo[j] \subseteq Chunks
        /\ briefs \subseteq Items /\ (j \in briefs' => j \in briefs \/ item[j] = "saving")
    BY <1>3, Known
  <2>3. CASE j \in Pending \ {i} /\ Stopped(j) = "cancelled"
    <3>1. item'[j] = "cancelled" /\ todo'[j] = {}
      BY <1>4, <2>3 DEF Pending
    <3> QED BY <1>2, <2>1, <2>3, <3>1 DEF Phase, Quiet, Over
  <2>4. CASE j = i \/ (j \in Pending /\ Stopped(j) # "cancelled")
    <3>1. item'[j] \in {"halted", "failed"} /\ todo'[j] = todo[j]
      BY <1>4, <1>5, <2>4
    <3>2. item[j] \in {"halting", "failing"}
      BY <1>2, <2>4 DEF Stopped
    <3>3. \A k \in Chunks \cup {Main} : call'[<<j, k>>] = call[<<j, k>>]
      BY <2>1, <2>4
    <3>4. ~Busy(<<j, Main>>) /\ j \notin briefs'
      BY <2>2, <3>2 DEF Phase
    <3> QED BY <1>2, <2>2, <3>1, <3>3, <3>4 DEF Phase, Busy, Working, Over
  <2>5. CASE j # i /\ j \notin Pending
    <3>1. item'[j] = item[j] /\ todo'[j] = todo[j] /\ item[j] \in Over
      BY <1>4, <2>5 DEF Pending
    <3>2. \A k \in Chunks \cup {Main} : call'[<<j, k>>] = call[<<j, k>>]
      BY <2>1, <2>5
    <3>3. j \in briefs' => j \in briefs
      BY <2>2, <3>1 DEF Over
    <3> QED BY <1>2, <2>2, <3>1, <3>2, <3>3 DEF Phase, Quiet, Busy, Over
  <2> QED BY <2>3, <2>4, <2>5
<1>8. Phases'
  BY <1>7 DEF Phases
<1>9. CapReachesStatus'
  BY <1>2 DEF CapReachesStatus
<1> QED BY <1>1, <1>6, <1>8, <1>9 DEF IInv

LEMMA FanoutDoneKeeps ==
  ASSUME IInv, FanoutDone \/ UserCancel
  PROVE  IInv'
<1>1. /\ call' = call /\ ledger' = ledger /\ item' = item /\ todo' = todo
      /\ regens' = regens /\ briefs' = briefs
      /\ fanout' \in {fanout, "done"} /\ status' \in {status, "cancelled"}
      /\ fanout' # fanout => Pending = {} /\ fanout = "running"
      /\ status' # status => status # "ended"
  BY DEF FanoutDone, UserCancel, llmVars, itemVars
<1>2. TypeOK'
  BY <1>1 DEF IInv, TypeOK
<1>3. Phases'
  <2> SUFFICES ASSUME NEW i \in Items PROVE Phase(i)'
    BY DEF Phases
  <2>1. fanout' # fanout => item[i] \in Over
    BY <1>1 DEF Pending
  <2> QED BY <1>1, <2>1, Known DEF Phase, Quiet, Busy
<1>4. OneLock' /\ SumsCurrent' /\ RunCost(Run)' = RunCost(Run)
  BY <1>1, MoneyKept
<1>5. CapReachesStatus'
  BY <1>1, <1>4 DEF IInv, CapReachesStatus
<1> QED BY <1>2, <1>3, <1>4, <1>5 DEF IInv

LEMMA JobEndsKeeps ==
  ASSUME IInv, JobEnds
  PROVE  IInv'
<1>1. /\ call' \in [Callers -> Call] /\ ledger' \in [Runs -> [Stages -> Nat]]
      /\ OneLock' /\ SumsCurrent'
      /\ \A c \in Callers : ~Busy(c)'
  <2>1. ItemCallers \in SUBSET Callers /\ \A c \in Callers : c \in ItemCallers
    BY FanoutAssumption
  <2> QED BY <2>1, CancelledKeeps DEF JobEnds
<1>2. /\ item' = item /\ regens' = regens /\ briefs' = briefs /\ status' = status
      /\ todo' = [i \in Items |-> {}] /\ fanout' = "ended" /\ fanout # "running"
  BY DEF JobEnds
<1>3. TypeOK'
  BY <1>1, <1>2 DEF IInv, TypeOK
<1>4. Phases'
  <2> SUFFICES ASSUME NEW i \in Items PROVE Phase(i)'
    BY DEF Phases
  <2>1. \A k \in Chunks \cup {Main} : ~Busy(<<i, k>>)'
    BY <1>1, CallTypes
  <2> QED BY <1>2, <2>1, Known DEF Phase, Quiet
<1>5. CapReachesStatus'
  BY <1>2 DEF CapReachesStatus
<1> QED BY <1>1, <1>3, <1>4, <1>5 DEF IInv

-----------------------------------------------------------------------------
LEMMA InitIInv == Init => IInv
<1> SUFFICES ASSUME Init PROVE IInv
  OBVIOUS
<1>1. NoCall \in Call /\ \A c \in Callers : call[c].pc = "idle"
  BY CallTypes DEF Init
<1>2. TypeOK
  BY <1>1, FanoutAssumption DEF Init, TypeOK, ItemPC
<1>3. OneLock /\ SumsCurrent
  BY <1>1 DEF OneLock, SumsCurrent
<1>4. Phases
  <2> SUFFICES ASSUME NEW i \in Items PROVE Phase(i)
    BY DEF Phases
  <2>1. \A k \in Chunks \cup {Main} : ~Busy(<<i, k>>)
    BY <1>1, CallTypes DEF Busy
  <2> QED BY <2>1 DEF Init, Phase, Quiet
<1>5. CapReachesStatus
  <2> DEFINE f == ledger[Run]
  <2>1. \A s \in Stages : f[s] = 0
    BY FanoutAssumption DEF Init
  <2> HIDE DEF f
  <2>2. SumFunctionOnSet(f, Stages) = 0
    BY <2>1, SumZero, BudgetAssumption
  <2>3. RunCost(Run) = 0
    BY <2>2 DEF RunCost, f
  <2>4. Caps.hard \in Nat \ {0}
    BY BudgetAssumption
  <2> QED BY <2>3, <2>4 DEF CapReachesStatus
<1> QED BY <1>2, <1>3, <1>4, <1>5 DEF IInv

LEMMA NextKeepsIInv == IInv /\ [Next]_vars => IInv'
<1> SUFFICES ASSUME IInv, [Next]_vars PROVE IInv'
  OBVIOUS
<1>1. CASE \E c \in ItemCallers : LlmStep(c)
  BY <1>1, LlmStepKeeps, FanoutAssumption
<1>2. ASSUME NEW i \in Items, ItemStep(i) PROVE IInv'
  <2>1. CASE Start(i) \/ Fetch(i) \/ Save(i) \/ ItemFails(i)
    BY <2>1, PlainItemSteps
  <2>2. CASE Synthesise(i) \/ \E k \in Chunks : StartChunk(i, k)
    BY <2>2, BeginnersKeep
  <2>3. CASE \/ Regenerate(i) \/ Verified(i) \/ SynthesisFails(i) \/ Judged(i)
             \/ \E k \in Chunks : ChunkDone(i, k) \/ ChunkFails(i, k)
    BY <2>3, AnsweredKeep
  <2>4. CASE \E k \in Chunks \cup {Main} : Halt(i, k)
    BY <2>4, HaltKeeps
  <2>5. CASE ItemHalts(i)
    BY <2>5, ItemHaltsKeeps
  <2> QED BY <1>2, <2>1, <2>2, <2>3, <2>4, <2>5 DEF ItemStep
<1>3. CASE FanoutDone \/ UserCancel
  BY <1>3, FanoutDoneKeeps
<1>4. CASE JobEnds
  BY <1>4, JobEndsKeeps
<1>5. CASE UNCHANGED vars
  BY <1>5 DEF vars, llmVars, itemVars, IInv, TypeOK, OneLock, SumsCurrent, RunCost, Phases,
              Phase, Quiet, Busy, CapReachesStatus
<1> QED BY <1>1, <1>2, <1>3, <1>4, <1>5 DEF Next, JobStep

(* Every decision is made on sums that are still exact when it is logged,  *)
(* regenerations keep their limit, and no item whose brief is there makes  *)
(* a call, however the items and their chunks interleave and whichever of  *)
(* them is halted, fails or is cancelled.                                  *)
THEOREM MoneySound == Spec => []FanoutInv
<1>1. IInv => NoRework
  <2> SUFFICES ASSUME IInv, NEW i \in briefs, NEW k \in Chunks \cup {Main}
               PROVE  ~Busy(<<i, k>>)
    BY DEF NoRework
  <2>1. i \in Items /\ Phase(i)
    BY DEF IInv, TypeOK, Phases
  <2> QED BY <2>1 DEF Phase, Quiet, Working
<1>2. IInv => FanoutInv
  BY <1>1 DEF IInv, FanoutInv
<1> QED BY <1>2, InitIInv, NextKeepsIInv, PTL DEF Spec

(* After a halt the only tasks left with a call, or with a chunk to begin, *)
(* are orphans of items that had raised by themselves.                     *)
THEOREM OrphansOnly == Spec => []OnlyOrphansSpend
<1>1. IInv => OnlyOrphansSpend
  <2> SUFFICES ASSUME IInv, fanout = "halted", NEW i \in Items
               PROVE  /\ ~Busy(<<i, Main>>)
                      /\ todo[i] # {} \/ ChunksAtWork(i) # {} =>
                             item[i] \in {"halted", "failed"}
    BY DEF OnlyOrphansSpend
  <2>1. item[i] \in Over /\ Phase(i)
    BY Known DEF Phase
  <2>2. ~Busy(<<i, Main>>)
    BY <2>1 DEF Phase, Over
  <2>3. item[i] \in Working => item[i] \in {"halted", "failed"}
    BY <2>1 DEF Working, Over
  <2>4. Quiet(i) => todo[i] = {} /\ ChunksAtWork(i) = {}
    BY DEF Quiet, ChunksAtWork
  <2> QED BY <2>1, <2>2, <2>3, <2>4 DEF Phase
<1> QED BY <1>1, InitIInv, NextKeepsIInv, PTL DEF Spec

(* A run that has cost its hard cap is stopped, or the call that noticed   *)
(* is on its way to the orchestrator.                                      *)
THEOREM CapStops == Spec => []CapReachesStatus
<1>1. IInv => CapReachesStatus
  BY DEF IInv
<1> QED BY <1>1, InitIInv, NextKeepsIInv, PTL DEF Spec

=============================================================================
