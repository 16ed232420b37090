--------------------------- MODULE ServicesProofs ---------------------------
(***************************************************************************)
(* Theorems about the services that MCServices puts side by side: for each *)
(* the inductive invariant of its own steps, then the property of the sum, *)
(* in which a step of another service leaves its variables alone.          *)
(***************************************************************************)
EXTENDS MCServices, FiniteSetTheorems, TLAPS, Sequences

-----------------------------------------------------------------------------
(* The calls of the language models.  The cost recorded for the primary    *)
(* model is bounded for any number of callers, any cap and any largest     *)
(* cost: every call that has passed the check of the cap and may still be  *)
(* charged reserves one largest cost.                                      *)

\* The calls that may still be charged for an answer of the primary model.
MayCharge ==
    {c \in Callers :
        \/ pc[c] = "try" /\ Primary \in Configured \ tried[c]
        \/ pc[c] \in {"waiting", "caching", "recording"} /\ at[c] = Primary}

\* A provider that is not the primary one is asked only once that one failed.
PrimaryFirst ==
    \A c \in Callers :
        pc[c] = "waiting" /\ at[c] # Primary => Primary \notin Configured \ tried[c]

Reserved ==
    Cap > 0 => paid + MaxCost * Cardinality(MayCharge)
                 <= Cap - 1 + MaxCost * Cardinality(Callers)

CostInv == TypeOK /\ PrimaryFirst /\ paid <= cost /\ Reserved

-----------------------------------------------------------------------------
LEMMA MaySubset ==
    MayCharge \subseteq Callers /\ IsFiniteSet(MayCharge)
    /\ Cardinality(MayCharge) \in Nat /\ Cardinality(Callers) \in Nat
    /\ Cardinality(MayCharge) <= Cardinality(Callers)
  BY LlmAssumption, FS_Subset, FS_CardinalityType DEF MayCharge

LEMMA TimesMonotone ==
    ASSUME NEW k \in Nat, NEW a \in Nat, NEW b \in Nat, a <= b
    PROVE  k * a <= k * b /\ k * a \in Nat /\ k * b \in Nat
  BY SMT

LEMMA TimesLess ==
    ASSUME NEW k \in Nat, NEW a \in Nat, a > 0
    PROVE  k * a = k * (a - 1) + k
  BY SMT

\* Type correctness (every action of the model).
LEMMA TypeStep == TypeOK /\ [Next]_vars => TypeOK'
<1> SUFFICES ASSUME TypeOK, [Next]_vars PROVE TypeOK'
  OBVIOUS
<1> USE LlmAssumption
<1> USE DEF TypeOK, Goto, Over, Providers, Primary
<1>1. CASE UNCHANGED vars
  BY <1>1 DEF vars
<1>2. ASSUME NEW c \in Callers, CallStep(c) PROVE TypeOK'
  <2>1. CASE CacheHit(c) BY <2>1 DEF CacheHit
  <2>2. CASE CacheMiss(c) BY <2>2 DEF CacheMiss
  <2>3. CASE Refuse(c) BY <2>3 DEF Refuse
  <2>4. CASE Admit(c) BY <2>4 DEF Admit
  <2>5. ASSUME NEW m \in Providers, Ask(c, m) PROVE TypeOK' BY <2>5 DEF Ask
  <2>6. ASSUME NEW m \in Providers, Skip(c, m) PROVE TypeOK' BY <2>6 DEF Skip
  <2>7. CASE ProviderFails(c) BY <2>7 DEF ProviderFails
  <2>8. CASE ProviderAnswers(c) BY <2>8 DEF ProviderAnswers
  <2>9. CASE ProviderRaises(c) BY <2>9 DEF ProviderRaises
  <2>10. CASE Store(c) BY <2>10 DEF Store
  <2>11. CASE Record(c) BY <2>11 DEF Record
  <2>12. CASE AskLocal(c) BY <2>12 DEF AskLocal
  <2> QED BY <1>2, <2>1, <2>2, <2>3, <2>4, <2>5, <2>6, <2>7, <2>8, <2>9, <2>10, <2>11, <2>12
           DEF CallStep
<1>3. ASSUME NEW c \in Callers, Cancel(c) PROVE TypeOK'
  BY <1>3 DEF Cancel
<1>4. ASSUME NEW c \in Callers, NEW p \in Prompts, Begin(c, p) PROVE TypeOK'
  BY <1>4 DEF Begin
<1>5. ASSUME NEW p \in Prompts, Expire(p) PROVE TypeOK'
  BY <1>5 DEF Expire
<1> QED BY <1>1, <1>2, <1>3, <1>4, <1>5 DEF Next

\* A step that charges nothing and lets no further call past the cap.
LEMMA QuietStep ==
    ASSUME CostInv, TypeOK', PrimaryFirst', paid' = paid, cost' >= cost,
           MayCharge' \subseteq MayCharge
    PROVE  CostInv'
<1>1. paid' <= cost'
  BY DEF CostInv, TypeOK
<1>2. Cardinality(MayCharge') \in Nat /\ Cardinality(MayCharge') <= Cardinality(MayCharge)
  BY MaySubset, FS_Subset, FS_CardinalityType
<1>3. MaxCost * Cardinality(MayCharge') <= MaxCost * Cardinality(MayCharge)
  BY <1>2, MaySubset, TimesMonotone, LlmAssumption
<1>4. /\ MaxCost * Cardinality(MayCharge') \in Nat
      /\ MaxCost * Cardinality(MayCharge) \in Nat
      /\ MaxCost * Cardinality(Callers) \in Nat
  BY <1>2, MaySubset, TimesMonotone, LlmAssumption
<1>5. Reserved'
  BY <1>3, <1>4, LlmAssumption DEF CostInv, Reserved, TypeOK
<1> QED BY <1>1, <1>5 DEF CostInv

LEMMA CostStep == CostInv /\ [Next]_vars => CostInv'
<1> SUFFICES ASSUME CostInv, [Next]_vars PROVE CostInv'
  OBVIOUS
<1>T. TypeOK /\ TypeOK'
  BY TypeStep DEF CostInv
<1>1. CASE UNCHANGED vars
  <2>1. PrimaryFirst' /\ MayCharge' = MayCharge
    BY <1>1 DEF CostInv, PrimaryFirst, MayCharge, vars
  <2> QED BY <1>1, <1>T, <2>1, QuietStep DEF vars, TypeOK
<1>2. ASSUME NEW c \in Callers, CallStep(c) PROVE CostInv'
  <2>1. CASE CacheHit(c)
    <3>1. PrimaryFirst' /\ MayCharge' \subseteq MayCharge
      BY <2>1, <1>T DEF CacheHit, CostInv, PrimaryFirst, MayCharge, Goto, TypeOK
    <3>2. paid' = paid /\ cost' >= cost
      BY <2>1, <1>T, LlmAssumption DEF CacheHit, TypeOK
    <3> QED BY <1>T, <3>1, <3>2, QuietStep
  <2>2. CASE CacheMiss(c)
    <3>1. PrimaryFirst' /\ MayCharge' \subseteq MayCharge
      BY <2>2, <1>T DEF CacheMiss, CostInv, PrimaryFirst, MayCharge, Goto, TypeOK
    <3> QED BY <2>2, <1>T, <3>1, QuietStep DEF CacheMiss, TypeOK
  <2>3. CASE Refuse(c)
    <3>1. PrimaryFirst' /\ MayCharge' \subseteq MayCharge
      BY <2>3, <1>T DEF Refuse, CostInv, PrimaryFirst, MayCharge, Goto, TypeOK
    <3> QED BY <2>3, <1>T, <3>1, QuietStep DEF Refuse, TypeOK
  <2>4. CASE Admit(c)
    <3>1. PrimaryFirst' /\ paid' = paid /\ cost' = cost
      BY <2>4, <1>T DEF Admit, CostInv, PrimaryFirst, Goto, TypeOK
    <3>2. Cap > 0 => paid <= Cap - 1
      BY <2>4, <1>T, LlmAssumption DEF Admit, Blocked, CostInv, TypeOK
    <3>3. MayCharge' \subseteq Callers
      BY DEF MayCharge
    <3>4. Cardinality(MayCharge') \in Nat /\ Cardinality(MayCharge') <= Cardinality(Callers)
      BY <3>3, LlmAssumption, FS_Subset, FS_CardinalityType
    <3>5. MaxCost * Cardinality(MayCharge') <= MaxCost * Cardinality(Callers)
          /\ MaxCost * Cardinality(MayCharge') \in Nat
          /\ MaxCost * Cardinality(Callers) \in Nat
      BY <3>4, MaySubset, TimesMonotone, LlmAssumption
    <3>6. Reserved'
      BY <3>1, <3>2, <3>5, <1>T, LlmAssumption DEF Reserved, TypeOK
    <3> QED BY <3>1, <3>6, <1>T DEF CostInv
  <2>5. ASSUME NEW m \in Providers, Ask(c, m) PROVE CostInv'
    <3>0. m # Primary => Primary \notin Configured \ tried[c]
      BY <2>5 DEF Ask, IsNext, Candidates, Before, Primary, Providers
    <3>1. PrimaryFirst'
      BY <2>5, <3>0, <1>T DEF Ask, CostInv, PrimaryFirst, Goto, TypeOK
    <3>2. MayCharge' \subseteq MayCharge
      BY <2>5, <1>T DEF Ask, IsNext, Candidates, MayCharge, Goto, TypeOK, Primary
    <3> QED BY <2>5, <1>T, <3>1, <3>2, QuietStep DEF Ask, TypeOK
  <2>6. ASSUME NEW m \in Providers, Skip(c, m) PROVE CostInv'
    <3>1. PrimaryFirst' /\ MayCharge' \subseteq MayCharge
      BY <2>6, <1>T DEF Skip, CostInv, PrimaryFirst, MayCharge, TypeOK
    <3> QED BY <2>6, <1>T, <3>1, QuietStep DEF Skip, TypeOK
  <2>7. CASE ProviderFails(c)
    <3>1. PrimaryFirst'
      BY <2>7, <1>T DEF ProviderFails, CostInv, PrimaryFirst, Goto, TypeOK
    <3>2. MayCharge' \subseteq MayCharge
      BY <2>7, <1>T DEF ProviderFails, CostInv, PrimaryFirst, MayCharge, Goto, TypeOK
    <3> QED BY <2>7, <1>T, <3>1, <3>2, QuietStep DEF ProviderFails, TypeOK
  <2>8. CASE ProviderAnswers(c)
    <3>1. PrimaryFirst' /\ MayCharge' \subseteq MayCharge
      BY <2>8, <1>T DEF ProviderAnswers, CostInv, PrimaryFirst, MayCharge, Goto, TypeOK
    <3> QED BY <2>8, <1>T, <3>1, QuietStep DEF ProviderAnswers, TypeOK
  <2>9. CASE ProviderRaises(c)
    <3>1. PrimaryFirst' /\ MayCharge' \subseteq MayCharge
      BY <2>9, <1>T DEF ProviderRaises, CostInv, PrimaryFirst, MayCharge, Goto, TypeOK
    <3> QED BY <2>9, <1>T, <3>1, QuietStep DEF ProviderRaises, TypeOK
  <2>10. CASE Store(c)
    <3>1. PrimaryFirst' /\ MayCharge' \subseteq MayCharge
      BY <2>10, <1>T DEF Store, CostInv, PrimaryFirst, MayCharge, Goto, TypeOK
    <3> QED BY <2>10, <1>T, <3>1, QuietStep DEF Store, TypeOK
  <2>11. CASE Record(c)
    <3>1. PrimaryFirst'
      BY <2>11, <1>T DEF Record, CostInv, PrimaryFirst, Goto, TypeOK
    <3>2. MayCharge' \subseteq MayCharge
      BY <2>11, <1>T DEF Record, MayCharge, Goto, TypeOK
    <3>3. CASE at[c] # Primary
      BY <2>11, <3>1, <3>2, <3>3, <1>T, QuietStep DEF Record, TypeOK
    <3>4. CASE at[c] = Primary
      <4>1. PICK x \in 0 .. MaxCost : cost' = cost + x /\ paid' = paid + x
        BY <2>11, <3>4 DEF Record
      <4>2. MayCharge' = MayCharge \ {c} /\ c \in MayCharge
        BY <2>11, <3>4, <1>T DEF Record, MayCharge, Goto, TypeOK
      <4>3. Cardinality(MayCharge') = Cardinality(MayCharge) - 1 /\ Cardinality(MayCharge) > 0
        <5>1. Cardinality(MayCharge \ {c}) = Cardinality(MayCharge) - 1
              /\ Cardinality(MayCharge \ {c}) \in Nat
          BY <4>2, MaySubset, FS_RemoveElement, FS_CardinalityType
        <5> QED BY <5>1, <4>2, MaySubset
      <4>4. MaxCost * Cardinality(MayCharge)
              = MaxCost * Cardinality(MayCharge') + MaxCost
        BY <4>3, MaySubset, TimesLess, LlmAssumption
      <4>5. MaxCost * Cardinality(MayCharge') \in Nat /\ MaxCost * Cardinality(Callers) \in Nat
        BY <4>3, MaySubset, TimesMonotone, LlmAssumption
      <4>6. Reserved'
        BY <4>1, <4>4, <4>5, <1>T, LlmAssumption DEF CostInv, Reserved, TypeOK
      <4>7. paid' <= cost'
        BY <4>1, <1>T, LlmAssumption DEF CostInv, TypeOK
      <4> QED BY <3>1, <4>6, <4>7, <1>T DEF CostInv
    <3> QED BY <3>3, <3>4
  <2>12. CASE AskLocal(c)
    <3>1. PrimaryFirst' /\ MayCharge' \subseteq MayCharge
      BY <2>12, <1>T DEF AskLocal, CostInv, PrimaryFirst, MayCharge, Goto, TypeOK
    <3> QED BY <2>12, <1>T, <3>1, QuietStep DEF AskLocal, TypeOK
  <2> QED BY <1>2, <2>1, <2>2, <2>3, <2>4, <2>5, <2>6, <2>7, <2>8, <2>9, <2>10, <2>11, <2>12
           DEF CallStep
<1>3. ASSUME NEW c \in Callers, Cancel(c) PROVE CostInv'
  <2>1. PrimaryFirst' /\ MayCharge' \subseteq MayCharge
    BY <1>3, <1>T DEF Cancel, CostInv, PrimaryFirst, MayCharge, Goto, TypeOK
  <2> QED BY <1>3, <1>T, <2>1, QuietStep DEF Cancel, TypeOK
<1>4. ASSUME NEW c \in Callers, NEW p \in Prompts, Begin(c, p) PROVE CostInv'
  <2>1. PrimaryFirst' /\ MayCharge' \subseteq MayCharge
    BY <1>4, <1>T DEF Begin, Over, CostInv, PrimaryFirst, MayCharge, Goto, TypeOK
  <2> QED BY <1>4, <1>T, <2>1, QuietStep DEF Begin, TypeOK
<1>5. ASSUME NEW p \in Prompts, Expire(p) PROVE CostInv'
  <2>1. PrimaryFirst' /\ MayCharge' \subseteq MayCharge
    BY <1>5, <1>T DEF Expire, CostInv, PrimaryFirst, MayCharge
  <2> QED BY <1>5, <1>T, <2>1, QuietStep DEF Expire, TypeOK
<1> QED BY <1>1, <1>2, <1>3, <1>4, <1>5 DEF Next

LEMMA CostInit == Init => CostInv
<1> SUFFICES ASSUME Init PROVE CostInv
  OBVIOUS
<1>1. TypeOK
  BY LlmAssumption DEF Init, TypeOK, Over, Providers, Primary
<1>2. PrimaryFirst /\ paid <= cost /\ MayCharge = {}
  BY DEF Init, PrimaryFirst, MayCharge
<1>3. MaxCost * Cardinality(MayCharge) <= MaxCost * Cardinality(Callers)
      /\ MaxCost * Cardinality(MayCharge) = 0
      /\ MaxCost * Cardinality(Callers) \in Nat
  <2>1. Cardinality(MayCharge) = 0
    BY <1>2, FS_EmptySet
  <2> QED BY <2>1, MaySubset, TimesMonotone, LlmAssumption
<1> QED BY <1>1, <1>2, <1>3, LlmAssumption DEF CostInv, Reserved, Init

\* The recorded spend of the primary model stays below the cap plus one call of
\* each caller, for every number of callers (is_blocked, record).
THEOREM SpendIsBounded == Spec => []SpendBounded
<1>1. CostInv => SpendBounded
  <2> SUFFICES ASSUME CostInv PROVE SpendBounded
    OBVIOUS
  <2>1. MaxCost * Cardinality(MayCharge) \in Nat /\ MaxCost * Cardinality(Callers) \in Nat
    BY MaySubset, TimesMonotone, LlmAssumption
  <2> QED BY <2>1, LlmAssumption DEF CostInv, Reserved, SpendBounded, TypeOK
<1> QED BY <1>1, CostInit, CostStep, PTL DEF Spec


-----------------------------------------------------------------------------
(* Loop runs.                                                              *)

\* The row and the memory are records throughout, and a run that was answered is
\* over: what its session could write is in the row, what it could not in memory.
Stored == [status : {"absent", "running", "completed", "failed"},
           steps : Seq({"success", "failed", "skipped"})]
LoopInv ==
    /\ Loop!TypeOK
    /\ row \in Stored /\ memory \in Stored
    /\ end = "answered" =>
         /\ todo = "over"
         /\ session = "ok" => row = Loop!Result
         /\ row.status = "absent" /\ ~restarted => memory = Loop!Result

LEMMA ResultStored == Loop!TypeOK => Loop!Result \in Stored /\ Loop!Result.status # "absent"
  BY DEF Loop!TypeOK, Loop!Result, Loop!Outcome, Stored

\* A step that neither answers nor touches what is stored.
LEMMA LoopOnward ==
    ASSUME LoopInv, Loop!TypeOK', todo # "over", end' = end, row' = row, memory' = memory
    PROVE  LoopInv'
  BY DEF LoopInv

LEMMA LoopStays == LoopInv /\ [Loop!Next]_Loop!vars => LoopInv'
<1> SUFFICES ASSUME LoopInv, [Loop!Next]_Loop!vars PROVE LoopInv'
  OBVIOUS
<1> USE DEF Loop!TypeOK
<1>1. Loop!TypeOK
  BY DEF LoopInv
<1>2. CASE Loop!Insert
  <2>1. [status |-> "running", steps |-> << >>] \in Stored
    BY DEF Stored
  <2>2. row' \in Stored /\ row'.status \in {"absent", "running", "completed", "failed"}
    BY <1>1, <1>2, <2>1 DEF Loop!Insert, LoopInv, Stored
  <2>3. Loop!TypeOK'
    BY <1>1, <1>2, <2>2 DEF Loop!Insert
  <2> QED BY <1>2, <2>2, <2>3 DEF Loop!Insert, LoopInv
<1>3. CASE Loop!Validate
  <2>1. Loop!TypeOK'
    BY <1>1, <1>3 DEF Loop!Validate, Loop!StepResult
  <2> QED BY <1>3, <2>1, LoopOnward DEF Loop!Validate, Loop!StepResult
<1>4. CASE Loop!Extract
  <2>1. Loop!TypeOK'
    <3>1. UNCHANGED <<session, target, row, memory, end, restarted>> /\ todo' = "save"
      BY <1>4 DEF Loop!Extract, Loop!StepResult
    <3>2. steps' \in Seq({"success", "failed", "skipped"}) /\ Len(steps') <= 5
      BY <1>1, <1>4 DEF Loop!Extract, Loop!StepResult
    <3>3. found' \subseteq {"skills", "name"}
      BY <1>1, <1>4 DEF Loop!Extract
    <3> QED BY <1>1, <3>1, <3>2, <3>3
  <2> QED BY <1>4, <2>1, LoopOnward DEF Loop!Extract, Loop!StepResult
<1>5. CASE Loop!UpdateGraph
  <2>1. Loop!TypeOK'
    BY <1>1, <1>5 DEF Loop!UpdateGraph, Loop!StepResult
  <2> QED BY <1>5, <2>1, LoopOnward DEF Loop!UpdateGraph, Loop!StepResult
<1>6. CASE Loop!Match
  <2>1. Loop!TypeOK'
    BY <1>1, <1>6 DEF Loop!Match, Loop!StepResult
  <2> QED BY <1>6, <2>1, LoopOnward DEF Loop!Match, Loop!StepResult
<1>7. CASE Loop!LearningPath
  <2>1. Loop!TypeOK'
    BY <1>1, <1>7 DEF Loop!LearningPath, Loop!StepResult
  <2> QED BY <1>7, <2>1, LoopOnward DEF Loop!LearningPath, Loop!StepResult
<1>8. CASE Loop!Save
  <2>1. row' \in Stored /\ row'.status = row.status
    BY <1>1, <1>8 DEF Loop!Save, LoopInv, Stored
  <2>2. Loop!TypeOK'
    BY <1>1, <1>8, <2>1 DEF Loop!Save
  <2> QED BY <1>8, <2>1, <2>2 DEF Loop!Save, LoopInv
<1>9. CASE Loop!Complete
  <2>1. Loop!Result \in Stored /\ Loop!Result.status # "absent"
    BY <1>1, ResultStored
  <2>2. Loop!Result' = Loop!Result
    BY <1>9 DEF Loop!Complete, Loop!Result, Loop!Outcome, Loop!Failed
  <2>3. row' \in Stored /\ memory' \in Stored
    BY <1>9, <2>1 DEF Loop!Complete, LoopInv
  <2>4. Loop!TypeOK'
    BY <1>1, <1>9, <2>3 DEF Loop!Complete, Stored
  <2> QED BY <1>9, <2>1, <2>2, <2>3, <2>4 DEF Loop!Complete, LoopInv
<1>10. CASE Loop!Timeout
  BY <1>10 DEF Loop!Timeout, Loop!Stop, LoopInv
<1>11. CASE Loop!StepRaises
  BY <1>11 DEF Loop!StepRaises, Loop!Stop, LoopInv
<1>12. CASE Loop!Crash
  BY <1>12 DEF Loop!Crash, Loop!Stop, LoopInv
<1>13. CASE Loop!Restart
  <2>1. Loop!Result' = Loop!Result
    BY <1>13 DEF Loop!Restart, Loop!Result, Loop!Outcome, Loop!Failed
  <2>2. memory' \in Stored
    BY <1>13 DEF Loop!Restart, Loop!Absent, Stored
  <2>3. Loop!TypeOK'
    BY <1>1, <1>13, <2>2 DEF Loop!Restart, Stored
  <2> QED BY <1>13, <2>1, <2>2, <2>3 DEF Loop!Restart, LoopInv
<1>14. CASE UNCHANGED Loop!vars
  <2>1. Loop!Result' = Loop!Result
    BY <1>14 DEF Loop!vars, Loop!Result, Loop!Outcome, Loop!Failed
  <2> QED BY <1>14, <2>1 DEF Loop!vars, LoopInv
<1> QED BY <1>2, <1>3, <1>4, <1>5, <1>6, <1>7, <1>8, <1>9, <1>10, <1>11, <1>12, <1>13,
           <1>14 DEF Loop!Next, Loop!LoopStep

LEMMA LoopStarts == Loop!Init => LoopInv
<1>1. Loop!Absent \in Stored /\ Loop!Absent.status = "absent"
  BY DEF Loop!Absent, Stored
<1>2. << >> \in Seq({"success", "failed", "skipped"}) /\ Len(<< >>) = 0
  OBVIOUS
<1>3. ASSUME Loop!Init PROVE Loop!TypeOK
  <2>1. row.status = "absent" /\ memory.status = "absent"
    BY <1>1, <1>3 DEF Loop!Init
  <2>2. steps \in Seq({"success", "failed", "skipped"}) /\ Len(steps) <= 5
    BY <1>2, <1>3 DEF Loop!Init
  <2> QED BY <1>3, <2>1, <2>2 DEF Loop!Init, Loop!TypeOK
<1> QED BY <1>1, <1>3 DEF Loop!Init, LoopInv

LEMMA LoopInSum ==
    (SumInit => Loop!Init) /\ ([SumNext]_allVars => [Loop!Next]_Loop!vars)
  BY DEF SumInit, SumNext, allVars, loopVars, Loop!vars

\* The answer of a loop run can be read again, whatever failed on the way
\* (get_loop_status, _complete_loop_run).
THEOREM AnswersCanBeRead == SumSpec => []AnswerCanBeRead
<1>1. LoopInv => AnswerCanBeRead
  BY ResultStored DEF LoopInv, AnswerCanBeRead, Loop!AnswerCanBeRead, Loop!Visible
<1>2. SumInit => LoopInv
  BY LoopInSum, LoopStarts
<1>3. LoopInv /\ [SumNext]_allVars => LoopInv'
  BY LoopInSum, LoopStays
<1> QED BY <1>1, <1>2, <1>3, PTL DEF SumSpec

-----------------------------------------------------------------------------
(* Learning plans.                                                         *)

\* A row that is mastered has been so before, a planned skill keeps a row, and a
\* request that is about to complete the plan masters its own skill and saw the
\* others mastered.
PlanRequest == [pc : {"idle", "lock", "check", "save", "plan", "commit", "insert"},
                skill : Skills, row : Plan!Row, overlapped : BOOLEAN]
PlanInv ==
    /\ plan \in {"active", "completed"}
    /\ rows \in [Skills -> Seq(Plan!Row)]
    /\ tx \in [Requests -> PlanRequest]
    /\ mastered \subseteq Skills
    /\ updates \in 0 .. MaxUpdates
    /\ \A s \in Skills : \A i \in DOMAIN rows[s] :
        rows[s][i].status = "mastered" => s \in mastered
    /\ \A s \in Planned : rows[s] # << >>
    /\ \A r \in Requests : tx[r].pc \in {"plan", "commit"} =>
        tx[r].row.status = "mastered" /\ Planned \ {tx[r].skill} \subseteq mastered
    /\ Plan!CompletionEarned

\* What update_progress makes of a row is a row.
LEMMA UpdatedRow ==
    ASSUME NEW old \in Plan!Row, NEW status \in Plan!Status \cup {Plan!None},
           NEW pct \in Plan!Pct \cup {-1}
    PROVE  Plan!WithPct(Plan!WithStatus(old, status), pct) \in Plan!Row
<1> USE DEF Plan!Status, Plan!Pct, Plan!Row, Plan!None
<1>1. Plan!WithStatus(old, status) \in Plan!Row
  BY DEF Plan!WithStatus
<1> QED BY <1>1 DEF Plan!WithPct

LEMMA IdleRequest == Plan!Idle \in PlanRequest /\ Plan!Idle.pc = "idle"
<1>1. (CHOOSE s \in Skills : TRUE) \in Skills
  BY ServicesAssumptions DEF Plan!PlanAssumption
<1> QED BY <1>1 DEF Plan!Idle, PlanRequest, Plan!Row, Plan!Status, Plan!Pct

LEMMA PlanStarts == Plan!Init => PlanInv
<1> SUFFICES ASSUME Plan!Init PROVE PlanInv
  OBVIOUS
<1>1. PICK first \in [Planned -> Plan!NewRows] :
        /\ rows = [s \in Skills |-> IF s \in Planned THEN <<first[s]>> ELSE << >>]
        /\ mastered = {s \in Planned : first[s].status = "mastered"}
  BY DEF Plan!Init
<1>2. Planned \subseteq Skills /\ MaxUpdates \in Nat
  BY ServicesAssumptions DEF Plan!PlanAssumption
<1>3. \A s \in Planned : first[s] \in Plan!Row
  BY <1>1 DEF Plan!NewRows, Plan!Row, Plan!Status, Plan!Pct
<1>4. rows \in [Skills -> Seq(Plan!Row)]
  <2> SUFFICES ASSUME NEW s \in Skills
               PROVE  (IF s \in Planned THEN <<first[s]>> ELSE << >>) \in Seq(Plan!Row)
    BY <1>1
  <2> QED BY <1>3
<1>5. \A s \in Skills : \A i \in DOMAIN rows[s] :
        rows[s][i].status = "mastered" => s \in mastered
  BY <1>1
<1>6. \A s \in Planned : rows[s] # << >>
  BY <1>1, <1>2
<1>7. tx \in [Requests -> PlanRequest] /\ \A r \in Requests : tx[r].pc = "idle"
  BY IdleRequest DEF Plan!Init
<1> QED BY <1>1, <1>2, <1>4, <1>5, <1>6, <1>7 DEF Plan!Init, PlanInv, Plan!CompletionEarned

\* A request that commits its row writes a row of its skill.
LEMMA PlanCommits ==
    ASSUME PlanInv, NEW r \in Requests, Plan!Commit(r), tx[r].pc \in {"save", "commit"},
           plan' \in {"active", "completed"}, tx[r].pc = "commit" \/ plan' = plan,
           updates' = updates
    PROVE  PlanInv'
<1>1. mastered \subseteq mastered' /\ mastered' \subseteq Skills
  BY DEF PlanInv, Plan!Commit, PlanRequest
<1>2. tx' = [tx EXCEPT ![r] = Plan!Idle]
  BY DEF Plan!Commit, Plan!End
<1>3. tx' \in [Requests -> PlanRequest]
  BY <1>2, IdleRequest DEF PlanInv
<1>4. tx[r].skill \in Skills /\ tx[r].row \in Plan!Row
  BY DEF PlanInv, PlanRequest
<1>5. rows' = [rows EXCEPT ![tx[r].skill] = <<tx[r].row>>]
  BY DEF Plan!Commit, Plan!SeenBy
<1>6. rows' \in [Skills -> Seq(Plan!Row)]
  BY <1>4, <1>5 DEF PlanInv
<1>7. ASSUME NEW s \in Skills, NEW i \in DOMAIN rows'[s], rows'[s][i].status = "mastered"
      PROVE  s \in mastered'
  <2>1. CASE s = tx[r].skill
    BY <1>4, <1>5, <1>7, <2>1 DEF PlanInv, Plan!Commit
  <2>2. CASE s # tx[r].skill
    BY <1>1, <1>5, <1>7, <2>2 DEF PlanInv
  <2> QED BY <2>1, <2>2
<1>8. \A s \in Planned : rows'[s] # << >>
  BY <1>4, <1>5, ServicesAssumptions DEF PlanInv, Plan!PlanAssumption
<1>9. ASSUME NEW q \in Requests, tx'[q].pc \in {"plan", "commit"}
      PROVE  tx'[q].row.status = "mastered" /\ Planned \ {tx'[q].skill} \subseteq mastered'
  BY <1>1, <1>2, <1>9, IdleRequest DEF PlanInv
<1>10. Plan!CompletionEarned'
  <2>1. CASE plan' = plan
    BY <1>1, <2>1 DEF PlanInv, Plan!CompletionEarned
  <2>2. CASE tx[r].pc = "commit"
    <3>1. tx[r].row.status = "mastered" /\ Planned \ {tx[r].skill} \subseteq mastered
      BY <2>2 DEF PlanInv
    <3> QED BY <3>1 DEF Plan!CompletionEarned, Plan!Commit
  <2> QED BY <2>1, <2>2
<1> QED BY <1>1, <1>3, <1>6, <1>7, <1>8, <1>9, <1>10 DEF PlanInv

\* A request that only goes on, within what the invariant says of it.
LEMMA PlanGoesOn ==
    ASSUME PlanInv, UNCHANGED <<plan, rows, mastered>>, updates' \in 0 .. MaxUpdates,
           tx' \in [Requests -> PlanRequest],
           \A q \in Requests : tx'[q].pc \in {"plan", "commit"} =>
                tx'[q].row.status = "mastered" /\ Planned \ {tx'[q].skill} \subseteq mastered
    PROVE  PlanInv'
  BY DEF PlanInv, Plan!CompletionEarned

LEMMA PlanRequestStarts ==
    ASSUME PlanInv, NEW r \in Requests, NEW to \in {"lock", "insert"}, NEW s \in Skills,
           Plan!Start(r, to, s), UNCHANGED <<plan, rows, mastered>>
    PROVE  PlanInv'
<1>1. updates' \in 0 .. MaxUpdates
  <2>1. updates' = updates + 1 /\ updates < MaxUpdates
    BY DEF Plan!Start
  <2> QED BY <2>1, ServicesAssumptions DEF PlanInv, Plan!PlanAssumption
<1>2. ASSUME NEW q \in Requests
      PROVE  /\ tx'[q] \in PlanRequest
             /\ tx'[q].pc \in {"plan", "commit"} =>
                  tx'[q].row.status = "mastered" /\ Planned \ {tx'[q].skill} \subseteq mastered
  <2>1. CASE q = r
    BY <2>1, IdleRequest DEF Plan!Start, PlanRequest
  <2>2. CASE q # r
    BY <2>2 DEF Plan!Start, PlanRequest, PlanInv
  <2> QED BY <2>1, <2>2
<1>3. tx' \in [Requests -> PlanRequest]
  BY <1>2 DEF Plan!Start
<1> QED BY <1>1, <1>2, <1>3, PlanGoesOn

LEMMA PlanStays == PlanInv /\ [Plan!Next]_Plan!vars => PlanInv'
<1> SUFFICES ASSUME PlanInv, [Plan!Next]_Plan!vars PROVE PlanInv'
  OBVIOUS
<1>1. ASSUME NEW r \in Requests, NEW s \in Skills, Plan!UpdateStart(r, s)
      PROVE  PlanInv'
  BY <1>1, PlanRequestStarts DEF Plan!UpdateStart
<1>2. ASSUME NEW r \in Requests, NEW s \in Skills, Plan!AddRead(r, s)
      PROVE  PlanInv'
  BY <1>2, PlanRequestStarts DEF Plan!AddRead
<1>3. ASSUME NEW r \in Requests, Plan!End(r), UNCHANGED <<plan, rows, mastered, updates>>
      PROVE  PlanInv'
  <2>1. tx' \in [Requests -> PlanRequest]
    BY <1>3, IdleRequest DEF PlanInv, Plan!End
  <2>2. \A q \in Requests : tx'[q].pc \in {"plan", "commit"} => tx'[q] = tx[q]
    BY <1>3, IdleRequest DEF PlanInv, Plan!End
  <2>3. updates' \in 0 .. MaxUpdates
    BY <1>3 DEF PlanInv
  <2>4. \A q \in Requests : tx'[q].pc \in {"plan", "commit"} =>
            tx'[q].row.status = "mastered" /\ Planned \ {tx'[q].skill} \subseteq mastered
    BY <2>2 DEF PlanInv
  <2> QED BY <1>3, <2>1, <2>3, <2>4, PlanGoesOn
<1>4. ASSUME NEW r \in Requests, Plan!UpdateRefused(r)
      PROVE  PlanInv'
  BY <1>3, <1>4 DEF Plan!UpdateRefused
<1>5. ASSUME NEW r \in Requests, Plan!UpdateLock(r)
      PROVE  PlanInv'
  <2>1. PICK status \in Plan!Status \cup {Plan!None}, pct \in Plan!Pct \cup {-1} :
            tx' = [tx EXCEPT ![r].pc = "check",
                             ![r].row = Plan!WithPct(
                                 Plan!WithStatus(rows[tx[r].skill][1], status), pct)]
    BY <1>5 DEF Plan!UpdateLock
  <2>2. rows[tx[r].skill] \in Seq(Plan!Row) /\ Len(rows[tx[r].skill]) = 1
    BY <1>5 DEF Plan!UpdateLock, PlanInv, PlanRequest
  <2>3. rows[tx[r].skill][1] \in Plan!Row
    BY <2>2
  <2> DEFINE new == Plan!WithPct(Plan!WithStatus(rows[tx[r].skill][1], status), pct)
  <2>4. new \in Plan!Row
    BY <2>3, UpdatedRow
  <2>5. tx' = [tx EXCEPT ![r] = [tx[r] EXCEPT !.pc = "check", !.row = new]]
    BY <2>1
  <2> HIDE DEF new
  <2>6. tx' \in [Requests -> PlanRequest]
    BY <2>4, <2>5 DEF PlanInv, PlanRequest
  <2>7. tx'[r].pc = "check" /\ \A q \in Requests : q # r => tx'[q] = tx[q]
    BY <2>5 DEF PlanInv, PlanRequest
  <2>8. UNCHANGED <<plan, rows, mastered, updates>>
    BY <1>5 DEF Plan!UpdateLock
  <2>9. \A q \in Requests : tx'[q].pc \in {"plan", "commit"} =>
            tx'[q].row.status = "mastered" /\ Planned \ {tx'[q].skill} \subseteq mastered
    BY <2>7 DEF PlanInv
  <2>10. updates' \in 0 .. MaxUpdates
    BY <2>8 DEF PlanInv
  <2> QED BY <2>6, <2>8, <2>9, <2>10, PlanGoesOn
<1>6. ASSUME NEW r \in Requests, Plan!CheckOthers(r)
      PROVE  PlanInv'
  <2>1. tx' = [tx EXCEPT ![r] = [tx[r] EXCEPT !.pc = "plan"]]
    BY <1>6 DEF Plan!CheckOthers, Plan!Step
  <2>2. tx[r] \in PlanRequest
    BY DEF PlanInv
  <2>3. tx' \in [Requests -> PlanRequest]
    BY <2>1, <2>2 DEF PlanInv, PlanRequest
  <2>4. \A s \in Skills : \A i \in DOMAIN Plan!SeenBy(r)[s] :
            Plan!SeenBy(r)[s][i].status = "mastered"
    BY <1>6 DEF Plan!CheckOthers, Plan!AllMastered
  <2>5. tx[r].row.status = "mastered"
    <3>1. Plan!SeenBy(r)[tx[r].skill] = <<tx[r].row>> /\ tx[r].skill \in Skills
      BY <2>2 DEF PlanInv, PlanRequest, Plan!SeenBy
    <3> QED BY <2>4, <3>1
  <2>6. ASSUME NEW s \in Planned, s # tx[r].skill
        PROVE  s \in mastered
    <3>1. s \in Skills /\ rows[s] \in Seq(Plan!Row) /\ rows[s] # << >>
      BY ServicesAssumptions DEF PlanInv, Plan!PlanAssumption
    <3>2. Plan!SeenBy(r)[s] = rows[s]
      BY <2>6, <3>1 DEF PlanInv, Plan!SeenBy
    <3>3. 1 \in DOMAIN rows[s]
      BY <3>1
    <3> QED BY <2>4, <3>1, <3>2, <3>3 DEF PlanInv
  <2>7. tx'[r].row = tx[r].row /\ tx'[r].skill = tx[r].skill
        /\ \A q \in Requests : q # r => tx'[q] = tx[q]
    BY <2>1, <2>2 DEF PlanInv, PlanRequest
  <2>8. UNCHANGED <<plan, rows, mastered, updates>> /\ updates' \in 0 .. MaxUpdates
    BY <1>6 DEF Plan!CheckOthers, PlanInv
  <2>9. \A q \in Requests : tx'[q].pc \in {"plan", "commit"} =>
            tx'[q].row.status = "mastered" /\ Planned \ {tx'[q].skill} \subseteq mastered
    BY <2>5, <2>6, <2>7 DEF PlanInv
  <2> QED BY <2>3, <2>8, <2>9, PlanGoesOn
<1>7. ASSUME NEW r \in Requests, Plan!CommitUnfinished(r)
      PROVE  PlanInv'
  <2>1. plan' = plan /\ updates' = updates /\ Plan!Commit(r) /\ tx[r].pc = "save"
    BY <1>7 DEF Plan!CommitUnfinished
  <2> QED BY <2>1, PlanCommits DEF PlanInv
<1>8. ASSUME NEW r \in Requests, Plan!LockPlan(r)
      PROVE  PlanInv'
  <2>1. tx[r].pc = "plan" /\ tx' = [tx EXCEPT ![r] = [tx[r] EXCEPT !.pc = "commit"]]
    BY <1>8 DEF Plan!LockPlan, Plan!Step
  <2>2. tx[r] \in PlanRequest
    BY DEF PlanInv
  <2>3. tx' \in [Requests -> PlanRequest]
    BY <2>1, <2>2 DEF PlanInv, PlanRequest
  <2>4. tx'[r].row = tx[r].row /\ tx'[r].skill = tx[r].skill
        /\ \A q \in Requests : q # r => tx'[q] = tx[q]
    BY <2>1, <2>2 DEF PlanInv, PlanRequest
  <2>5. UNCHANGED <<plan, rows, mastered, updates>> /\ updates' \in 0 .. MaxUpdates
    BY <1>8 DEF Plan!LockPlan, PlanInv
  <2>6. \A q \in Requests : tx'[q].pc \in {"plan", "commit"} =>
            tx'[q].row.status = "mastered" /\ Planned \ {tx'[q].skill} \subseteq mastered
    BY <2>1, <2>4 DEF PlanInv
  <2> QED BY <2>3, <2>5, <2>6, PlanGoesOn
<1>9. ASSUME NEW r \in Requests, Plan!CommitFinished(r)
      PROVE  PlanInv'
  <2>1. plan' = "completed" /\ updates' = updates /\ Plan!Commit(r) /\ tx[r].pc = "commit"
    BY <1>9 DEF Plan!CommitFinished
  <2> QED BY <2>1, PlanCommits DEF PlanInv
<1>10. ASSUME NEW r \in Requests, Plan!AddCommit(r)
       PROVE  PlanInv'
  <2> DEFINE new == [status |-> "not_started", pct |-> 0]
             s == tx[r].skill
  <2>1. s \in Skills /\ rows[s] \in Seq(Plan!Row)
    BY DEF PlanInv, PlanRequest
  <2>2. new \in Plan!Row
    BY DEF Plan!Row, Plan!Status, Plan!Pct
  <2>3. /\ rows' = [rows EXCEPT ![s] = Append(rows[s], new)]
        /\ tx' = [tx EXCEPT ![r] = Plan!Idle]
        /\ UNCHANGED <<plan, mastered, updates>>
    BY <1>10 DEF Plan!AddCommit, Plan!End
  <2>4. Append(rows[s], new) \in Seq(Plan!Row) /\ Append(rows[s], new) # << >>
    BY <2>1, <2>2
  <2>5. \A i \in DOMAIN Append(rows[s], new) : Append(rows[s], new)[i].status = "mastered" =>
            i \in DOMAIN rows[s] /\ rows[s][i].status = "mastered"
    BY <2>1, <2>2
  <2> HIDE DEF new, s
  <2>6. rows' \in [Skills -> Seq(Plan!Row)]
    BY <2>1, <2>3, <2>4 DEF PlanInv
  <2>7. \A k \in Skills : \A i \in DOMAIN rows'[k] :
            rows'[k][i].status = "mastered" => k \in mastered'
    BY <2>1, <2>3, <2>5 DEF PlanInv
  <2>8. \A k \in Planned : rows'[k] # << >>
    BY <2>1, <2>3, <2>4, ServicesAssumptions DEF PlanInv, Plan!PlanAssumption
  <2>9. tx' \in [Requests -> PlanRequest] /\ \A q \in Requests :
            tx'[q].pc \in {"plan", "commit"} => tx'[q] = tx[q]
    BY <2>3, IdleRequest DEF PlanInv
  <2> QED BY <2>3, <2>6, <2>7, <2>8, <2>9 DEF PlanInv, Plan!CompletionEarned
<1>11. ASSUME NEW r \in Requests, Plan!UpdateFails(r)
       PROVE  PlanInv'
  BY <1>3, <1>11 DEF Plan!UpdateFails
<1>12. ASSUME NEW r \in Requests, Plan!CheckUnfinished(r)
       PROVE  PlanInv'
  <2>1. tx' = [tx EXCEPT ![r] = [tx[r] EXCEPT !.pc = "save"]]
    BY <1>12 DEF Plan!CheckUnfinished, Plan!Step
  <2>2. tx[r] \in PlanRequest
    BY DEF PlanInv
  <2>3. tx' \in [Requests -> PlanRequest]
    BY <2>1, <2>2 DEF PlanInv, PlanRequest
  <2>4. \A q \in Requests : tx'[q].pc \in {"plan", "commit"} => tx'[q] = tx[q]
    BY <2>1, <2>2 DEF PlanInv, PlanRequest
  <2>5. UNCHANGED <<plan, rows, mastered, updates>> /\ updates' \in 0 .. MaxUpdates
    BY <1>12 DEF Plan!CheckUnfinished, PlanInv
  <2>6. \A q \in Requests : tx'[q].pc \in {"plan", "commit"} =>
            tx'[q].row.status = "mastered" /\ Planned \ {tx'[q].skill} \subseteq mastered
    BY <2>4 DEF PlanInv
  <2> QED BY <2>3, <2>5, <2>6, PlanGoesOn
<1>13. CASE UNCHANGED Plan!vars
  BY <1>13 DEF Plan!vars, PlanInv, Plan!CompletionEarned
<1> QED BY <1>1, <1>2, <1>4, <1>5, <1>6, <1>7, <1>8, <1>9, <1>10, <1>11, <1>12, <1>13
        DEF Plan!Next, Plan!UpdateStep

LEMMA PlanInSum == (SumInit => Plan!Init) /\ ([SumNext]_allVars => [Plan!Next]_Plan!vars)
  BY DEF SumInit, SumNext, allVars, planVars, Plan!vars

\* A plan is completed only if each of its first skills has been mastered, for any
\* number of requests that change it at the same time (update_progress).
THEOREM CompletionIsEarned == SumSpec => []CompletionEarned
<1>1. PlanInv => CompletionEarned
  BY DEF PlanInv, CompletionEarned
<1>2. SumInit => PlanInv
  BY PlanInSum, PlanStarts
<1>3. PlanInv /\ [SumNext]_allVars => PlanInv'
  BY PlanInSum, PlanStays
<1> QED BY <1>1, <1>2, <1>3, PTL DEF SumSpec

\* A request that ran alone had no company, and when it decided that the plan is
\* not finished it saw every row there is.
Alone ==
    \A r \in Requests : tx[r].pc # "idle" /\ ~tx[r].overlapped =>
        /\ \A q \in Requests : q # r => tx[q].pc = "idle"
        /\ tx[r].pc = "save" => ~Plan!AllMastered(Plan!SeenBy(r))

\* A request that stays alone while it runs, the rows unchanged.
LEMMA AloneGoesOn ==
    ASSUME PlanInv, Alone, rows' = rows, NEW r \in Requests,
           tx' \in [Requests -> PlanRequest], tx[r].pc # "idle",
           tx'[r].overlapped = tx[r].overlapped \/ tx'[r].pc = "idle",
           tx'[r].pc = "save" => ~Plan!AllMastered(Plan!SeenBy(r)'),
           \A q \in Requests : q # r => tx'[q] = tx[q]
    PROVE  Alone'
<1> SUFFICES ASSUME NEW q \in Requests, tx'[q].pc # "idle", ~tx'[q].overlapped
             PROVE  /\ \A p \in Requests : p # q => tx'[p].pc = "idle"
                    /\ tx'[q].pc = "save" => ~Plan!AllMastered(Plan!SeenBy(q))'
  BY DEF Alone
<1>1. CASE q = r
  <2>1. tx[r].pc # "idle" /\ ~tx[r].overlapped
    BY <1>1
  <2>2. \A p \in Requests : p # r => tx[p].pc = "idle"
    BY <2>1 DEF Alone
  <2>3. Plan!AllMastered(Plan!SeenBy(q))' <=> Plan!AllMastered(Plan!SeenBy(r)')
    BY <1>1 DEF Plan!AllMastered
  <2> QED BY <1>1, <2>2, <2>3
<1>2. CASE q # r
  BY <1>2 DEF Alone
<1> QED BY <1>1, <1>2

LEMMA AloneWhenAllEnd ==
    ASSUME PlanInv, Alone, NEW r \in Requests, tx[r].pc # "idle",
           tx' = [tx EXCEPT ![r] = Plan!Idle]
    PROVE  Alone'
<1> SUFFICES ASSUME NEW q \in Requests, tx'[q].pc # "idle", ~tx'[q].overlapped
             PROVE  FALSE
  BY DEF Alone
<1>1. q # r /\ tx'[q] = tx[q]
  BY IdleRequest DEF PlanInv
<1> QED BY <1>1 DEF Alone

LEMMA AloneStays == PlanInv /\ Alone /\ PlanInv' /\ [Plan!Next]_Plan!vars => Alone'
<1> SUFFICES ASSUME PlanInv, Alone, PlanInv', [Plan!Next]_Plan!vars PROVE Alone'
  OBVIOUS
<1>0. tx' \in [Requests -> PlanRequest] /\ tx \in [Requests -> PlanRequest]
  BY DEF PlanInv
<1>1. ASSUME NEW r \in Requests, NEW to \in {"lock", "insert"}, NEW s \in Skills,
             Plan!Start(r, to, s)
      PROVE  Alone'
  <2> SUFFICES ASSUME NEW q \in Requests, tx'[q].pc # "idle", ~tx'[q].overlapped
               PROVE  /\ \A p \in Requests : p # q => tx'[p].pc = "idle"
                      /\ tx'[q].pc = "save" => ~Plan!AllMastered(Plan!SeenBy(q))'
    BY DEF Alone
  <2>1. q = r
    <3>1. ASSUME q # r PROVE FALSE
      <4>1. tx'[q] = [tx[q] EXCEPT !.overlapped = tx[q].pc # "idle"]
        BY <1>1, <3>1 DEF Plan!Start
      <4>2. tx'[q].pc = tx[q].pc /\ tx'[q].overlapped = (tx[q].pc # "idle")
        BY <1>0, <4>1 DEF PlanRequest
      <4> QED BY <4>2
    <3> QED BY <3>1
  <2>2. tx'[r] = [Plan!Idle EXCEPT !.pc = to, !.skill = s, !.overlapped = Plan!Busy # {}]
    BY <1>1 DEF Plan!Start
  <2>3. tx'[r].pc = to /\ tx'[r].overlapped = (Plan!Busy # {})
    BY <2>2 DEF Plan!Idle
  <2>4. Plan!Busy = {}
    BY <2>1, <2>3
  <2>5. ASSUME NEW p \in Requests, p # r PROVE tx'[p].pc = "idle"
    <3>1. tx[p].pc = "idle"
      BY <2>4 DEF Plan!Busy
    <3>2. tx'[p] = [tx[p] EXCEPT !.overlapped = tx[p].pc # "idle"]
      BY <1>1, <2>5 DEF Plan!Start
    <3> QED BY <1>0, <3>1, <3>2 DEF PlanRequest
  <2> QED BY <2>1, <2>3, <2>5
<1>2. ASSUME NEW r \in Requests, Plan!End(r), tx[r].pc # "idle"
      PROVE  Alone'
  BY <1>2, AloneWhenAllEnd DEF Plan!End
<1>3. ASSUME NEW r \in Requests, NEW to \in {"plan", "commit"}, Plan!Step(r, to), rows' = rows,
             tx[r].pc # "idle"
      PROVE  Alone'
  <2>1. tx'[r].pc = to /\ tx'[r].overlapped = tx[r].overlapped
        /\ \A q \in Requests : q # r => tx'[q] = tx[q]
    BY <1>0, <1>3 DEF Plan!Step, PlanRequest
  <2> QED BY <1>0, <1>3, <2>1, AloneGoesOn
<1>4. ASSUME NEW r \in Requests, Plan!CheckUnfinished(r) PROVE Alone'
  <2>1. tx' = [tx EXCEPT ![r] = [tx[r] EXCEPT !.pc = "save"]] /\ rows' = rows
        /\ tx[r].pc = "check"
    BY <1>4 DEF Plan!CheckUnfinished, Plan!Step
  <2>2. tx[r] \in PlanRequest
    BY DEF PlanInv
  <2>3. tx'[r].overlapped = tx[r].overlapped
        /\ \A q \in Requests : q # r => tx'[q] = tx[q]
    BY <1>0, <2>1, <2>2 DEF PlanRequest
  <2>4. tx'[r].row = tx[r].row /\ tx'[r].skill = tx[r].skill
    BY <1>0, <2>1, <2>2 DEF PlanRequest
  <2>5. Plan!SeenBy(r)' = Plan!SeenBy(r)
    BY <2>1, <2>4 DEF Plan!SeenBy
  <2>6. ~Plan!AllMastered(Plan!SeenBy(r)')
    BY <1>4, <2>5 DEF Plan!CheckUnfinished
  <2> QED BY <1>0, <2>1, <2>3, <2>6, AloneGoesOn
<1>5. ASSUME NEW r \in Requests, Plan!UpdateLock(r) PROVE Alone'
  <2>1. PICK status \in Plan!Status \cup {Plan!None}, pct \in Plan!Pct \cup {-1} :
            tx' = [tx EXCEPT ![r].pc = "check",
                             ![r].row = Plan!WithPct(
                                 Plan!WithStatus(rows[tx[r].skill][1], status), pct)]
    BY <1>5 DEF Plan!UpdateLock
  <2> DEFINE new == Plan!WithPct(Plan!WithStatus(rows[tx[r].skill][1], status), pct)
  <2>2. tx' = [tx EXCEPT ![r] = [tx[r] EXCEPT !.pc = "check", !.row = new]]
    BY <2>1
  <2> HIDE DEF new
  <2>3. tx'[r].pc = "check" /\ tx'[r].overlapped = tx[r].overlapped
        /\ \A q \in Requests : q # r => tx'[q] = tx[q]
    BY <1>0, <2>2 DEF PlanRequest
  <2>4. tx[r].pc # "idle" /\ rows' = rows
    BY <1>5 DEF Plan!UpdateLock
  <2> QED BY <1>0, <2>3, <2>4, AloneGoesOn
<1>6. CASE UNCHANGED Plan!vars
  BY <1>6 DEF Plan!vars, Alone, Plan!SeenBy, Plan!AllMastered
<1>7. ASSUME NEW r \in Requests, NEW s \in Skills, Plan!UpdateStart(r, s) \/ Plan!AddRead(r, s)
      PROVE  Alone'
  BY <1>1, <1>7 DEF Plan!UpdateStart, Plan!AddRead
<1>8. ASSUME NEW r \in Requests, Plan!UpdateRefused(r) \/ Plan!CommitUnfinished(r)
                \/ Plan!CommitFinished(r) \/ Plan!AddCommit(r) \/ Plan!UpdateFails(r)
      PROVE  Alone'
  BY <1>2, <1>8 DEF Plan!UpdateRefused, Plan!CommitUnfinished, Plan!CommitFinished,
                    Plan!Commit, Plan!AddCommit, Plan!UpdateFails
<1>9. ASSUME NEW r \in Requests, Plan!CheckOthers(r) \/ Plan!LockPlan(r)
      PROVE  Alone'
  BY <1>3, <1>9 DEF Plan!CheckOthers, Plan!LockPlan
<1> QED BY <1>4, <1>5, <1>6, <1>7, <1>8, <1>9 DEF Plan!Next, Plan!UpdateStep

\* The step that ends a request which ran alone and leaves every row mastered.
LEMMA LastStep ==
    ASSUME PlanInv, Alone, [Plan!Next]_Plan!vars, NEW r \in Requests,
           tx[r].pc \in {"save", "commit"}, tx'[r].pc = "idle", ~tx[r].overlapped,
           rows' = Plan!SeenBy(r), rows' # rows,
           \A s \in Skills : \A i \in DOMAIN rows'[s] : rows'[s][i].status = "mastered"
    PROVE  plan' = "completed"
<1>1. tx \in [Requests -> PlanRequest]
  BY DEF PlanInv
<1>2. ASSUME NEW q \in Requests, NEW s \in Skills,
             Plan!UpdateStart(q, s) \/ Plan!AddRead(q, s)
      PROVE  FALSE
  BY <1>2 DEF Plan!UpdateStart, Plan!AddRead
<1>3. ASSUME NEW q \in Requests, Plan!UpdateStep(q) \/ Plan!UpdateFails(q) PROVE q = r
  <2>1. tx[q].pc # "idle"
    BY <1>3 DEF Plan!UpdateStep, Plan!UpdateFails, Plan!UpdateRefused, Plan!UpdateLock,
                Plan!CheckOthers, Plan!CheckUnfinished, Plan!CommitUnfinished,
                Plan!LockPlan, Plan!CommitFinished, Plan!AddCommit
  <2> QED BY <2>1 DEF Alone
<1>4. Plan!AllMastered(Plan!SeenBy(r))
  BY DEF Plan!AllMastered
<1>5. tx[r].pc # "save"
  BY <1>4 DEF Alone
<1>6. Plan!UpdateStep(r) \/ Plan!UpdateFails(r)
  <2>1. ~UNCHANGED Plan!vars
    BY DEF Plan!vars
  <2> QED BY <1>2, <1>3, <2>1 DEF Plan!Next
<1>7. ~Plan!UpdateFails(r)
  BY DEF Plan!UpdateFails
<1> QED BY <1>5, <1>6, <1>7
        DEF Plan!UpdateStep, Plan!UpdateRefused, Plan!UpdateLock, Plan!CheckOthers,
            Plan!CheckUnfinished, Plan!CommitUnfinished, Plan!LockPlan,
            Plan!CommitFinished, Plan!AddCommit

\* The update that masters the last skill completes the plan, unless another
\* request ran at the same time (update_progress reads the other rows without
\* locking them).
THEOREM LastMasteryIsSeen == SumSpec => Plan!LastMasteryCompletes
<1>1. SumInit => PlanInv /\ Alone
  <2>1. Plan!Init => Alone
    BY IdleRequest DEF Plan!Init, Alone
  <2> QED BY <2>1, PlanInSum, PlanStarts
<1>2. PlanInv /\ Alone /\ [SumNext]_allVars => (PlanInv /\ Alone)'
  BY PlanInSum, PlanStays, AloneStays
<1>3. PlanInv /\ Alone /\ [SumNext]_allVars =>
        [\A r \in Requests :
            (/\ tx[r].pc \in {"save", "commit"} /\ tx'[r].pc = "idle"
             /\ rows' = Plan!SeenBy(r) /\ rows' # rows
             /\ ~tx[r].overlapped
             /\ \A s \in Skills : \A i \in DOMAIN rows'[s] :
                    rows'[s][i].status = "mastered")
                => plan' = "completed"]_Plan!vars
  BY PlanInSum, LastStep
<1> QED BY <1>1, <1>2, <1>3, PTL DEF SumSpec, Plan!LastMasteryCompletes

-----------------------------------------------------------------------------
(* The live feed.                                                          *)

\* While it polls, the page does nothing about the stream until a timer fires; a
\* page that was left has no timer that could.
FeedTyped ==
    /\ source \in {"none", "connecting", "open"}
    /\ mode \in {"sse", "polling", "disconnected"}
    /\ retryCount \in 0 .. MaxRetries /\ failed \in 0 .. PollThreshold /\ polls \in 0 .. MaxPolls
FeedFlags ==
    /\ retryTimer \in BOOLEAN /\ pollTimer \in BOOLEAN /\ sseTimer \in BOOLEAN
    /\ refreshing \in BOOLEAN /\ renewable \in BOOLEAN /\ disposed \in BOOLEAN
FeedInv ==
    /\ FeedTyped
    /\ Feed!OneAttempt
    /\ mode = "polling" => source = "none" /\ ~retryTimer /\ ~refreshing
    /\ mode = "disconnected" <=> disposed

LEMMA OneMoreFailure ==
    ASSUME NEW n \in 0 .. PollThreshold
    PROVE  Feed!OneMore(n) \in 0 .. PollThreshold
<1>1. PollThreshold \in Nat
  BY ServicesAssumptions DEF Feed!FeedAssumption
<1>2. n + 1 \in Int /\ n + 1 >= 0
  OBVIOUS
<1> DEFINE S == {n + 1, PollThreshold}
<1>3. \E x \in S : \A y \in S : x <= y
  BY <1>1, <1>2
<1>4. Feed!OneMore(n) \in S /\ Feed!OneMore(n) <= PollThreshold
  BY <1>3 DEF Feed!OneMore, Feed!Min
<1> QED BY <1>1, <1>2, <1>4

LEMMA FeedStays == FeedInv /\ [Feed!Next]_Feed!vars => FeedInv'
<1> SUFFICES ASSUME FeedInv, [Feed!Next]_Feed!vars PROVE FeedInv'
  OBVIOUS
<1> USE DEF FeedInv, FeedTyped, Feed!OneAttempt
<1>0. PollThreshold \in Nat /\ MaxRetries \in Nat /\ MaxPolls \in Nat
  BY ServicesAssumptions DEF Feed!FeedAssumption
<1>1. CASE Feed!Opens
  BY <1>0, <1>1 DEF Feed!Opens
<1>2. CASE Feed!Message
  BY <1>0, <1>2 DEF Feed!Message
<1>3. CASE Feed!StreamFails
  BY <1>0, <1>3, OneMoreFailure
     DEF Feed!StreamFails, Feed!HandleSseError, Feed!StartPolling, Feed!PollOnce
<1>4. CASE Feed!Refreshed
  <2>1. CASE Feed!ConnectAfresh /\ UNCHANGED <<retryTimer, pollTimer, sseTimer, polls>>
    BY <1>0, <1>4, <2>1 DEF Feed!Refreshed, Feed!ConnectAfresh, Feed!ConnectSse
  <2>2. CASE UNCHANGED <<source, failed>> /\ Feed!HandleSseError
    BY <1>0, <1>4, <2>2
       DEF Feed!Refreshed, Feed!HandleSseError, Feed!StartPolling, Feed!PollOnce
  <2> QED BY <1>4, <2>1, <2>2 DEF Feed!Refreshed
<1>5. CASE Feed!RetryFires
  BY <1>0, <1>5 DEF Feed!RetryFires, Feed!ConnectSse
<1>6. CASE Feed!SseTimerFires
  BY <1>0, <1>6 DEF Feed!SseTimerFires, Feed!ConnectAfresh, Feed!ConnectSse
<1>7. CASE Feed!PollTimerFires
  BY <1>0, <1>7 DEF Feed!PollTimerFires, Feed!PollOnce
<1>8. CASE Feed!PollReturns
  BY <1>0, <1>8, OneMoreFailure DEF Feed!PollReturns
<1>9. CASE Feed!SessionEnds
  BY <1>0, <1>9 DEF Feed!SessionEnds
<1>10. CASE Feed!Disconnect
  BY <1>0, <1>10 DEF Feed!Disconnect
<1>11. CASE UNCHANGED Feed!vars
  BY <1>11 DEF Feed!vars
<1> QED BY <1>1, <1>2, <1>3, <1>4, <1>5, <1>6, <1>7, <1>8, <1>9, <1>10, <1>11 DEF Feed!Next

LEMMA FeedStarts == Feed!Init => FeedInv /\ FeedFlags
<1>1. Feed!Init => FeedInv
  BY ServicesAssumptions
     DEF Feed!Init, FeedInv, FeedTyped, Feed!OneAttempt, Feed!FeedAssumption
<1>2. Feed!Init => FeedFlags
  BY Zenon DEF Feed!Init, FeedFlags
<1> QED BY <1>1, <1>2

LEMMA FeedFlagsStay == FeedFlags /\ [Feed!Next]_Feed!vars => FeedFlags'
<1> SUFFICES ASSUME FeedFlags, [Feed!Next]_Feed!vars PROVE FeedFlags'
  OBVIOUS
<1> USE DEF FeedFlags
<1>1. CASE Feed!Opens
  BY <1>1, Zenon DEF Feed!Opens
<1>2. CASE Feed!Message
  BY <1>2, Zenon DEF Feed!Message
<1>3. CASE Feed!StreamFails
  BY <1>3, Zenon DEF Feed!StreamFails, Feed!HandleSseError, Feed!StartPolling
<1>4. CASE Feed!Refreshed
  BY <1>4, Zenon DEF Feed!Refreshed, Feed!HandleSseError, Feed!StartPolling
<1>5. CASE Feed!RetryFires
  BY <1>5, Zenon DEF Feed!RetryFires
<1>6. CASE Feed!SseTimerFires
  BY <1>6, Zenon DEF Feed!SseTimerFires
<1>7. CASE Feed!PollTimerFires
  BY <1>7, Zenon DEF Feed!PollTimerFires
<1>8. CASE Feed!PollReturns
  BY <1>8, Zenon DEF Feed!PollReturns
<1>9. CASE Feed!SessionEnds
  BY <1>9, Zenon DEF Feed!SessionEnds
<1>10. CASE Feed!Disconnect
  BY <1>10, Zenon DEF Feed!Disconnect
<1>11. CASE UNCHANGED Feed!vars
  BY <1>11, Zenon DEF Feed!vars
<1> QED BY <1>1, <1>2, <1>3, <1>4, <1>5, <1>6, <1>7, <1>8, <1>9, <1>10, <1>11 DEF Feed!Next

LEMMA FeedInSum == (SumInit => Feed!Init) /\ ([SumNext]_allVars => [Feed!Next]_Feed!vars)
  BY DEF SumInit, SumNext, allVars, feedVars, Feed!vars

-----------------------------------------------------------------------------
(* SSE admission.                                                          *)

\* The holders behind one address.
Behind(S, i) == {x \in S : IpOf[x] = i}

SlotsTold ==
    /\ \A i \in Ips : perIp[i] = lost[i] + Cardinality(Behind(Sse!SlotHolders, i))
    /\ global = lostInAll + Cardinality(Sse!SlotHolders)
StreamsTold == active = lostStreams + Cardinality(Sse!StreamHolders)

\* Only a connection that closes owes anything, and it owes something.
SseInv ==
    /\ Sse!TypeOK
    /\ \A c \in Clients : (conn[c] = "closing") <=> (owes[c] # {})
    /\ SlotsTold /\ StreamsTold

\* SseSlots counts as this module does.
LEMMA SseCounts == Sse!SlotsAccounted <=> SlotsTold /\ StreamsTold
<1>1. \A S : Sse!Cardinality(S) = Cardinality(S)
  BY DEF Sse!Cardinality, Cardinality
<1> QED BY <1>1 DEF Sse!SlotsAccounted, SlotsTold, StreamsTold, Behind

LEMMA SseConstants ==
    IsFiniteSet(Clients) /\ IpOf \in [Clients -> Ips]
    /\ MaxPerIp \in Nat /\ MaxGlobal \in Nat /\ MaxStreams \in Nat
<1>1. \A S : Sse!IsFiniteSet(S) <=> IsFiniteSet(S)
  BY DEF Sse!IsFiniteSet, IsFiniteSet
<1> QED BY <1>1, ServicesAssumptions DEF Sse!SlotsAssumption

\* The holders are finitely many, in all and behind an address.
LEMMA HoldersFinite ==
    ASSUME NEW S \in SUBSET Clients
    PROVE  /\ IsFiniteSet(S) /\ Cardinality(S) \in Nat
           /\ \A i : IsFiniteSet(Behind(S, i)) /\ Cardinality(Behind(S, i)) \in Nat
<1>1. IsFiniteSet(S)
  BY SseConstants, FS_Subset
<1>2. \A i : IsFiniteSet(Behind(S, i))
  BY <1>1, FS_Subset DEF Behind
<1> QED BY <1>1, <1>2, FS_CardinalityType

\* A holder more counts one more in all and behind its own address.
LEMMA HoldersGain ==
    ASSUME NEW S \in SUBSET Clients, NEW T \in SUBSET Clients, NEW c \in Clients,
           c \notin S, \A x \in Clients : x \in T <=> x \in S \/ x = c
    PROVE  /\ Cardinality(T) = Cardinality(S) + 1
           /\ \A i : Cardinality(Behind(T, i)) =
                        Cardinality(Behind(S, i)) + (IF IpOf[c] = i THEN 1 ELSE 0)
<1>1. Cardinality(T) = Cardinality(S) + 1
  <2>1. T = S \cup {c}
    OBVIOUS
  <2> QED BY <2>1, HoldersFinite, FS_AddElement
<1>2. ASSUME NEW i
      PROVE  Cardinality(Behind(T, i)) =
                 Cardinality(Behind(S, i)) + (IF IpOf[c] = i THEN 1 ELSE 0)
  <2>1. IsFiniteSet(Behind(S, i)) /\ c \notin Behind(S, i)
        /\ Cardinality(Behind(S, i)) \in Nat
    BY HoldersFinite DEF Behind
  <2>2. CASE IpOf[c] = i
    <3>1. Behind(T, i) = Behind(S, i) \cup {c}
      BY <2>2 DEF Behind
    <3> QED BY <2>1, <2>2, <3>1, FS_AddElement
  <2>3. CASE IpOf[c] # i
    <3>1. Behind(T, i) = Behind(S, i)
      BY <2>3 DEF Behind
    <3> QED BY <2>1, <2>3, <3>1
  <2> QED BY <2>2, <2>3
<1> QED BY <1>1, <1>2

LEMMA HoldersTyped ==
    /\ Sse!SlotHolders \in SUBSET Clients /\ Sse!StreamHolders \in SUBSET Clients
    /\ Sse!SlotHolders' \in SUBSET Clients /\ Sse!StreamHolders' \in SUBSET Clients
  BY DEF Sse!SlotHolders, Sse!StreamHolders

\* The counters of slots are right after a step in which a client takes a slot,
\* leaks it, releases it or keeps it.
LEMMA SlotTaken ==
    ASSUME SseInv, NEW c \in Clients, c \notin Sse!SlotHolders,
           Sse!SlotHolders' = Sse!SlotHolders \cup {c},
           perIp' = [perIp EXCEPT ![IpOf[c]] = perIp[IpOf[c]] + 1], global' = global + 1,
           UNCHANGED <<lost, lostInAll>>
    PROVE  SlotsTold'
<1>1. /\ Cardinality(Sse!SlotHolders') = Cardinality(Sse!SlotHolders) + 1
      /\ \A i : Cardinality(Behind(Sse!SlotHolders', i)) =
                 Cardinality(Behind(Sse!SlotHolders, i)) + (IF IpOf[c] = i THEN 1 ELSE 0)
  <2>1. \A x \in Clients : x \in Sse!SlotHolders' <=> x \in Sse!SlotHolders \/ x = c
    OBVIOUS
  <2>2. /\ Sse!SlotHolders \in SUBSET Clients /\ Sse!SlotHolders' \in SUBSET Clients
        /\ c \in Clients /\ c \notin Sse!SlotHolders
    BY HoldersTyped
  <2> QED BY ONLY <2>1, <2>2, HoldersGain
<1>2. \A i \in Ips : perIp'[i] = perIp[i] + (IF IpOf[c] = i THEN 1 ELSE 0)
  BY DEF SseInv, Sse!TypeOK
<1>3. \A i \in Ips : perIp[i] = lost[i] + Cardinality(Behind(Sse!SlotHolders, i))
      /\ lost[i] \in Nat /\ Cardinality(Behind(Sse!SlotHolders, i)) \in Nat
  BY HoldersTyped, HoldersFinite DEF SseInv, SlotsTold, Sse!TypeOK
<1>4. ASSUME NEW i \in Ips
      PROVE  perIp'[i] = lost'[i] + Cardinality(Behind(Sse!SlotHolders', i))
  <2>1. Cardinality(Behind(Sse!SlotHolders', i)) =
            Cardinality(Behind(Sse!SlotHolders, i)) + (IF IpOf[c] = i THEN 1 ELSE 0)
    BY <1>1
  <2>2. perIp'[i] = perIp[i] + (IF IpOf[c] = i THEN 1 ELSE 0) /\ lost' = lost
    BY <1>2
  <2> QED BY ONLY <1>3, <1>4, <2>1, <2>2
<1>5. global' = lostInAll' + Cardinality(Sse!SlotHolders')
  BY <1>1, HoldersTyped, HoldersFinite DEF SseInv, SlotsTold, Sse!TypeOK
<1> QED BY <1>4, <1>5 DEF SlotsTold

LEMMA SlotLeaked ==
    ASSUME SseInv, NEW c \in Clients, c \in Sse!SlotHolders,
           Sse!SlotHolders' = Sse!SlotHolders \ {c},
           lost' = [lost EXCEPT ![IpOf[c]] = lost[IpOf[c]] + 1], lostInAll' = lostInAll + 1,
           UNCHANGED <<perIp, global>>
    PROVE  SlotsTold'
<1>1. /\ Cardinality(Sse!SlotHolders) = Cardinality(Sse!SlotHolders') + 1
      /\ \A i : Cardinality(Behind(Sse!SlotHolders, i)) =
                 Cardinality(Behind(Sse!SlotHolders', i)) + (IF IpOf[c] = i THEN 1 ELSE 0)
  <2>1. c \notin Sse!SlotHolders'
        /\ \A x \in Clients : x \in Sse!SlotHolders <=> x \in Sse!SlotHolders' \/ x = c
    OBVIOUS
  <2>2. /\ Sse!SlotHolders \in SUBSET Clients /\ Sse!SlotHolders' \in SUBSET Clients
        /\ c \in Clients
    BY HoldersTyped
  <2> QED BY ONLY <2>1, <2>2, HoldersGain
<1>2. \A i \in Ips : lost'[i] = lost[i] + (IF IpOf[c] = i THEN 1 ELSE 0)
  BY DEF SseInv, Sse!TypeOK
<1>3. \A i \in Ips : perIp[i] = lost[i] + Cardinality(Behind(Sse!SlotHolders, i))
      /\ lost[i] \in Nat /\ Cardinality(Behind(Sse!SlotHolders', i)) \in Nat
  BY HoldersTyped, HoldersFinite DEF SseInv, SlotsTold, Sse!TypeOK
<1>4. ASSUME NEW i \in Ips
      PROVE  perIp'[i] = lost'[i] + Cardinality(Behind(Sse!SlotHolders', i))
  <2>1. Cardinality(Behind(Sse!SlotHolders', i)) \in Nat
    BY HoldersTyped, HoldersFinite
  <2> QED BY <1>1, <1>2, <1>3, <2>1
<1>5. global' = lostInAll' + Cardinality(Sse!SlotHolders')
  BY <1>1, HoldersTyped, HoldersFinite DEF SseInv, SlotsTold, Sse!TypeOK
<1> QED BY <1>4, <1>5 DEF SlotsTold

LEMMA SlotGivenBack ==
    ASSUME SseInv, NEW c \in Clients, c \in Sse!SlotHolders,
           Sse!SlotHolders' = Sse!SlotHolders \ {c},
           perIp' = [perIp EXCEPT ![IpOf[c]] = IF perIp[IpOf[c]] > 0 THEN perIp[IpOf[c]] - 1 ELSE 0],
           global' = (IF global > 0 THEN global - 1 ELSE 0),
           UNCHANGED <<lost, lostInAll>>
    PROVE  SlotsTold' /\ perIp' \in [Ips -> 0 .. MaxPerIp] /\ global' \in 0 .. MaxGlobal
<1>1. /\ Cardinality(Sse!SlotHolders) = Cardinality(Sse!SlotHolders') + 1
      /\ \A i : Cardinality(Behind(Sse!SlotHolders, i)) =
                 Cardinality(Behind(Sse!SlotHolders', i)) + (IF IpOf[c] = i THEN 1 ELSE 0)
  <2>1. c \notin Sse!SlotHolders'
        /\ \A x \in Clients : x \in Sse!SlotHolders <=> x \in Sse!SlotHolders' \/ x = c
    OBVIOUS
  <2>2. /\ Sse!SlotHolders \in SUBSET Clients /\ Sse!SlotHolders' \in SUBSET Clients
        /\ c \in Clients
    BY HoldersTyped
  <2> QED BY ONLY <2>1, <2>2, HoldersGain
<1>2. \A i \in Ips : perIp[i] = lost[i] + Cardinality(Behind(Sse!SlotHolders, i))
      /\ lost[i] \in Nat /\ Cardinality(Behind(Sse!SlotHolders', i)) \in Nat
      /\ perIp[i] \in 0 .. MaxPerIp
  BY HoldersTyped, HoldersFinite DEF SseInv, SlotsTold, Sse!TypeOK
<1>3. IpOf[c] \in Ips /\ perIp[IpOf[c]] > 0
  <2>1. IpOf[c] \in Ips
    BY SseConstants
  <2>2. Cardinality(Behind(Sse!SlotHolders, IpOf[c])) =
            Cardinality(Behind(Sse!SlotHolders', IpOf[c])) + 1
    BY <1>1
  <2> QED BY <1>2, <2>1, <2>2
<1>4. \A i \in Ips : perIp'[i] = perIp[i] - (IF IpOf[c] = i THEN 1 ELSE 0)
  BY <1>2, <1>3 DEF SseInv, Sse!TypeOK
<1>5. ASSUME NEW i \in Ips
      PROVE  perIp'[i] = lost'[i] + Cardinality(Behind(Sse!SlotHolders', i))
  <2>1. Cardinality(Behind(Sse!SlotHolders, i)) =
            Cardinality(Behind(Sse!SlotHolders', i)) + (IF IpOf[c] = i THEN 1 ELSE 0)
    BY <1>1
  <2>2. perIp'[i] = perIp[i] - (IF IpOf[c] = i THEN 1 ELSE 0) /\ lost' = lost
    BY <1>4, <1>5
  <2> QED BY ONLY <1>2, <1>5, <2>1, <2>2
<1>6. \A i \in Ips : perIp'[i] \in 0 .. MaxPerIp
  BY <1>2, <1>3, <1>4, SseConstants
<1>7. global' = lostInAll' + Cardinality(Sse!SlotHolders') /\ global' \in 0 .. MaxGlobal
  BY <1>1, HoldersTyped, HoldersFinite, SseConstants DEF SseInv, SlotsTold, Sse!TypeOK
<1>8. perIp' \in [Ips -> 0 .. MaxPerIp]
  BY <1>6 DEF SseInv, Sse!TypeOK
<1> QED BY <1>5, <1>7, <1>8 DEF SlotsTold

LEMMA SlotsKept ==
    ASSUME SseInv, Sse!SlotHolders' = Sse!SlotHolders,
           UNCHANGED <<perIp, global, lost, lostInAll>>
    PROVE  SlotsTold'
  BY DEF SseInv, SlotsTold

\* The counter of streams, likewise.
LEMMA StreamsKept ==
    ASSUME SseInv, Sse!StreamHolders' = Sse!StreamHolders, UNCHANGED <<active, lostStreams>>
    PROVE  StreamsTold'
  BY DEF SseInv, StreamsTold

LEMMA StreamLost ==
    ASSUME SseInv, NEW c \in Clients, c \in Sse!StreamHolders,
           Sse!StreamHolders' = Sse!StreamHolders \ {c}
    PROVE  /\ Cardinality(Sse!StreamHolders) = Cardinality(Sse!StreamHolders') + 1
           /\ Cardinality(Sse!StreamHolders') \in Nat
  BY HoldersTyped, HoldersGain, HoldersFinite

-----------------------------------------------------------------------------
\* A connection that ends without a release.
LEMMA SseLeak ==
    ASSUME SseInv, NEW c \in Clients, conn[c] \in {"stream", "poll"}, Sse!Leak(c),
           UNCHANGED <<perIp, global, active, owes, lostStreams>>
    PROVE  SseInv'
<1>1. conn' = [conn EXCEPT ![c] = "none"] /\ lostInAll' = lostInAll + 1
      /\ lost' = [lost EXCEPT ![IpOf[c]] = lost[IpOf[c]] + 1]
  BY DEF Sse!Leak, Sse!Goto
<1>2. IpOf[c] \in Ips /\ owes[c] = {}
  BY SseConstants DEF SseInv, Sse!TypeOK, Sse!Conn
<1>3. Sse!SlotHolders' = Sse!SlotHolders \ {c} /\ c \in Sse!SlotHolders
  BY <1>1, <1>2 DEF Sse!SlotHolders, SseInv, Sse!TypeOK
<1>4. Sse!StreamHolders' = Sse!StreamHolders
  BY <1>1, <1>2 DEF Sse!StreamHolders, SseInv, Sse!TypeOK
<1>5. Sse!TypeOK'
  BY <1>1, <1>2 DEF SseInv, Sse!TypeOK, Sse!Conn
<1>6. SlotsTold' /\ StreamsTold'
  BY <1>1, <1>3, <1>4, SlotLeaked, StreamsKept
<1>7. (\A d \in Clients : (conn[d] = "closing") <=> (owes[d] # {}))'
  BY <1>1, <1>2 DEF SseInv, Sse!TypeOK
<1> QED BY <1>5, <1>6, <1>7 DEF SseInv

LEMMA SseStays == SseInv /\ [Sse!Next]_Sse!vars => SseInv'
<1> SUFFICES ASSUME SseInv, [Sse!Next]_Sse!vars PROVE SseInv'
  OBVIOUS
<1>0. Sse!TypeOK /\ (\A c \in Clients : (conn[c] = "closing") <=> (owes[c] # {}))
  BY DEF SseInv
<1> USE DEF Sse!TypeOK, Sse!Conn, Sse!Goto
<1>1. ASSUME NEW c \in Clients, NEW kind_ \in {"stream", "poll"}, Sse!Connect(c, kind_)
      PROVE  SseInv'
  <2>1. IpOf[c] \in Ips /\ owes[c] = {} /\ conn' = [conn EXCEPT ![c] = kind_]
    BY <1>0, <1>1, SseConstants DEF Sse!Connect
  <2>2. Sse!SlotHolders' = Sse!SlotHolders \cup {c} /\ c \notin Sse!SlotHolders
    BY <1>0, <1>1, <2>1 DEF Sse!Connect, Sse!SlotHolders
  <2>3. Sse!StreamHolders' = Sse!StreamHolders
    BY <1>0, <1>1, <2>1 DEF Sse!Connect, Sse!StreamHolders
  <2>4. Sse!TypeOK'
    BY <1>0, <1>1, <2>1, SseConstants DEF Sse!Connect
  <2>5. SlotsTold' /\ StreamsTold'
    BY <1>1, <2>2, <2>3, SlotTaken, StreamsKept DEF Sse!Connect
  <2>6. (\A d \in Clients : (conn[d] = "closing") <=> (owes[d] # {}))'
    BY <1>0, <1>1, <2>1 DEF Sse!Connect
  <2> QED BY <2>4, <2>5, <2>6 DEF SseInv
<1>2. ASSUME NEW c \in Clients,
             Sse!Unauthorised(c) \/ Sse!PollAnswered(c) \/ Sse!Abandoned(c)
      PROVE  SseInv'
  BY <1>2, SseLeak DEF Sse!Unauthorised, Sse!PollAnswered, Sse!Abandoned
<1>3. ASSUME NEW c \in Clients, Sse!StreamRefused(c)
      PROVE  SseInv'
  <2>1. owes[c] = {} /\ conn' = [conn EXCEPT ![c] = "closing"]
        /\ owes' = [owes EXCEPT ![c] = {"slot"}]
    BY <1>0, <1>3 DEF Sse!StreamRefused
  <2>2. Sse!SlotHolders' = Sse!SlotHolders
    BY <1>0, <1>3, <2>1 DEF Sse!StreamRefused, Sse!SlotHolders
  <2>3. Sse!StreamHolders' = Sse!StreamHolders
    BY <1>0, <1>3, <2>1 DEF Sse!StreamRefused, Sse!StreamHolders
  <2>4. Sse!TypeOK'
    BY <1>0, <1>3, <2>1 DEF Sse!StreamRefused
  <2>5. SlotsTold' /\ StreamsTold'
    BY <1>3, <2>2, <2>3, SlotsKept, StreamsKept DEF Sse!StreamRefused
  <2>6. (\A d \in Clients : (conn[d] = "closing") <=> (owes[d] # {}))'
    BY <1>0, <2>1
  <2> QED BY <2>4, <2>5, <2>6 DEF SseInv
<1>4. ASSUME NEW c \in Clients, Sse!StreamOpens(c)
      PROVE  SseInv'
  <2>1. owes[c] = {} /\ conn' = [conn EXCEPT ![c] = "subscribing"]
    BY <1>0, <1>4 DEF Sse!StreamOpens
  <2>2. Sse!SlotHolders' = Sse!SlotHolders
    BY <1>0, <1>4, <2>1 DEF Sse!StreamOpens, Sse!SlotHolders
  <2>3. Sse!StreamHolders' = Sse!StreamHolders \cup {c} /\ c \notin Sse!StreamHolders
    BY <1>0, <1>4, <2>1 DEF Sse!StreamOpens, Sse!StreamHolders
  <2>4. Sse!TypeOK'
    BY <1>0, <1>4, <2>1, SseConstants DEF Sse!StreamOpens
  <2>5. SlotsTold'
    BY <1>4, <2>2, SlotsKept DEF Sse!StreamOpens
  <2>6. Cardinality(Sse!StreamHolders') = Cardinality(Sse!StreamHolders) + 1
        /\ Cardinality(Sse!StreamHolders) \in Nat
    BY <2>3, HoldersTyped, HoldersGain, HoldersFinite
  <2>7. StreamsTold'
    BY <1>0, <1>4, <2>6 DEF Sse!StreamOpens, StreamsTold, SseInv
  <2>8. (\A d \in Clients : (conn[d] = "closing") <=> (owes[d] # {}))'
    BY <1>0, <1>4, <2>1 DEF Sse!StreamOpens
  <2> QED BY <2>4, <2>5, <2>7, <2>8 DEF SseInv
<1>5. ASSUME NEW c \in Clients, Sse!SubscribeFails(c)
      PROVE  SseInv'
  <2>1. owes[c] = {} /\ conn' = [conn EXCEPT ![c] = "closing"]
        /\ owes' = [owes EXCEPT ![c] = {"slot"}]
    BY <1>0, <1>5 DEF Sse!SubscribeFails
  <2>2. Sse!SlotHolders' = Sse!SlotHolders
    BY <1>0, <1>5, <2>1 DEF Sse!SubscribeFails, Sse!SlotHolders
  <2>3. Sse!StreamHolders' = Sse!StreamHolders \ {c} /\ c \in Sse!StreamHolders
    BY <1>0, <1>5, <2>1 DEF Sse!SubscribeFails, Sse!StreamHolders
  <2>4. Sse!TypeOK'
    BY <1>0, <1>5, <2>1 DEF Sse!SubscribeFails
  <2>5. SlotsTold'
    BY <1>5, <2>2, SlotsKept DEF Sse!SubscribeFails
  <2>6. StreamsTold'
    <3>1. /\ Cardinality(Sse!StreamHolders) = Cardinality(Sse!StreamHolders') + 1
          /\ Cardinality(Sse!StreamHolders') \in Nat
      BY <2>3, StreamLost
    <3>2. active' = active /\ lostStreams' = lostStreams + 1
      BY <1>5 DEF Sse!SubscribeFails
    <3> QED BY <1>0, <3>1, <3>2 DEF StreamsTold, SseInv
  <2>7. (\A d \in Clients : (conn[d] = "closing") <=> (owes[d] # {}))'
    BY <1>0, <2>1
  <2> QED BY <2>4, <2>5, <2>6, <2>7 DEF SseInv
<1>6. ASSUME NEW c \in Clients, Sse!Subscribed(c)
      PROVE  SseInv'
  <2>1. owes[c] = {} /\ conn' = [conn EXCEPT ![c] = "streaming"]
    BY <1>0, <1>6 DEF Sse!Subscribed
  <2>2. Sse!SlotHolders' = Sse!SlotHolders
    BY <1>0, <1>6, <2>1 DEF Sse!Subscribed, Sse!SlotHolders
  <2>3. Sse!StreamHolders' = Sse!StreamHolders
    BY <1>0, <1>6, <2>1 DEF Sse!Subscribed, Sse!StreamHolders
  <2>4. Sse!TypeOK'
    BY <1>0, <1>6, <2>1 DEF Sse!Subscribed
  <2>5. SlotsTold' /\ StreamsTold'
    BY <1>6, <2>2, <2>3, SlotsKept, StreamsKept DEF Sse!Subscribed
  <2>6. (\A d \in Clients : (conn[d] = "closing") <=> (owes[d] # {}))'
    BY <1>0, <1>6, <2>1 DEF Sse!Subscribed
  <2> QED BY <2>4, <2>5, <2>6 DEF SseInv
<1>7. ASSUME NEW c \in Clients, Sse!StreamEnds(c)
      PROVE  SseInv'
  <2>1. owes[c] = {} /\ conn' = [conn EXCEPT ![c] = "closing"]
        /\ owes' = [owes EXCEPT ![c] = {"slot", "stream"}]
    BY <1>0, <1>7 DEF Sse!StreamEnds
  <2>2. Sse!SlotHolders' = Sse!SlotHolders
    BY <1>0, <1>7, <2>1 DEF Sse!StreamEnds, Sse!SlotHolders
  <2>3. Sse!StreamHolders' = Sse!StreamHolders
    BY <1>0, <1>7, <2>1 DEF Sse!StreamEnds, Sse!StreamHolders
  <2>4. Sse!TypeOK'
    BY <1>0, <1>7, <2>1 DEF Sse!StreamEnds
  <2>5. SlotsTold' /\ StreamsTold'
    BY <1>7, <2>2, <2>3, SlotsKept, StreamsKept DEF Sse!StreamEnds
  <2>6. (\A d \in Clients : (conn[d] = "closing") <=> (owes[d] # {}))'
    BY <1>0, <2>1
  <2> QED BY <2>4, <2>5, <2>6 DEF SseInv
<1>8. ASSUME NEW c \in Clients, NEW what \in {"slot", "stream"}, Sse!Released(c, what)
      PROVE  /\ conn' \in [Clients -> Sse!Conn]
             /\ owes' \in [Clients -> SUBSET {"slot", "stream"}]
             /\ (\A d \in Clients : (conn[d] = "closing") <=> (owes[d] # {}))'
             /\ what = "slot" => /\ Sse!SlotHolders' = Sse!SlotHolders \ {c}
                                 /\ c \in Sse!SlotHolders
                                 /\ Sse!StreamHolders' = Sse!StreamHolders
             /\ what = "stream" => /\ Sse!StreamHolders' = Sse!StreamHolders \ {c}
                                   /\ c \in Sse!StreamHolders
                                   /\ Sse!SlotHolders' = Sse!SlotHolders
  <2>1. /\ what \in owes[c] /\ conn[c] = "closing"
        /\ owes' = [owes EXCEPT ![c] = owes[c] \ {what}]
        /\ conn' = [conn EXCEPT ![c] = IF owes[c] = {what} THEN "none" ELSE conn[c]]
    BY <1>0, <1>8 DEF Sse!Released
  <2>2. conn'[c] \in {"none", "closing"} /\ (conn'[c] = "closing" <=> owes'[c] # {})
        /\ owes'[c] = owes[c] \ {what}
    BY <1>0, <2>1
  <2>3. \A d \in Clients : d # c => conn'[d] = conn[d] /\ owes'[d] = owes[d]
    BY <1>0, <2>1
  <2>4. conn' \in [Clients -> Sse!Conn] /\ owes' \in [Clients -> SUBSET {"slot", "stream"}]
    BY <1>0, <2>1
  <2>5. (\A d \in Clients : (conn[d] = "closing") <=> (owes[d] # {}))'
    BY <1>0, <2>2, <2>3
  <2>6. CASE what = "slot"
    BY <2>1, <2>2, <2>3, <2>4, <2>5, <2>6 DEF Sse!SlotHolders, Sse!StreamHolders
  <2>7. CASE what = "stream"
    BY <2>1, <2>2, <2>3, <2>4, <2>5, <2>7 DEF Sse!SlotHolders, Sse!StreamHolders
  <2> QED BY <2>6, <2>7
<1>9. ASSUME NEW c \in Clients, Sse!ReleaseSlot(c)
      PROVE  SseInv'
  <2>1. Sse!Released(c, "slot") /\ UNCHANGED <<active, lost, lostInAll, lostStreams>>
        /\ perIp' = [perIp EXCEPT ![IpOf[c]] = IF perIp[IpOf[c]] > 0 THEN perIp[IpOf[c]] - 1 ELSE 0]
        /\ global' = (IF global > 0 THEN global - 1 ELSE 0)
    BY <1>9 DEF Sse!ReleaseSlot
  <2>2. SlotsTold' /\ perIp' \in [Ips -> 0 .. MaxPerIp] /\ global' \in 0 .. MaxGlobal
    BY <1>8, <2>1, SlotGivenBack
  <2>3. StreamsTold'
    BY <1>8, <2>1, StreamsKept
  <2>4. Sse!TypeOK'
    BY <1>0, <1>8, <2>1, <2>2
  <2> QED BY <1>8, <2>1, <2>2, <2>3, <2>4 DEF SseInv
<1>10. ASSUME NEW c \in Clients, Sse!ReleaseStream(c)
       PROVE  SseInv'
  <2>1. Sse!Released(c, "stream") /\ UNCHANGED <<perIp, global, lost, lostInAll, lostStreams>>
        /\ active' = (IF active > 0 THEN active - 1 ELSE 0)
    BY <1>10 DEF Sse!ReleaseStream
  <2>2. SlotsTold'
    BY <1>8, <2>1, SlotsKept
  <2>3. /\ Cardinality(Sse!StreamHolders) = Cardinality(Sse!StreamHolders') + 1
        /\ Cardinality(Sse!StreamHolders') \in Nat
    BY <1>8, <2>1, StreamLost
  <2>4. StreamsTold' /\ active' \in 0 .. MaxStreams
    BY <1>0, <2>1, <2>3, SseConstants DEF StreamsTold, SseInv
  <2>5. Sse!TypeOK'
    BY <1>0, <1>8, <2>1, <2>4
  <2> QED BY <1>8, <2>1, <2>2, <2>4, <2>5 DEF SseInv
<1>11. CASE Sse!Restart
  <2>1. Sse!TypeOK'
    BY <1>11, SseConstants DEF Sse!Restart
  <2>2. Sse!SlotHolders' = {} /\ Sse!StreamHolders' = {}
    BY <1>11 DEF Sse!Restart, Sse!SlotHolders, Sse!StreamHolders
  <2>3. \A i : Behind({}, i) = {}
    BY DEF Behind
  <2>4. SlotsTold' /\ StreamsTold'
    BY <1>11, <2>2, <2>3, FS_EmptySet DEF Sse!Restart, SlotsTold, StreamsTold
  <2> QED BY <1>11, <2>1, <2>4 DEF SseInv, Sse!Restart
<1>12. CASE UNCHANGED Sse!vars
  BY <1>0, <1>12 DEF Sse!vars, SseInv, SlotsTold, StreamsTold, Sse!SlotHolders, Sse!StreamHolders
<1> QED BY <1>1, <1>2, <1>3, <1>4, <1>5, <1>6, <1>7, <1>9, <1>10, <1>11, <1>12
        DEF Sse!Next, Sse!ClientStep

LEMMA SseStarts == Sse!Init => SseInv
<1> SUFFICES ASSUME Sse!Init PROVE SseInv
  OBVIOUS
<1>1. Sse!TypeOK
  BY SseConstants DEF Sse!Init, Sse!TypeOK, Sse!Conn
<1>2. Sse!SlotHolders = {} /\ Sse!StreamHolders = {}
  BY DEF Sse!Init, Sse!SlotHolders, Sse!StreamHolders
<1>3. \A i : Behind({}, i) = {}
  BY DEF Behind
<1>4. SlotsTold /\ StreamsTold
  BY <1>2, <1>3, FS_EmptySet DEF Sse!Init, SlotsTold, StreamsTold
<1> QED BY <1>1, <1>4 DEF SseInv, Sse!Init

LEMMA SseInSum == (SumInit => Sse!Init) /\ ([SumNext]_allVars => [Sse!Next]_Sse!vars)
  BY DEF SumInit, SumNext, allVars, sseVars, Sse!vars

-----------------------------------------------------------------------------
(* Both halves of what a page needs to receive events.                     *)

\* The counters of SSE connections say who is connected and what was leaked, in
\* whatever order generators are closed (sse_connect, sse_disconnect,
\* event_stream), and a page never makes two connections (useSSE).
THEOREM StreamsAreSound == SumSpec => []StreamsSound
<1>1. SseInv /\ FeedInv => StreamsSound
  BY SseCounts DEF SseInv, FeedInv, StreamsSound
<1>2. SumInit => SseInv /\ FeedInv
  BY SseInSum, SseStarts, FeedInSum, FeedStarts
<1>3. SseInv /\ [SumNext]_allVars => SseInv'
  BY SseInSum, SseStays
<1>4. FeedInv /\ [SumNext]_allVars => FeedInv'
  BY FeedInSum, FeedStays
<1> QED BY <1>1, <1>2, <1>3, <1>4, PTL DEF SumSpec

=============================================================================
