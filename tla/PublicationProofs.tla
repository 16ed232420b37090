-------------------------- MODULE PublicationProofs --------------------------
(***************************************************************************)
(* Theorems about the publication of reviewed entities, and, with it, the  *)
(* types of all services.                                                  *)
(*                                                                         *)
(* The argument about publication: an approved row without a node is on    *)
(* its way there, a request or the stage is about to write it, or the      *)
(* history says what went wrong; and the reconciliation forgets the        *)
(* history only if nothing changed since it began, when it knows both      *)
(* databases and repairs what they disagree about.                         *)
(***************************************************************************)
EXTENDS ServicesProofs

-----------------------------------------------------------------------------
PubTyped ==
    /\ kind \in {"position", "skill"}
    /\ record \in Publish!Statuses \cup {"absent"}
    /\ node \in Publish!Statuses \cup {"none", "unset"}
    /\ phase \in [Reviewers -> {"idle", "checked", "committed", "write", "prune"}]
    /\ does \in [Reviewers -> Publish!Requested]
    /\ read \in [Reviewers -> Publish!Statuses \cup {"absent"}]
    /\ sync \in {"idle", "write", "heal", "linked"}
    /\ repair \in {"idle", "graph", "records", "pruned", "filled"}
    /\ queue \in {"none", "pending", "cleaned", "rejected"}
    /\ entry \in {"node", "dead", "bare"}
    /\ causes \subseteq {"failed", "stale", "unchecked"}
    /\ ops \in 0 .. MaxOps
PubFlags ==
    /\ bare \in BOOLEAN /\ dead \in BOOLEAN /\ touched \in BOOLEAN
    /\ snap \in [node : BOOLEAN, dead : BOOLEAN, approved : BOOLEAN]

\* A request on its way has a row, and knows what it does.
Reviews ==
    \A r \in Reviewers :
        /\ phase[r] = "checked" => does[r] \in {"submit", "approve", "reject", "unpublish"}
        /\ phase[r] \in {"checked", "committed", "write"} =>
             record # "absent" /\ read[r] # "absent"

\* An undisturbed reconciliation knows the records and the ids of the graph.
RepairKnows ==
    repair # "idle" /\ ~touched =>
        /\ sync # "linked"
        /\ repair \in {"graph", "records"} => (snap.node <=> node # "none")
                                               /\ (snap.dead <=> dead)
        /\ repair # "graph" => (snap.approved <=> record = "approved")
        /\ repair = "pruned" => (node # "none" <=> snap.node /\ snap.approved) /\ ~dead
        /\ repair = "filled" => (node # "none" <=> snap.approved) /\ ~dead

Pending(a) == \E r \in Reviewers : does[r] = a /\ phase[r] \in {"committed", "write"}
Missed == "failed" \in causes \/ "stale" \in causes

\* What is approved is in the graph or on its way; what is rejected is marked, or
\* its mark is on its way; a row that a heal inserts has its node.
Shown ==
    /\ record = "approved" => node # "none" \/ sync = "write" \/ Pending("approve") \/ Missed
    /\ record = "rejected" => node \in {"none", "rejected"} \/ Pending("reject") \/ causes # {}
    /\ sync = "linked" => node # "none" \/ Missed

PubInv == PubTyped /\ Reviews /\ RepairKnows /\ Shown

LEMMA PubBound == MaxOps \in Nat
  BY ServicesAssumptions DEF Publish!PublicationAssumption

LEMMA ReviewsStay == PubTyped /\ Reviews /\ [Publish!Next]_Publish!pubVars => Reviews'
<1> SUFFICES ASSUME PubTyped /\ Reviews, [Publish!Next]_Publish!pubVars PROVE Reviews'
  OBVIOUS
<1> USE DEF PubTyped, Reviews, Publish!Statuses, Publish!Requested, Publish!Actions, Publish!graphVars, Publish!repairVars, Publish!queueVars, Publish!reviewVars
<1>1. ASSUME NEW r \in Reviewers, NEW a \in Publish!Actions, Publish!ReviewLoad(r, a)
      PROVE  Reviews'
  BY <1>1 DEF Publish!ReviewLoad, Publish!From, Publish!To
<1>2. ASSUME NEW r \in Reviewers, Publish!ReviewCommit(r)
      PROVE  Reviews'
  BY <1>2 DEF Publish!ReviewCommit, Publish!To
<1>3. ASSUME NEW r \in Reviewers, Publish!ReviewRefresh(r)
      PROVE  Reviews'
  BY <1>3 DEF Publish!ReviewRefresh, Publish!WritesGraph, Publish!Done
<1>4. ASSUME NEW r \in Reviewers, Publish!ReviewWrite(r)
      PROVE  Reviews'
  BY <1>4 DEF Publish!ReviewWrite, Publish!Merged, Publish!Done
<1>5. ASSUME NEW r \in Reviewers, Publish!SyncAllLoad(r)
      PROVE  Reviews'
  BY <1>5 DEF Publish!SyncAllLoad
<1>6. ASSUME NEW r \in Reviewers, Publish!SyncAllWrite(r)
      PROVE  Reviews'
  BY <1>6 DEF Publish!SyncAllWrite
<1>7. ASSUME NEW r \in Reviewers, Publish!SyncAllPrune(r)
      PROVE  Reviews'
  BY <1>7 DEF Publish!SyncAllPrune, Publish!Done
<1>8. ASSUME NEW r \in Reviewers, Publish!ReviewFails(r)
      PROVE  Reviews'
  BY <1>8 DEF Publish!ReviewFails, Publish!Done
<1>9. CASE Publish!Extracted
  BY <1>9 DEF Publish!Extracted
<1>10. CASE Publish!Mentioned
  BY <1>10 DEF Publish!Mentioned
<1>11. CASE Publish!SyncLoad
  BY <1>11 DEF Publish!SyncLoad
<1>12. CASE Publish!SyncWrite
  BY <1>12 DEF Publish!SyncWrite, Publish!Merged
<1>13. CASE Publish!HealBegin
  BY <1>13 DEF Publish!HealBegin
<1>14. CASE Publish!HealLink
  BY <1>14 DEF Publish!HealLink, Publish!Merged
<1>15. CASE Publish!HealCommit
  BY <1>15 DEF Publish!HealCommit
<1>16. CASE Publish!SyncFails
  BY <1>16 DEF Publish!SyncFails
<1>17. CASE Publish!RepairGraph
  BY <1>17 DEF Publish!RepairGraph
<1>18. CASE Publish!RepairRecords
  BY <1>18 DEF Publish!RepairRecords, Publish!Published
<1>19. CASE Publish!RepairPrune
  BY <1>19 DEF Publish!RepairPrune
<1>20. CASE Publish!RepairBackfill
  BY <1>20 DEF Publish!RepairBackfill, Publish!Merged
<1>21. CASE Publish!RepairBare
  BY <1>21 DEF Publish!RepairBare, Publish!Merged
<1>22. CASE Publish!RepairFails
  BY <1>22 DEF Publish!RepairFails
<1>23. CASE Publish!QueueSync
  BY <1>23 DEF Publish!QueueSync, Publish!Orphans
<1>24. CASE Publish!QueueDelete
  BY <1>24 DEF Publish!QueueDelete
<1>25. CASE Publish!QueueReject
  BY <1>25 DEF Publish!QueueReject
<1>26. CASE UNCHANGED Publish!pubVars
  BY <1>26 DEF Publish!pubVars
<1> QED
  BY <1>1, <1>2, <1>3, <1>4, <1>5, <1>6, <1>7, <1>8, <1>9, <1>10, <1>11, <1>12, <1>13, <1>14, <1>15, <1>16, <1>17, <1>18, <1>19, <1>20, <1>21, <1>22, <1>23, <1>24, <1>25, <1>26
     DEF Publish!Next, Publish!ReviewStep, Publish!SyncStep, Publish!RepairStep

LEMMA PubTypedStays == PubTyped /\ Reviews /\ [Publish!Next]_Publish!pubVars => PubTyped'
<1> SUFFICES ASSUME PubTyped /\ Reviews, [Publish!Next]_Publish!pubVars PROVE PubTyped'
  OBVIOUS
<1> USE PubBound DEF PubTyped, Reviews, Publish!Statuses, Publish!Requested, Publish!Actions, Publish!graphVars, Publish!repairVars, Publish!queueVars, Publish!reviewVars, Publish!Counted, Publish!Uncounted
<1>1. ASSUME NEW r \in Reviewers, NEW a \in Publish!Actions, Publish!ReviewLoad(r, a)
      PROVE  PubTyped'
  BY <1>1 DEF Publish!ReviewLoad, Publish!From, Publish!To
<1>2. ASSUME NEW r \in Reviewers, Publish!ReviewCommit(r)
      PROVE  PubTyped'
  BY <1>2 DEF Publish!ReviewCommit, Publish!To
<1>3. ASSUME NEW r \in Reviewers, Publish!ReviewRefresh(r)
      PROVE  PubTyped'
  BY <1>3 DEF Publish!ReviewRefresh, Publish!WritesGraph, Publish!Done
<1>4. ASSUME NEW r \in Reviewers, Publish!ReviewWrite(r)
      PROVE  PubTyped'
  <2>1. causes' \subseteq causes \cup {"stale", "unchecked"}
    BY <1>4 DEF Publish!ReviewWrite
  <2>2. read[r] \in Publish!Statuses
    BY <1>4 DEF Publish!ReviewWrite
  <2>3. node' \in Publish!Statuses \cup {"none", "unset"}
    BY <1>4, <2>2 DEF Publish!ReviewWrite, Publish!Merged
  <2>4. /\ phase' = [phase EXCEPT ![r] = "idle"] /\ does' = [does EXCEPT ![r] = "submit"]
        /\ read' = [read EXCEPT ![r] = "absent"]
        /\ kind' = kind /\ record' = record /\ sync' = sync /\ repair' = repair
        /\ queue' = queue /\ entry' = entry /\ ops' \in 0 .. MaxOps
    BY <1>4 DEF Publish!ReviewWrite, Publish!Done
  <2> QED BY <2>1, <2>3, <2>4
<1>5. ASSUME NEW r \in Reviewers, Publish!SyncAllLoad(r)
      PROVE  PubTyped'
  BY <1>5 DEF Publish!SyncAllLoad
<1>6. ASSUME NEW r \in Reviewers, Publish!SyncAllWrite(r)
      PROVE  PubTyped'
  <2>1. node' \in {node, read[r]} /\ read[r] # "absent"
        /\ phase' = [phase EXCEPT ![r] = "prune"]
    BY <1>6 DEF Publish!SyncAllWrite
  <2>2. causes' \subseteq causes \cup {"stale", "failed"} /\ ops' \in 0 .. MaxOps
    BY <1>6 DEF Publish!SyncAllWrite
  <2>3. UNCHANGED <<kind, record, does, read, sync, repair, queue, entry>>
    BY <1>6 DEF Publish!SyncAllWrite
  <2> QED BY <2>1, <2>2, <2>3
<1>7. ASSUME NEW r \in Reviewers, Publish!SyncAllPrune(r)
      PROVE  PubTyped'
  BY <1>7 DEF Publish!SyncAllPrune, Publish!Done
<1>8. ASSUME NEW r \in Reviewers, Publish!ReviewFails(r)
      PROVE  PubTyped'
  BY <1>8 DEF Publish!ReviewFails, Publish!Done
<1>9. CASE Publish!Extracted
  BY <1>9 DEF Publish!Extracted
<1>10. CASE Publish!Mentioned
  BY <1>10 DEF Publish!Mentioned
<1>11. CASE Publish!SyncLoad
  BY <1>11 DEF Publish!SyncLoad
<1>12. CASE Publish!SyncWrite
  BY <1>12 DEF Publish!SyncWrite, Publish!Merged
<1>13. CASE Publish!HealBegin
  BY <1>13 DEF Publish!HealBegin
<1>14. CASE Publish!HealLink
  BY <1>14 DEF Publish!HealLink, Publish!Merged
<1>15. CASE Publish!HealCommit
  BY <1>15 DEF Publish!HealCommit
<1>16. CASE Publish!SyncFails
  BY <1>16 DEF Publish!SyncFails
<1>17. CASE Publish!RepairGraph
  BY <1>17 DEF Publish!RepairGraph
<1>18. CASE Publish!RepairRecords
  BY <1>18 DEF Publish!RepairRecords, Publish!Published
<1>19. CASE Publish!RepairPrune
  BY <1>19 DEF Publish!RepairPrune
<1>20. CASE Publish!RepairBackfill
  BY <1>20 DEF Publish!RepairBackfill, Publish!Merged
<1>21. CASE Publish!RepairBare
  BY <1>21 DEF Publish!RepairBare, Publish!Merged
<1>22. CASE Publish!RepairFails
  BY <1>22 DEF Publish!RepairFails
<1>23. CASE Publish!QueueSync
  <2>1. Publish!Orphans \subseteq {"node", "dead", "bare"}
    BY DEF Publish!Orphans
  <2>2. entry' \in {"node", "dead", "bare"}
    BY <1>23, <2>1 DEF Publish!QueueSync
  <2>3. queue' \in {"cleaned", "pending"} /\ ops' \in 0 .. MaxOps
        /\ UNCHANGED <<kind, record, node, phase, does, read, sync, repair, causes>>
    BY <1>23 DEF Publish!QueueSync
  <2> QED BY <2>2, <2>3
<1>24. CASE Publish!QueueDelete
  BY <1>24 DEF Publish!QueueDelete
<1>25. CASE Publish!QueueReject
  BY <1>25 DEF Publish!QueueReject
<1>26. CASE UNCHANGED Publish!pubVars
  BY <1>26 DEF Publish!pubVars
<1> QED
  BY <1>1, <1>2, <1>3, <1>4, <1>5, <1>6, <1>7, <1>8, <1>9, <1>10, <1>11, <1>12, <1>13, <1>14, <1>15, <1>16, <1>17, <1>18, <1>19, <1>20, <1>21, <1>22, <1>23, <1>24, <1>25, <1>26
     DEF Publish!Next, Publish!ReviewStep, Publish!SyncStep, Publish!RepairStep

LEMMA RepairKnowsStays == PubTyped /\ PubFlags /\ RepairKnows /\ [Publish!Next]_Publish!pubVars => RepairKnows'
<1> SUFFICES ASSUME PubTyped /\ PubFlags /\ RepairKnows, [Publish!Next]_Publish!pubVars PROVE RepairKnows'
  OBVIOUS
<1> USE DEF PubTyped, PubFlags, RepairKnows, Publish!graphVars, Publish!repairVars, Publish!queueVars, Publish!reviewVars, Publish!Touch
<1>1. ASSUME NEW r \in Reviewers, NEW a \in Publish!Actions, Publish!ReviewLoad(r, a)
      PROVE  RepairKnows'
  BY <1>1 DEF Publish!ReviewLoad, Publish!From, Publish!To
<1>2. ASSUME NEW r \in Reviewers, Publish!ReviewCommit(r)
      PROVE  RepairKnows'
  BY <1>2 DEF Publish!ReviewCommit, Publish!To
<1>3. ASSUME NEW r \in Reviewers, Publish!ReviewRefresh(r)
      PROVE  RepairKnows'
  BY <1>3 DEF Publish!ReviewRefresh, Publish!WritesGraph, Publish!Done
<1>4. ASSUME NEW r \in Reviewers, Publish!ReviewWrite(r)
      PROVE  RepairKnows'
  BY <1>4 DEF Publish!ReviewWrite, Publish!Merged, Publish!Done
<1>5. ASSUME NEW r \in Reviewers, Publish!SyncAllLoad(r)
      PROVE  RepairKnows'
  BY <1>5 DEF Publish!SyncAllLoad
<1>6. ASSUME NEW r \in Reviewers, Publish!SyncAllWrite(r)
      PROVE  RepairKnows'
  BY <1>6 DEF Publish!SyncAllWrite
<1>7. ASSUME NEW r \in Reviewers, Publish!SyncAllPrune(r)
      PROVE  RepairKnows'
  BY <1>7 DEF Publish!SyncAllPrune, Publish!Done
<1>8. ASSUME NEW r \in Reviewers, Publish!ReviewFails(r)
      PROVE  RepairKnows'
  BY <1>8 DEF Publish!ReviewFails, Publish!Done
<1>9. CASE Publish!Extracted
  BY <1>9 DEF Publish!Extracted
<1>10. CASE Publish!Mentioned
  BY <1>10 DEF Publish!Mentioned
<1>11. CASE Publish!SyncLoad
  BY <1>11 DEF Publish!SyncLoad
<1>12. CASE Publish!SyncWrite
  BY <1>12 DEF Publish!SyncWrite, Publish!Merged
<1>13. CASE Publish!HealBegin
  BY <1>13 DEF Publish!HealBegin
<1>14. CASE Publish!HealLink
  BY <1>14 DEF Publish!HealLink, Publish!Merged
<1>15. CASE Publish!HealCommit
  BY <1>15 DEF Publish!HealCommit
<1>16. CASE Publish!SyncFails
  BY <1>16 DEF Publish!SyncFails
<1>17. CASE Publish!RepairGraph
  BY <1>17 DEF Publish!RepairGraph
<1>18. CASE Publish!RepairRecords
  BY <1>18 DEF Publish!RepairRecords, Publish!Published
<1>19. CASE Publish!RepairPrune
  BY <1>19 DEF Publish!RepairPrune
<1>20. CASE Publish!RepairBackfill
  BY <1>20 DEF Publish!RepairBackfill, Publish!Merged
<1>21. CASE Publish!RepairBare
  BY <1>21 DEF Publish!RepairBare, Publish!Merged
<1>22. CASE Publish!RepairFails
  BY <1>22 DEF Publish!RepairFails
<1>23. CASE Publish!QueueSync
  BY <1>23 DEF Publish!QueueSync, Publish!Orphans
<1>24. CASE Publish!QueueDelete
  BY <1>24 DEF Publish!QueueDelete
<1>25. CASE Publish!QueueReject
  BY <1>25 DEF Publish!QueueReject
<1>26. CASE UNCHANGED Publish!pubVars
  BY <1>26 DEF Publish!pubVars
<1> QED
  BY <1>1, <1>2, <1>3, <1>4, <1>5, <1>6, <1>7, <1>8, <1>9, <1>10, <1>11, <1>12, <1>13, <1>14, <1>15, <1>16, <1>17, <1>18, <1>19, <1>20, <1>21, <1>22, <1>23, <1>24, <1>25, <1>26
     DEF Publish!Next, Publish!ReviewStep, Publish!SyncStep, Publish!RepairStep

LEMMA ShownStays == PubInv /\ [Publish!Next]_Publish!pubVars => Shown'
<1> SUFFICES ASSUME PubInv, [Publish!Next]_Publish!pubVars PROVE Shown'
  OBVIOUS
<1> USE DEF PubInv, PubTyped, Reviews, RepairKnows, Shown, Pending, Missed, Publish!graphVars, Publish!repairVars, Publish!queueVars, Publish!reviewVars
<1>1. ASSUME NEW r \in Reviewers, NEW a \in Publish!Actions, Publish!ReviewLoad(r, a)
      PROVE  Shown'
  BY <1>1 DEF Publish!ReviewLoad, Publish!From, Publish!To
<1>2. ASSUME NEW r \in Reviewers, Publish!ReviewCommit(r)
      PROVE  Shown'
  BY <1>2 DEF Publish!ReviewCommit, Publish!To
<1>3. ASSUME NEW r \in Reviewers, Publish!ReviewRefresh(r)
      PROVE  Shown'
  BY <1>3 DEF Publish!ReviewRefresh, Publish!WritesGraph, Publish!Done
<1>4. ASSUME NEW r \in Reviewers, Publish!ReviewWrite(r)
      PROVE  Shown'
  <2>1. /\ phase[r] = "write" /\ read[r] \in Publish!Statuses
        /\ phase' = [phase EXCEPT ![r] = "idle"] /\ does' = [does EXCEPT ![r] = "submit"]
        /\ UNCHANGED <<record, sync>>
    BY <1>4 DEF Publish!ReviewWrite, Publish!Done
  <2>2. /\ does[r] # "approve" /\ Pending("approve") => Pending("approve")'
        /\ does[r] # "reject" /\ Pending("reject") => Pending("reject")'
    BY <2>1
  <2> HIDE DEF Pending
  <2>3. CASE does[r] = "reject" \/ (does[r] = "approve" /\ kind = "skill")
    <3>1. node' = read[r] /\ causes' = IF read[r] = record THEN causes ELSE causes \cup {"stale"}
      BY <1>4, <2>3 DEF Publish!ReviewWrite
    <3>2. node' # "none" /\ (read[r] = record => node' = record)
      BY ONLY <2>1, <3>1 DEF Publish!Statuses
    <3>3. causes \subseteq causes' /\ (read[r] # record => "stale" \in causes')
      BY <2>1, <3>1
    <3> QED BY <2>1, <3>2, <3>3
  <2>4. CASE ~(does[r] = "reject" \/ (does[r] = "approve" /\ kind = "skill"))
    <3>1. node' = IF node = "none" THEN "unset" ELSE node
      BY <1>4, <2>4 DEF Publish!ReviewWrite, Publish!Merged
    <3>2. node' # "none" /\ (node # "none" => node' = node)
      BY <3>1
    <3>3. record = "rejected" => causes' # {}
      BY <1>4, <2>4 DEF Publish!ReviewWrite
    <3>4. Missed => Missed'
      BY <1>4, <2>4 DEF Publish!ReviewWrite
    <3> QED BY <2>1, <2>4, <3>2, <3>3, <3>4
  <2> QED BY <2>3, <2>4
<1>5. ASSUME NEW r \in Reviewers, Publish!SyncAllLoad(r)
      PROVE  Shown'
  BY <1>5 DEF Publish!SyncAllLoad
<1>6. ASSUME NEW r \in Reviewers, Publish!SyncAllWrite(r)
      PROVE  Shown'
  <2>1. /\ does[r] = "sync_all" /\ read[r] \in Publish!Statuses
        /\ phase' = [phase EXCEPT ![r] = "prune"] /\ UNCHANGED <<record, does, sync>>
    BY <1>6 DEF Publish!SyncAllWrite
  <2>2. \A a \in {"approve", "reject"} : Pending(a) => Pending(a)'
    BY <2>1
  <2> HIDE DEF Pending
  <2>3. CASE node' = read[r]
             /\ causes' = IF read[r] = record THEN causes ELSE causes \cup {"stale"}
    <3>1. node' # "none" /\ (read[r] = record => node' = record)
      BY ONLY <2>1, <2>3 DEF Publish!Statuses
    <3>2. causes \subseteq causes' /\ (read[r] # record => "stale" \in causes')
      BY <2>1, <2>3
    <3> QED BY <2>1, <2>2, <3>1, <3>2
  <2>4. CASE causes' = causes \cup {"failed"} /\ node' = node
    BY <2>1, <2>2, <2>4
  <2> QED BY <1>6, <2>3, <2>4 DEF Publish!SyncAllWrite
<1>7. ASSUME NEW r \in Reviewers, Publish!SyncAllPrune(r)
      PROVE  Shown'
  BY <1>7 DEF Publish!SyncAllPrune, Publish!Done
<1>8. ASSUME NEW r \in Reviewers, Publish!ReviewFails(r)
      PROVE  Shown'
  BY <1>8 DEF Publish!ReviewFails, Publish!Done
<1>9. CASE Publish!Extracted
  BY <1>9 DEF Publish!Extracted
<1>10. CASE Publish!Mentioned
  BY <1>10 DEF Publish!Mentioned
<1>11. CASE Publish!SyncLoad
  BY <1>11 DEF Publish!SyncLoad
<1>12. CASE Publish!SyncWrite
  BY <1>12 DEF Publish!SyncWrite, Publish!Merged
<1>13. CASE Publish!HealBegin
  BY <1>13 DEF Publish!HealBegin
<1>14. CASE Publish!HealLink
  BY <1>14 DEF Publish!HealLink, Publish!Merged
<1>15. CASE Publish!HealCommit
  BY <1>15 DEF Publish!HealCommit
<1>16. CASE Publish!SyncFails
  BY <1>16 DEF Publish!SyncFails
<1>17. CASE Publish!RepairGraph
  BY <1>17 DEF Publish!RepairGraph
<1>18. CASE Publish!RepairRecords
  BY <1>18 DEF Publish!RepairRecords, Publish!Published
<1>19. CASE Publish!RepairPrune
  BY <1>19 DEF Publish!RepairPrune
<1>20. CASE Publish!RepairBackfill
  BY <1>20 DEF Publish!RepairBackfill, Publish!Merged
<1>21. CASE Publish!RepairBare
  BY <1>21 DEF Publish!RepairBare, Publish!Merged
<1>22. CASE Publish!RepairFails
  BY <1>22 DEF Publish!RepairFails
<1>23. CASE Publish!QueueSync
  BY <1>23 DEF Publish!QueueSync, Publish!Orphans
<1>24. CASE Publish!QueueDelete
  BY <1>24 DEF Publish!QueueDelete
<1>25. CASE Publish!QueueReject
  BY <1>25 DEF Publish!QueueReject
<1>26. CASE UNCHANGED Publish!pubVars
  BY <1>26 DEF Publish!pubVars
<1> QED
  BY <1>1, <1>2, <1>3, <1>4, <1>5, <1>6, <1>7, <1>8, <1>9, <1>10, <1>11, <1>12, <1>13, <1>14, <1>15, <1>16, <1>17, <1>18, <1>19, <1>20, <1>21, <1>22, <1>23, <1>24, <1>25, <1>26
     DEF Publish!Next, Publish!ReviewStep, Publish!SyncStep, Publish!RepairStep

LEMMA PubFlagsStay == PubFlags /\ [Publish!Next]_Publish!pubVars => PubFlags'
<1> SUFFICES ASSUME PubFlags, [Publish!Next]_Publish!pubVars PROVE PubFlags'
  OBVIOUS
<1> USE DEF PubFlags, Publish!graphVars, Publish!repairVars, Publish!queueVars, Publish!reviewVars, Publish!Touch
<1>1. ASSUME NEW r \in Reviewers, NEW a \in Publish!Actions, Publish!ReviewLoad(r, a)
      PROVE  PubFlags'
  BY <1>1, Zenon DEF Publish!ReviewLoad, Publish!From, Publish!To
<1>2. ASSUME NEW r \in Reviewers, Publish!ReviewCommit(r)
      PROVE  PubFlags'
  BY <1>2, Zenon DEF Publish!ReviewCommit, Publish!To
<1>3. ASSUME NEW r \in Reviewers, Publish!ReviewRefresh(r)
      PROVE  PubFlags'
  BY <1>3, Zenon DEF Publish!ReviewRefresh, Publish!WritesGraph, Publish!Done
<1>4. ASSUME NEW r \in Reviewers, Publish!ReviewWrite(r)
      PROVE  PubFlags'
  BY <1>4, Zenon DEF Publish!ReviewWrite, Publish!Merged, Publish!Done
<1>5. ASSUME NEW r \in Reviewers, Publish!SyncAllLoad(r)
      PROVE  PubFlags'
  BY <1>5, Zenon DEF Publish!SyncAllLoad
<1>6. ASSUME NEW r \in Reviewers, Publish!SyncAllWrite(r)
      PROVE  PubFlags'
  BY <1>6, Zenon DEF Publish!SyncAllWrite
<1>7. ASSUME NEW r \in Reviewers, Publish!SyncAllPrune(r)
      PROVE  PubFlags'
  BY <1>7, Zenon DEF Publish!SyncAllPrune, Publish!Done
<1>8. ASSUME NEW r \in Reviewers, Publish!ReviewFails(r)
      PROVE  PubFlags'
  BY <1>8, Zenon DEF Publish!ReviewFails, Publish!Done
<1>9. CASE Publish!Extracted
  BY <1>9, Zenon DEF Publish!Extracted
<1>10. CASE Publish!Mentioned
  BY <1>10, Zenon DEF Publish!Mentioned
<1>11. CASE Publish!SyncLoad
  BY <1>11, Zenon DEF Publish!SyncLoad
<1>12. CASE Publish!SyncWrite
  BY <1>12, Zenon DEF Publish!SyncWrite, Publish!Merged
<1>13. CASE Publish!HealBegin
  BY <1>13, Zenon DEF Publish!HealBegin
<1>14. CASE Publish!HealLink
  BY <1>14, Zenon DEF Publish!HealLink, Publish!Merged
<1>15. CASE Publish!HealCommit
  BY <1>15, Zenon DEF Publish!HealCommit
<1>16. CASE Publish!SyncFails
  BY <1>16, Zenon DEF Publish!SyncFails
<1>17. CASE Publish!RepairGraph
  BY <1>17, Zenon DEF Publish!RepairGraph
<1>18. CASE Publish!RepairRecords
  BY <1>18, Zenon DEF Publish!RepairRecords, Publish!Published
<1>19. CASE Publish!RepairPrune
  <2>1. dead' = (dead /\ ~snap.dead)
    BY <1>19, Zenon DEF Publish!RepairPrune
  <2>2. UNCHANGED <<bare, touched, snap>>
    BY <1>19, Zenon DEF Publish!RepairPrune
  <2> QED BY <2>1, <2>2, Zenon
<1>20. CASE Publish!RepairBackfill
  <2>1. bare' = FALSE \/ bare' = bare
    BY <1>20, Zenon DEF Publish!RepairBackfill
  <2>2. UNCHANGED <<dead, touched, snap>>
    BY <1>20, Zenon DEF Publish!RepairBackfill
  <2> QED BY <2>1, <2>2, Zenon
<1>21. CASE Publish!RepairBare
  <2>1. snap' \in [node : BOOLEAN, dead : BOOLEAN, approved : BOOLEAN]
    BY <1>21 DEF Publish!RepairBare, Publish!Nothing
  <2>2. touched' = FALSE /\ bare' \in BOOLEAN /\ dead' = dead
    BY <1>21, Zenon DEF Publish!RepairBare
  <2> QED BY <2>1, <2>2, Zenon
<1>22. CASE Publish!RepairFails
  <2>1. snap' \in [node : BOOLEAN, dead : BOOLEAN, approved : BOOLEAN]
    BY <1>22 DEF Publish!RepairFails, Publish!Nothing
  <2>2. touched' = FALSE /\ UNCHANGED <<bare, dead>>
    BY <1>22, Zenon DEF Publish!RepairFails
  <2> QED BY <2>1, <2>2, Zenon
<1>23. CASE Publish!QueueSync
  BY <1>23, Zenon DEF Publish!QueueSync, Publish!Orphans
<1>24. CASE Publish!QueueDelete
  BY <1>24, Zenon DEF Publish!QueueDelete
<1>25. CASE Publish!QueueReject
  BY <1>25, Zenon DEF Publish!QueueReject
<1>26. CASE UNCHANGED Publish!pubVars
  BY <1>26, Zenon DEF Publish!pubVars
<1> QED
  BY <1>1, <1>2, <1>3, <1>4, <1>5, <1>6, <1>7, <1>8, <1>9, <1>10, <1>11, <1>12, <1>13, <1>14, <1>15, <1>16, <1>17, <1>18, <1>19, <1>20, <1>21, <1>22, <1>23, <1>24, <1>25, <1>26
     DEF Publish!Next, Publish!ReviewStep, Publish!SyncStep, Publish!RepairStep

LEMMA PubInvStays == PubInv /\ PubFlags /\ [Publish!Next]_Publish!pubVars =>
                        PubInv' /\ PubFlags'
  BY PubTypedStays, ReviewsStay, RepairKnowsStays, ShownStays, PubFlagsStay DEF PubInv

LEMMA PubStarts == Publish!Init => PubInv /\ PubFlags
<1> SUFFICES ASSUME Publish!Init PROVE PubInv /\ PubFlags
  OBVIOUS
<1>1. PubTyped
  BY PubBound DEF Publish!Init, PubTyped, Publish!Statuses, Publish!Requested, Publish!Actions
<1>2. Reviews /\ RepairKnows /\ Shown
  BY DEF Publish!Init, Reviews, RepairKnows, Shown
<1>3. snap \in [node : BOOLEAN, dead : BOOLEAN, approved : BOOLEAN]
  BY DEF Publish!Init, Publish!Nothing
<1>4. PubFlags
  BY <1>3, Zenon DEF Publish!Init, PubFlags
<1> QED BY <1>1, <1>2, <1>4 DEF PubInv

LEMMA PubInSum ==
    (SumInit => Publish!Init) /\ ([SumNext]_allVars => [Publish!Next]_Publish!pubVars)
  BY DEF SumInit, SumNext, allVars, pubVars, Publish!pubVars

LEMMA PubInvHolds == SumSpec => [](PubInv /\ PubFlags)
<1>1. SumInit => PubInv /\ PubFlags
  BY PubInSum, PubStarts
<1>2. PubInv /\ PubFlags /\ [SumNext]_allVars => (PubInv /\ PubFlags)'
  BY PubInSum, PubInvStays
<1> QED BY <1>1, <1>2, PTL DEF SumSpec

\* When nothing is under way, what is approved is in the graph and what is rejected
\* is marked so, but for failed, stale and unchecked writes, for any number of
\* requests (the review routes, graph_sync, reconcile_all).
THEOREM ReviewIsShown == SumSpec => []GraphShowsReview
<1>1. PubInv => GraphShowsReview
  BY DEF PubInv, Shown, Pending, Missed, GraphShowsReview, Publish!GraphShowsReview,
         Publish!Quiet
<1> QED BY <1>1, PubInvHolds, PTL

\* A reconciliation during which nothing else changed leaves exactly the approved
\* entity in the graph, whatever failed before it (reconcile_all).
THEOREM ReconciliationAligns == SumSpec => ReconcileAligns
<1>1. PubInv /\ [SumNext]_allVars =>
        [Publish!RepairBare /\ ~touched => Publish!Aligned']_Publish!pubVars
  <2> SUFFICES ASSUME PubInv, Publish!RepairBare, ~touched PROVE Publish!Aligned'
    OBVIOUS
  <2>1. /\ record' = record /\ dead' = dead
        /\ node' = IF bare /\ snap.approved THEN Publish!Merged ELSE node
        /\ bare' = (bare /\ ~snap.approved /\ record \in {"absent", "approved"})
    BY DEF Publish!RepairBare
  <2>2. (snap.approved <=> record = "approved") /\ (node # "none" <=> snap.approved) /\ ~dead
    BY DEF PubInv, RepairKnows, Publish!RepairBare
  <2>3. node' # "none" <=> snap.approved
    BY <2>1, <2>2 DEF Publish!Merged
  <2>4. record \in Publish!Statuses => ~bare'
    BY <2>1, <2>2 DEF Publish!Statuses
  <2> QED BY <2>1, <2>2, <2>3, <2>4 DEF Publish!Aligned, Publish!Statuses
<1> QED BY <1>1, PubInvHolds, PTL DEF SumSpec, ReconcileAligns, Publish!ReconcileAligns

-----------------------------------------------------------------------------
(* All services.                                                           *)

LEMMA CallsInSum == (SumInit => Init) /\ ([SumNext]_allVars => [Next]_vars)
  BY DEF SumInit, SumNext, allVars

\* Every service keeps the types of its variables and its limits: the connections
\* per address and in all, the streams, the polls under way.
THEOREM AllTypesAreOK == SumSpec => []AllTypesOK
<1>1. SumSpec => []TypeOK
  <2>1. SumInit => TypeOK
    BY CallsInSum, CostInit DEF CostInv
  <2>2. TypeOK /\ [SumNext]_allVars => TypeOK'
    BY CallsInSum, TypeStep
  <2> QED BY <2>1, <2>2, PTL DEF SumSpec
<1>2. SumSpec => []Sse!TypeOK
  <2>1. SseInv => Sse!TypeOK
    BY DEF SseInv
  <2>2. SumInit => SseInv
    BY SseInSum, SseStarts
  <2>3. SseInv /\ [SumNext]_allVars => SseInv'
    BY SseInSum, SseStays
  <2> QED BY <2>1, <2>2, <2>3, PTL DEF SumSpec
<1>3. SumSpec => []Plan!TypeOK
  <2>1. PlanInv => Plan!TypeOK
    BY DEF PlanInv, PlanRequest, Plan!TypeOK
  <2>2. SumInit => PlanInv
    BY PlanInSum, PlanStarts
  <2>3. PlanInv /\ [SumNext]_allVars => PlanInv'
    BY PlanInSum, PlanStays
  <2> QED BY <2>1, <2>2, <2>3, PTL DEF SumSpec
<1>4. SumSpec => []Loop!TypeOK
  <2>1. LoopInv => Loop!TypeOK
    BY DEF LoopInv
  <2>2. SumInit => LoopInv
    BY LoopInSum, LoopStarts
  <2>3. LoopInv /\ [SumNext]_allVars => LoopInv'
    BY LoopInSum, LoopStays
  <2> QED BY <2>1, <2>2, <2>3, PTL DEF SumSpec
<1>5. SumSpec => []Publish!TypeOK
  <2>1. PubInv /\ PubFlags => Publish!TypeOK
    BY DEF PubInv, PubTyped, PubFlags, Publish!TypeOK
  <2> QED BY <2>1, PubInvHolds, PTL
<1>6. SumSpec => []Feed!TypeOK
  <2>1. FeedInv /\ FeedFlags => Feed!TypeOK
    <3>1. FeedFlags => {retryTimer, pollTimer, sseTimer, refreshing, renewable, disposed}
                           \subseteq BOOLEAN
      BY DEF FeedFlags
    <3> QED BY <3>1 DEF FeedInv, FeedTyped, Feed!TypeOK
  <2>2. SumInit => FeedInv /\ FeedFlags
    BY FeedInSum, FeedStarts
  <2>3. FeedInv /\ [SumNext]_allVars => FeedInv'
    BY FeedInSum, FeedStays
  <2>4. FeedFlags /\ [SumNext]_allVars => FeedFlags'
    BY FeedInSum, FeedFlagsStay
  <2> QED BY <2>1, <2>2, <2>3, <2>4, PTL DEF SumSpec
<1> QED BY <1>1, <1>2, <1>3, <1>4, <1>5, <1>6, PTL DEF AllTypesOK

=============================================================================
