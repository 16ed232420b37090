---------------------------- MODULE RecordsProofs ----------------------------
(***************************************************************************)
(* Theorems about records that MCRecords puts side by side: the outbox of  *)
(* the graph, the spiders, the versions of a prompt, and the pages - the   *)
(* events they poll for, the session of their tab, what they show of the   *)
(* graph and the overview they ask for.  For each the inductive invariant  *)
(* of its own steps, then the property of the sum, in which a step on      *)
(* another record leaves its variables alone.  At the end the types of all *)
(* the records, those of PostingsProofs and AccountsProofs included.       *)
(***************************************************************************)
EXTENDS PostingsProofs, AccountsProofs, FiniteSetTheorems, SequenceTheorems,
        WellFoundedInduction, TLAPS

-----------------------------------------------------------------------------
(* The records of a position on their way to the graph.                    *)

OutboxTyped ==
    /\ Outbox!TypeOK
    /\ \A r \in Executions : since[r] <= records /\ read[r] \subseteq 1..records
    /\ writing \subseteq 1..records

\* Run r still has record n before it.
Owes(r, n) ==
    /\ n > since[r]
    /\ \/ runStage[r] \in {"import", "graph_sync"}
       \/ runStage[r] = "write" /\ n \in read[r]

\* A record of an approved position is written, given up, or somebody's task.
Watched(n) ==
    \/ n \in written \cup lost
    \/ approval = "committed"
    \/ approval = "write" /\ n \in writing
    \/ \E r \in Executions : Owes(r, n)

OutboxInv == OutboxTyped /\ (approved => \A n \in 1..records : Watched(n))

LEMMA OutboxBounds == MaxRecords \in Nat /\ ApprovalLimit \in Nat
  BY RecordsAssumptions DEF Outbox!OutboxAssumption

LEMMA OutboxStarts == Outbox!Init => OutboxInv
<1> SUFFICES ASSUME Outbox!Init PROVE OutboxInv
  OBVIOUS
<1>1. Outbox!TypeOK
  <2>1. records \in 0..MaxRecords /\ since \in [Executions -> 0..MaxRecords]
    BY OutboxBounds DEF Outbox!Init
  <2>2. /\ runStage \in [Executions -> {"new", "import", "graph_sync", "write", "ended"}]
        /\ read \in [Executions -> SUBSET Outbox!Numbers]
        /\ outbox \in [Executions -> {"none", "pending", "completed", "failed"}]
    BY DEF Outbox!Init
  <2> QED BY <2>1, <2>2 DEF Outbox!Init, Outbox!TypeOK
<1>2. \A r \in Executions : since[r] <= records /\ read[r] \subseteq 1..records
  BY DEF Outbox!Init
<1> QED BY <1>1, <1>2 DEF Outbox!Init, OutboxInv, OutboxTyped

\* A step of run w that creates no record and gives up or writes what w owes.
LEMMA StillWatched ==
    ASSUME OutboxInv, NEW w \in Executions,
           approved', approved, records' = records, approval' = approval, writing' = writing,
           written \subseteq written', lost \subseteq written' \cup lost',
           \A r \in Executions \ {w} :
                since'[r] = since[r] /\ runStage'[r] = runStage[r] /\ read'[r] = read[r],
           \A n \in 1..records : Owes(w, n) => Owes(w, n)' \/ n \in written' \cup lost'
    PROVE  \A n \in 1..records' : Watched(n)'
<1> SUFFICES ASSUME NEW n \in 1..records PROVE Watched(n)'
  OBVIOUS
<1>1. Watched(n)
  BY DEF OutboxInv
<1>2. ASSUME NEW r \in Executions, Owes(r, n) PROVE Watched(n)'
  BY <1>2 DEF Watched, Owes
<1> QED BY <1>1, <1>2 DEF Watched

LEMMA OutboxTypedStays == OutboxTyped /\ [Outbox!Next]_Outbox!vars => OutboxTyped'
<1> SUFFICES ASSUME OutboxTyped, [Outbox!Next]_Outbox!vars PROVE OutboxTyped'
  OBVIOUS
<1>0. /\ MaxRecords \in Nat /\ records \in 0..MaxRecords
      /\ 1..records \subseteq 1..MaxRecords /\ \A r \in Executions : since[r] \in Nat
  BY OutboxBounds DEF OutboxTyped, Outbox!TypeOK
<1> USE DEF OutboxTyped, Outbox!TypeOK, Outbox!Numbers
<1>1. ASSUME NEW r \in Executions, Outbox!StartRun(r) PROVE OutboxTyped'
  BY <1>0, <1>1 DEF Outbox!StartRun, Outbox!approvalVars
<1>2. ASSUME NEW r \in Executions, Outbox!Extract(r) PROVE OutboxTyped'
  BY <1>0, <1>2 DEF Outbox!Extract, Outbox!approvalVars, Outbox!runVars
<1>3. ASSUME NEW r \in Executions, Outbox!BeginSync(r) PROVE OutboxTyped'
  BY <1>0, <1>3 DEF Outbox!BeginSync, Outbox!approvalVars
<1>4. ASSUME NEW r \in Executions, Outbox!LoadRecords(r) PROVE OutboxTyped'
  <2>1. PICK set \in {Outbox!Recent(r), 1..records} :
            read' = [read EXCEPT ![r] = IF approved THEN set ELSE {}]
    BY <1>4 DEF Outbox!LoadRecords
  <2>2. set \subseteq 1..records
    BY <1>0, <2>1 DEF Outbox!Recent
  <2> QED BY <1>0, <1>4, <2>1, <2>2 DEF Outbox!LoadRecords, Outbox!approvalVars
<1>5. ASSUME NEW r \in Executions, NEW ok \in SUBSET read[r], NEW result \in {"completed", "failed", "pending"},
             Outbox!Write(read[r], ok), Outbox!EndSync(r, result) PROVE OutboxTyped'
  <2>1. written' \subseteq 1..records /\ lost' \subseteq 1..MaxRecords
    BY <1>0, <1>5 DEF Outbox!Write
  <2> QED BY <1>0, <1>5, <2>1 DEF Outbox!EndSync, Outbox!approvalVars
<1>6. ASSUME NEW r \in Executions, Outbox!RunDies(r) PROVE OutboxTyped'
  <2>0. Outbox!Recent(r) \subseteq 1..MaxRecords
    BY <1>0 DEF Outbox!Recent
  <2>1. written' = written /\ lost' \subseteq 1..MaxRecords
    BY <1>0, <1>6, <2>0 DEF Outbox!RunDies, Outbox!GiveUp
  <2> QED BY <1>0, <1>6, <2>1 DEF Outbox!RunDies, Outbox!EndSync, Outbox!approvalVars
<1>7. CASE Outbox!ExtractAlone
  <2>1. lost' \subseteq 1..MaxRecords
    BY <1>0, <1>7 DEF Outbox!ExtractAlone
  <2> QED BY <1>0, <1>7, <2>1 DEF Outbox!ExtractAlone, Outbox!approvalVars, Outbox!runVars
<1>8. CASE Outbox!Approve
  BY <1>8 DEF Outbox!Approve, Outbox!runVars
<1>9. CASE Outbox!LoadForApproval
  <2>1. writing' \subseteq 1..records
    BY <1>9 DEF Outbox!LoadForApproval, Outbox!Newest
  <2>2. lost' \subseteq 1..MaxRecords
    BY <1>0, <1>9 DEF Outbox!LoadForApproval, Outbox!Newest
  <2> QED BY <1>0, <1>9, <2>1, <2>2 DEF Outbox!LoadForApproval, Outbox!runVars
<1>10. CASE Outbox!WriteForApproval
  <2>1. written' \subseteq 1..records /\ lost' \subseteq 1..MaxRecords
    BY <1>0, <1>10 DEF Outbox!WriteForApproval, Outbox!Write
  <2> QED BY <1>0, <1>10, <2>1 DEF Outbox!WriteForApproval, Outbox!runVars
<1>11. CASE Outbox!ApprovalDies
  <2>1. written' = written /\ lost' \subseteq 1..MaxRecords
    BY <1>0, <1>11 DEF Outbox!ApprovalDies, Outbox!GiveUp
  <2> QED BY <1>0, <1>11, <2>1 DEF Outbox!ApprovalDies, Outbox!runVars
<1>12. CASE Outbox!Unpublish
  BY <1>12 DEF Outbox!Unpublish, Outbox!runVars, Outbox!approvalVars
<1>13. CASE UNCHANGED Outbox!vars
  BY <1>13 DEF Outbox!vars, Outbox!runVars, Outbox!approvalVars
<1>14. ASSUME NEW r \in Executions, Outbox!WriteRecords(r) \/ Outbox!SyncFails(r) PROVE OutboxTyped'
  BY <1>5, <1>14 DEF Outbox!WriteRecords, Outbox!SyncFails
<1> QED BY <1>1, <1>2, <1>3, <1>4, <1>6, <1>7, <1>8, <1>9, <1>10, <1>11, <1>12, <1>13, <1>14
        DEF Outbox!Next, Outbox!RunStep

LEMMA OutboxStays == OutboxInv /\ [Outbox!Next]_Outbox!vars => OutboxInv'
<1> SUFFICES ASSUME OutboxInv, [Outbox!Next]_Outbox!vars, approved'
             PROVE  \A n \in 1..records' : Watched(n)'
  BY OutboxTypedStays DEF OutboxInv
<1>0. /\ records \in Nat /\ MaxRecords \in Nat
      /\ runStage \in [Executions -> {"new", "import", "graph_sync", "write", "ended"}]
      /\ since \in [Executions -> Nat] /\ read \in [Executions -> SUBSET (1..records)]
      /\ \A r \in Executions : since[r] <= records
  BY OutboxBounds DEF OutboxInv, OutboxTyped, Outbox!TypeOK
<1>1. ASSUME NEW r \in Executions, Outbox!StartRun(r) PROVE \A n \in 1..records' : Watched(n)'
  <2>1. \A n \in 1..records : ~Owes(r, n)
    BY <1>1 DEF Outbox!StartRun, Owes
  <2> QED BY <1>0, <1>1, <2>1, StillWatched DEF Outbox!StartRun, Outbox!approvalVars
<1>2. ASSUME NEW r \in Executions, Outbox!Extract(r) PROVE \A n \in 1..records' : Watched(n)'
  <2>1. records' = records + 1
    BY <1>2 DEF Outbox!Extract
  <2>2. ASSUME NEW n \in 1..records PROVE Watched(n)'
    BY <1>2 DEF Outbox!Extract, Outbox!runVars, Outbox!approvalVars, OutboxInv, Watched, Owes
  <2>3. ASSUME NEW n \in Nat, n = records + 1 PROVE Watched(n)'
    BY <1>0, <1>2, <2>3 DEF Outbox!Extract, Outbox!runVars, Owes, Watched
  <2>4. \A n \in 1..records' : n \in 1..records \/ n = records + 1
    BY <1>0, <2>1
  <2> QED BY <2>2, <2>3, <2>4
<1>3. ASSUME NEW r \in Executions, Outbox!BeginSync(r) PROVE \A n \in 1..records' : Watched(n)'
  <2>1. \A n \in 1..records : Owes(r, n) => Owes(r, n)'
    BY <1>0, <1>3 DEF Outbox!BeginSync, Owes
  <2> QED BY <1>0, <1>3, <2>1, StillWatched DEF Outbox!BeginSync, Outbox!approvalVars
<1>4. ASSUME NEW r \in Executions, Outbox!LoadRecords(r) PROVE \A n \in 1..records' : Watched(n)'
  <2>1. approved
    BY <1>4 DEF Outbox!LoadRecords
  <2>2. PICK set \in {Outbox!Recent(r), 1..records} : read' = [read EXCEPT ![r] = set]
    BY <1>4, <2>1 DEF Outbox!LoadRecords
  <2>3. \A n \in 1..records : Owes(r, n) => Owes(r, n)'
    BY <1>0, <1>4, <2>2 DEF Outbox!LoadRecords, Outbox!Recent, Owes
  <2> QED BY <1>0, <1>4, <2>1, <2>2, <2>3, StillWatched
          DEF Outbox!LoadRecords, Outbox!approvalVars
<1>5. ASSUME NEW r \in Executions, NEW ok \in SUBSET read[r], runStage[r] = "write",
             NEW result, Outbox!Write(read[r], ok), Outbox!EndSync(r, result)
      PROVE  \A n \in 1..records' : Watched(n)'
  <2>1. \A n \in 1..records : Owes(r, n) => n \in written' \cup lost'
    BY <1>5 DEF Outbox!Write, Owes
  <2>2. written \subseteq written' /\ lost \subseteq written' \cup lost'
    BY <1>5 DEF Outbox!Write
  <2> QED BY <1>0, <1>5, <2>1, <2>2, StillWatched DEF Outbox!EndSync, Outbox!approvalVars
<1>6. ASSUME NEW r \in Executions, Outbox!RunDies(r) PROVE \A n \in 1..records' : Watched(n)'
  <2>1. approved
    BY <1>6 DEF Outbox!RunDies, Outbox!EndSync
  <2>2. written' = written /\ lost' = (lost \cup Outbox!Recent(r)) \ written
    BY <1>6, <2>1 DEF Outbox!RunDies, Outbox!GiveUp
  <2>3. \A n \in 1..records : Owes(r, n) => n \in written' \cup lost'
    BY <1>0, <2>2 DEF Owes, Outbox!Recent
  <2> QED BY <1>0, <1>6, <2>1, <2>2, <2>3, StillWatched
          DEF Outbox!RunDies, Outbox!EndSync, Outbox!approvalVars
<1>7. CASE Outbox!ExtractAlone
  <2>1. records' = records + 1 /\ lost' = lost \cup {records + 1} /\ approved
    BY <1>7 DEF Outbox!ExtractAlone
  <2>2. ASSUME NEW n \in 1..records PROVE Watched(n)'
    BY <1>7, <2>1 DEF Outbox!ExtractAlone, Outbox!runVars, Outbox!approvalVars,
                      OutboxInv, Watched, Owes
  <2>3. ASSUME NEW n \in Nat, n = records + 1 PROVE Watched(n)'
    BY <2>1, <2>3 DEF Watched
  <2>4. \A n \in 1..records' : n \in 1..records \/ n = records + 1
    BY <1>0, <2>1
  <2> QED BY <2>2, <2>3, <2>4
<1>8. CASE Outbox!Approve
  BY <1>8 DEF Outbox!Approve, Watched
<1>9. CASE Outbox!LoadForApproval
  <2>1. \A n \in 1..records : n \in writing' \cup lost' \cup written'
    BY <1>9 DEF Outbox!LoadForApproval
  <2> QED BY <1>9, <2>1 DEF Outbox!LoadForApproval, Watched
<1>10. CASE Outbox!WriteForApproval
  <2>1. PICK ok \in SUBSET writing : Outbox!Write(writing, ok)
    BY <1>10 DEF Outbox!WriteForApproval
  <2>2. /\ written \subseteq written' /\ lost \subseteq written' \cup lost'
        /\ writing \subseteq written' \cup lost'
    BY <2>1 DEF Outbox!Write
  <2> QED BY <1>10, <2>2
          DEF Outbox!WriteForApproval, Outbox!runVars, OutboxInv, Watched, Owes
<1>11. CASE Outbox!ApprovalDies
  <2>1. \A n \in 1..records : n \in written' \cup lost'
    BY <1>11 DEF Outbox!ApprovalDies, Outbox!GiveUp
  <2> QED BY <1>11, <2>1 DEF Outbox!ApprovalDies, Watched
<1>12. ~Outbox!Unpublish
  BY DEF Outbox!Unpublish
<1>13. CASE UNCHANGED Outbox!vars
  BY <1>13 DEF Outbox!vars, Outbox!runVars, Outbox!approvalVars, OutboxInv, Watched, Owes
<1>14. ASSUME NEW r \in Executions, Outbox!WriteRecords(r) \/ Outbox!SyncFails(r)
       PROVE  \A n \in 1..records' : Watched(n)'
  BY <1>5, <1>14 DEF Outbox!WriteRecords, Outbox!SyncFails
<1> QED BY <1>1, <1>2, <1>3, <1>4, <1>6, <1>7, <1>8, <1>9, <1>10, <1>11, <1>12, <1>13, <1>14
        DEF Outbox!Next, Outbox!RunStep

LEMMA OutboxInSum ==
    (SumInit => Outbox!Init) /\ ([SumNext]_allVars => [Outbox!Next]_Outbox!vars)
  BY DEF SumInit, SumNext, allVars, outboxVars, Outbox!vars, Outbox!runVars,
         Outbox!approvalVars

LEMMA OutboxHolds == SumSpec => []OutboxInv
<1>1. SumInit => OutboxInv
  BY OutboxInSum, OutboxStarts
<1>2. OutboxInv /\ [SumNext]_allVars => OutboxInv'
  BY OutboxInSum, OutboxStays
<1> QED BY <1>1, <1>2, PTL DEF SumSpec

\* When no run and no approval is under way, every record of an approved position is in
\* the graph or has been given up, for any number of runs that start, die and overlap
\* with an approval (graph_sync, sync_approved_position_to_graph).
THEOREM RecordsReachTheGraph == SumSpec => []RecordsInGraph
<1>1. OutboxInv => RecordsInGraph
  BY DEF OutboxInv, Watched, Owes, RecordsInGraph, Outbox!RecordsInGraph
<1> QED BY <1>1, OutboxHolds, PTL

-----------------------------------------------------------------------------
(* The spiders and their fetch.                                            *)

Places == {"idle", "page", "request", "asked", "retry_wait", "final_wait", "answered",
           "failed", "returned"}
Fetching == {"request", "asked", "retry_wait", "final_wait", "answered", "failed"}

WebTyped ==
    /\ spider \in [Threads -> Web!Kinds \cup {"none"}]
    /\ pages \in [Threads -> Seq({"needed", "extra"})]
    /\ fetch \in [Threads -> Places]
    /\ attempt \in [Threads -> 0..2]
    /\ via \in [Threads -> Proxies \cup {Direct}]
    /\ last \in [Threads -> Nat]
    /\ deadProxies \subseteq Proxies
    /\ clock \in Nat
    /\ asked \in [Web!Kinds -> Nat]
    /\ \A t \in Threads : last[t] <= clock
    /\ \A k \in Web!Kinds : asked[k] <= clock
    /\ \A t \in Threads : fetch[t] \in Fetching => pages[t] # <<>>
    /\ \A t \in Threads : fetch[t] \in {"request", "asked", "retry_wait"} => attempt[t] < 2

\* When proxies refuse, a fetch fails once: the second time it has none.
DirectAgain ==
    weather = "proxies_down" =>
        /\ gaveUp = {}
        /\ \A t \in Threads :
              /\ fetch[t] \notin {"failed", "retry_wait"}
              /\ fetch[t] \in {"request", "asked"} => attempt[t] = 0 \/ via[t] = Direct

WebInv == WebTyped /\ DirectAgain

LEMMA WebBounds == Sleep \in Nat /\ Topics \in Nat /\ MaxTime \in Nat
  BY RecordsAssumptions DEF Web!SpidersAssumption

LEMMA WebStarts == Web!Init => WebInv
<1> SUFFICES ASSUME Web!Init PROVE WebInv
  OBVIOUS
<1>1. <<>> \in Seq({"needed", "extra"})
  OBVIOUS
<1>2. pages \in [Threads -> Seq({"needed", "extra"})]
  BY <1>1, Zenon DEF Web!Init
<1> QED BY <1>2, WebBounds DEF Web!Init, WebInv, WebTyped, DirectAgain, Places, Fetching

LEMMA WebStartStep ==
    ASSUME WebInv, NEW t \in Threads, Web!Start(t) PROVE WebInv'
<1>1. Web!Extras \in Seq({"needed", "extra"})
  BY WebBounds DEF Web!Extras
<1>2. /\ <<"needed">> \o Web!Extras \in Seq({"needed", "extra"})
      /\ <<"needed", "needed">> \o Web!Extras \in Seq({"needed", "extra"})
      /\ <<"needed">> \in Seq({"needed", "extra"})
  <2>1. <<"needed">> \in Seq({"needed", "extra"}) /\ <<"needed", "needed">> \in Seq({"needed", "extra"})
    OBVIOUS
  <2> QED BY <1>1, <2>1
<1>3. PICK made \in Seq({"needed", "extra"}) : pages' = [pages EXCEPT ![t] = made]
  BY <1>2 DEF Web!Start, Web!RunV2ex, Web!RunJuejin, Web!RunOnePage
<1>4. PICK kind \in Web!Kinds : spider' = [spider EXCEPT ![t] = kind]
  BY DEF Web!Start, Web!RunV2ex, Web!RunJuejin, Web!RunOnePage, Web!Kinds
<1>5. fetch' = [fetch EXCEPT ![t] = "page"]
  BY DEF Web!Start, Web!Goto
<1>6. UNCHANGED <<attempt, via, last, deadProxies, clock, asked, gaveUp, weather>>
  BY DEF Web!Start, Web!fetchVars
<1> HIDE DEF Web!Extras
<1> QED BY <1>3, <1>4, <1>5, <1>6 DEF WebInv, WebTyped, DirectAgain, Places, Fetching

LEMMA WebWait ==
    ASSUME NEW t \in Threads, NEW rest \in {"retry_wait", "final_wait"}, Web!Wait(t, rest),
           last \in [Threads -> Nat], clock \in Nat, \A u \in Threads : last[u] <= clock
    PROVE  /\ \E place \in {rest, IF rest = "retry_wait" THEN "request" ELSE "answered"} :
                 fetch' = [fetch EXCEPT ![t] = place]
           /\ last' \in [Threads -> Nat] /\ \A u \in Threads : last'[u] <= clock
<1>1. CASE Web!MustSleep(t)
  BY <1>1 DEF Web!Wait, Web!Goto
<1>2. CASE ~Web!MustSleep(t)
  <2>1. last' = [last EXCEPT ![t] = clock]
    BY <1>2 DEF Web!Wait
  <2>2. fetch' = [fetch EXCEPT ![t] = IF rest = "retry_wait" THEN "request" ELSE "answered"]
    BY <1>2 DEF Web!Wait, Web!Goto
  <2>3. last' \in [Threads -> Nat] /\ \A u \in Threads : last'[u] <= clock
    BY <2>1
  <2> QED BY <2>2, <2>3
<1> QED BY <1>1, <1>2

\* Another attempt, or none after the second.
LEMMA WebRetry ==
    ASSUME NEW t \in Threads, NEW place \in Places, WebTyped, fetch[t] = "asked",
           fetch' = [fetch EXCEPT ![t] = place],
           attempt' = [attempt EXCEPT ![t] = @ + 1],
           attempt[t] # 0 => place = "failed"
    PROVE  /\ fetch' \in [Threads -> Places] /\ attempt' \in [Threads -> 0..2]
           /\ \A u \in Threads :
                 fetch'[u] \in {"request", "asked", "retry_wait"} => attempt'[u] < 2
<1>0. /\ fetch \in [Threads -> Places] /\ attempt \in [Threads -> 0..2] /\ attempt[t] < 2
      /\ \A u \in Threads :
            fetch[u] \in {"request", "asked", "retry_wait"} => attempt[u] < 2
  BY DEF WebTyped
<1> HIDE DEF WebTyped
<1>1. attempt[t] + 1 \in 0..2
  BY <1>0
<1>2. attempt' \in [Threads -> 0..2] /\ attempt'[t] = attempt[t] + 1
  BY <1>0, <1>1
<1>3. fetch' \in [Threads -> Places] /\ fetch'[t] = place
  BY <1>0
<1>4. ASSUME NEW u \in Threads, fetch'[u] \in {"request", "asked", "retry_wait"}
      PROVE  attempt'[u] < 2
  <2>1. CASE u = t
    BY <1>0, <1>2, <1>3, <1>4, <2>1
  <2>2. CASE u # t
    BY <1>0, <1>4, <2>2
  <2> QED BY <2>1, <2>2
<1> QED BY <1>2, <1>3, <1>4

LEMMA WebStep ==
    ASSUME WebInv, NEW t \in Threads, Web!Step(t) PROVE WebInv'
<1>0. WebTyped /\ DirectAgain
  BY DEF WebInv
<1>00. /\ last \in [Threads -> Nat] /\ clock \in Nat /\ \A u \in Threads : last[u] <= clock
       /\ asked \in [Web!Kinds -> Nat] /\ \A k \in Web!Kinds : asked[k] <= clock
       /\ pages[t] \in Seq({"needed", "extra"})
       /\ \A u \in Threads : fetch[u] \in Fetching => pages[u] # <<>>
  BY <1>0 DEF WebTyped
<1>1. CASE Web!Fetch(t)
  <2>1. PICK p \in Proxies \cup {Direct} : via' = [via EXCEPT ![t] = p]
    BY <1>1 DEF Web!Fetch, Web!ChooseProxy
  <2> QED BY <1>0, <1>1, <2>1
          DEF Web!Fetch, Web!Goto, WebInv, WebTyped, DirectAgain, Places, Fetching
<1>2. CASE Web!Request(t)
  <2>1. asked' = [asked EXCEPT ![spider[t]] = clock]
    BY <1>2 DEF Web!Request
  <2>2. asked' \in [Web!Kinds -> Nat] /\ \A k \in Web!Kinds : asked'[k] <= clock
    <3>1. PICK f \in [Web!Kinds -> Nat] : f = asked
      BY <1>00
    <3>2. ASSUME NEW k \in Web!Kinds PROVE [f EXCEPT ![spider[t]] = clock][k] \in {clock, f[k]}
      BY <3>1
    <3>3. [f EXCEPT ![spider[t]] = clock] \in [Web!Kinds -> Nat]
      BY <1>00, <3>1, <3>2
    <3>4. ASSUME NEW k \in Web!Kinds PROVE asked'[k] <= clock
      BY <1>00, <2>1, <3>1, <3>2
    <3> QED BY <2>1, <3>1, <3>3, <3>4
  <2> QED BY <1>0, <1>2, <2>2
      DEF Web!Request, Web!Goto, Web!fetchVars, WebInv, WebTyped, DirectAgain, Places, Fetching
<1>4. CASE Web!Answered(t)
  <2>1. Web!Wait(t, "final_wait")
    BY <1>4 DEF Web!Answered
  <2>2. PICK place \in {"final_wait", "answered"} : fetch' = [fetch EXCEPT ![t] = place]
    BY <1>00, <2>1, WebWait
  <2>3. last' \in [Threads -> Nat] /\ \A u \in Threads : last'[u] <= clock
    BY <1>00, <2>1, WebWait
  <2> QED BY <1>0, <1>4, <2>2, <2>3
          DEF Web!Answered, WebInv, WebTyped, DirectAgain, Places, Fetching
<1>5. CASE Web!Refused(t)
  <2>1. /\ via' = [via EXCEPT ![t] = Direct] /\ attempt' = [attempt EXCEPT ![t] = @ + 1]
        /\ deadProxies' = deadProxies \cup {via[t]} /\ via[t] # Direct
        /\ fetch[t] = "asked"
        /\ fetch' = [fetch EXCEPT ![t] = IF attempt[t] = 0 THEN "request" ELSE "failed"]
        /\ UNCHANGED <<spider, pages, last, clock, asked, gaveUp, weather>>
    BY <1>5 DEF Web!Refused, Web!Downgraded, Web!Goto
  <2>2. weather = "proxies_down" => attempt[t] = 0
    BY <1>0, <2>1 DEF DirectAgain
  <2>3. PICK place \in {"request", "failed"} :
            fetch' = [fetch EXCEPT ![t] = place] /\ (attempt[t] # 0 => place = "failed")
    BY <2>1
  <2>4. /\ fetch' \in [Threads -> Places] /\ attempt' \in [Threads -> 0..2]
        /\ \A u \in Threads :
              fetch'[u] \in {"request", "asked", "retry_wait"} => attempt'[u] < 2
    BY <1>0, <2>1, <2>3, WebRetry DEF Places
  <2>5. /\ via' \in [Threads -> Proxies \cup {Direct}] /\ deadProxies' \subseteq Proxies
    BY <1>0, <2>1 DEF WebTyped
  <2>6. \A u \in Threads : fetch'[u] \in Fetching => pages'[u] # <<>>
    <3>1. ASSUME NEW u \in Threads, fetch'[u] \in Fetching PROVE fetch[u] \in Fetching
      BY <1>0, <2>1, <3>1 DEF Fetching, WebTyped
    <3> QED BY <1>00, <2>1, <3>1
  <2>7. WebTyped'
    BY <1>0, <2>1, <2>4, <2>5, <2>6 DEF WebTyped
  <2>8. DirectAgain'
    BY <1>0, <2>1, <2>2 DEF DirectAgain, WebTyped
  <2> QED BY <2>7, <2>8 DEF WebInv
<1>6. CASE Web!Fails(t)
  <2>1. /\ attempt' = [attempt EXCEPT ![t] = @ + 1] /\ weather = "unstable"
        /\ fetch[t] = "asked"
        /\ UNCHANGED <<spider, pages, via, deadProxies, clock, asked, gaveUp, weather>>
        /\ \/ attempt[t] = 0 /\ Web!Wait(t, "retry_wait")
           \/ fetch' = [fetch EXCEPT ![t] = "failed"] /\ last' = last
    BY <1>6 DEF Web!Fails, Web!Goto
  <2>2. PICK place \in {"retry_wait", "request", "failed"} :
            fetch' = [fetch EXCEPT ![t] = place] /\ (attempt[t] # 0 => place = "failed")
    BY <1>00, <2>1, WebWait
  <2>3. last' \in [Threads -> Nat] /\ \A u \in Threads : last'[u] <= clock
    BY <1>00, <2>1, WebWait
  <2>4. /\ fetch' \in [Threads -> Places] /\ attempt' \in [Threads -> 0..2]
        /\ \A u \in Threads :
              fetch'[u] \in {"request", "asked", "retry_wait"} => attempt'[u] < 2
    BY <1>0, <2>1, <2>2, WebRetry DEF Places
  <2>6. \A u \in Threads : fetch'[u] \in Fetching => pages'[u] # <<>>
    <3>1. ASSUME NEW u \in Threads, fetch'[u] \in Fetching PROVE fetch[u] \in Fetching
      BY <1>0, <2>1, <2>2, <3>1 DEF Fetching, WebTyped
    <3> QED BY <1>00, <2>1, <3>1
  <2>7. WebTyped'
    BY <1>0, <2>1, <2>3, <2>4, <2>6 DEF WebTyped
  <2> QED BY <2>1, <2>7 DEF WebInv, DirectAgain
<1>7. CASE Web!WakeUp(t)
  BY <1>0, <1>7 DEF Web!WakeUp, Web!Goto, WebInv, WebTyped, DirectAgain, Places, Fetching
<1>8. ASSUME NEW rest \in Seq({"needed", "extra"}),
             pages' = [pages EXCEPT ![t] = rest], fetch' = [fetch EXCEPT ![t] = "page"],
             UNCHANGED <<spider, attempt, via, last, deadProxies, clock, asked, weather>>,
             weather = "proxies_down" => gaveUp' = {}
      PROVE  WebInv'
  BY <1>0, <1>8 DEF WebInv, WebTyped, DirectAgain, Places, Fetching
<1>9. CASE Web!PageLost(t)
  <2>1. fetch[t] \in {"failed", "answered"} /\ (weather = "proxies_down" => fetch[t] = "failed")
    BY <1>9 DEF Web!PageLost
  <2>2. Tail(pages[t]) \in Seq({"needed", "extra"}) /\ <<>> \in Seq({"needed", "extra"})
    BY <1>00, <2>1 DEF Fetching
  <2>3. PICK rest \in Seq({"needed", "extra"}) : pages' = [pages EXCEPT ![t] = rest]
    BY <1>9, <2>2 DEF Web!PageLost
  <2>4. weather # "proxies_down"
    BY <1>0, <2>1 DEF DirectAgain
  <2> QED BY <1>8, <1>9, <2>3, <2>4 DEF Web!PageLost, Web!Goto, Web!fetchVars
<1>10. CASE Web!PageRead(t)
  <2>1. fetch[t] = "answered"
    BY <1>10 DEF Web!PageRead
  <2>2. Tail(pages[t]) \in Seq({"needed", "extra"})
    BY <1>00, <2>1 DEF Fetching
  <2>3. pages' = [pages EXCEPT ![t] = Tail(pages[t])]
    BY <1>10 DEF Web!PageRead
  <2>4. weather = "proxies_down" => gaveUp' = {}
    BY <1>0, <1>10 DEF Web!PageRead, DirectAgain
  <2> QED BY <1>8, <1>10, <2>2, <2>3, <2>4 DEF Web!PageRead, Web!Goto, Web!fetchVars
<1>11. CASE Web!Return(t)
  BY <1>0, <1>11
     DEF Web!Return, Web!Goto, Web!fetchVars, WebInv, WebTyped, DirectAgain, Places, Fetching
<1> QED BY <1>1, <1>2, <1>4, <1>5, <1>6, <1>7, <1>9, <1>10, <1>11 DEF Web!Step

LEMMA WebStays == WebInv /\ [Web!Next]_Web!vars => WebInv'
<1> SUFFICES ASSUME WebInv, [Web!Next]_Web!vars PROVE WebInv'
  OBVIOUS
<1>1. CASE Web!Tick
  BY <1>1, WebBounds DEF Web!Tick, Web!fetchVars, WebInv, WebTyped, DirectAgain
<1>2. CASE UNCHANGED Web!vars
  BY <1>2 DEF Web!vars, Web!fetchVars, WebInv, WebTyped, DirectAgain
<1> QED BY <1>1, <1>2, WebStartStep, WebStep DEF Web!Next

LEMMA WebInSum == (SumInit => Web!Init) /\ ([SumNext]_allVars => [Web!Next]_Web!vars)
  BY DEF SumInit, SumNext, allVars, webVars, Web!vars, Web!fetchVars

LEMMA WebHolds == SumSpec => []WebInv
<1>1. SumInit => WebInv
  BY WebInSum, WebStarts
<1>2. WebInv /\ [SumNext]_allVars => WebInv'
  BY WebInSum, WebStays
<1> QED BY <1>1, <1>2, PTL DEF SumSpec

\* However many threads crawl through however many proxies that refuse every
\* connection, no thread gives up a page for it: the second attempt of a fetch has no
\* proxy (compliance.fetch, get_proxy, mark_proxy_dead).
THEOREM DeadProxiesAreHarmless == SumSpec => []DeadProxiesHarmless
<1>1. WebInv => DeadProxiesHarmless
  BY DEF WebInv, DirectAgain, DeadProxiesHarmless, Web!DeadProxiesHarmless
<1> QED BY <1>1, WebHolds, PTL

-----------------------------------------------------------------------------
(* The versions of a prompt.                                               *)

PromptRequest ==
    [step : {"create", "register", "activate", "mark"}, version : Versions,
     text : Templates \cup {""}, activate : BOOLEAN, seen : SUBSET Versions]

Changing == {a \in Requests : request[a].step # "idle"}

StepsTyped ==
    \A a \in Changing :
        /\ request[a].step \in {"create", "register"} => request[a].text \in Templates
        /\ request[a].step \in {"activate", "mark"} => request[a].activate

PromptTyped ==
    /\ Prompts!TypeOK /\ StepsTyped
    /\ builtin \in {{"v1"}, {}}
    /\ request \in [Requests -> PromptRequest \cup {Prompts!Idle}]

\* Two requests have different versions, and one of them at most activates its own.
Apart ==
    \A a, b \in Changing : a # b =>
        /\ request[a].version # request[b].version
        /\ ~(request[a].activate /\ request[b].activate)

\* The texts agree, but for a version that is about to be registered.
TextsAgree ==
    \A v \in Versions :
        \/ registry[v] = Prompts!MergedRegistry[v]
        \/ \E a \in Changing : request[a].step = "register" /\ request[a].version = v

Registered ==
    \A a \in Changing : request[a].step = "register" =>
        rows[request[a].version].text = request[a].text

\* One row at most is active, and a transaction knows it before it activates another.
OneActive ==
    /\ \A v, w \in Prompts!ActiveRows : v = w
    /\ \A a \in Changing : request[a].activate /\ request[a].step \in {"create", "mark"} =>
            Prompts!ActiveRows \subseteq request[a].seen

\* Memory and table name the same version, or a request is about to see to it.
ActiveAgree ==
    \/ Prompts!ActiveRows = {active} /\ active \in Versions
    \/ Prompts!ActiveRows = {} /\ active = IF builtin # {} THEN "v1" ELSE "absent"
    \/ \E a \in Changing : request[a].activate /\ request[a].step # "create"

ActivationSeen ==
    \A a \in Changing : request[a].activate =>
        /\ request[a].step = "register" => Prompts!ActiveRows = {request[a].version}
        /\ request[a].step \in {"activate", "mark"} => active = request[a].version

PromptInv ==
    PromptTyped /\ (~excused => /\ Apart /\ TextsAgree /\ Registered
                                /\ OneActive /\ ActiveAgree /\ ActivationSeen)

LEMMA PromptFacts ==
    /\ IsFiniteSet(Versions) /\ "v1" \in Versions
    /\ \A t \in Templates : t # "" /\ t # "absent"
    /\ Prompts!Absent = "absent" /\ Prompts!Idle.step = "idle"
    /\ Prompts!Idle \notin PromptRequest
<1>1. Prompts!Idle.step = "idle"
  BY DEF Prompts!Idle
<1>2. Prompts!Idle \notin PromptRequest
  BY <1>1 DEF PromptRequest
<1>3. IsFiniteSet(Versions) <=> Prompts!IsFiniteSet(Versions)
  BY DEF IsFiniteSet, Prompts!IsFiniteSet
<1> QED BY <1>1, <1>2, <1>3, RecordsAssumptions DEF Prompts!PromptAssumption, Prompts!Absent

\* What a request is, told from its step.
LEMMA RequestKinds ==
    ASSUME PromptTyped, NEW a \in Requests
    PROVE  /\ request[a] = Prompts!Idle <=> a \notin Changing
           /\ a \in Changing => request[a] \in PromptRequest
  BY PromptFacts DEF PromptTyped, Changing, PromptRequest

\* A transaction writes the text of one version and moves the mark.
LEMMA Committed ==
    ASSUME PromptTyped, NEW req \in PromptRequest, NEW text, Prompts!Commit(req, text)
    PROVE  /\ rows'[req.version].text = text
           /\ \A v \in Versions : v # req.version => rows'[v].text = rows[v].text
           /\ req.activate /\ Prompts!ActiveRows \subseteq req.seen =>
                Prompts!ActiveRows' = {req.version}
           /\ ~req.activate => Prompts!ActiveRows' = Prompts!ActiveRows
           /\ text \in Prompts!Contents =>
                rows' \in [Versions -> [text : Prompts!Contents, active : BOOLEAN]]
<1>1. rows \in [Versions -> [text : Prompts!Contents, active : BOOLEAN]]
      /\ req.version \in Versions /\ req.activate \in BOOLEAN
  BY DEF PromptTyped, Prompts!TypeOK, PromptRequest
<1>2. rows'[req.version] = [text |-> text, active |-> req.activate \/ rows[req.version].active]
  BY <1>1 DEF Prompts!Commit
<1>3. ASSUME NEW v \in Versions, v # req.version
      PROVE  rows'[v] = [rows[v] EXCEPT !.active = @ /\ ~(req.activate /\ v \in req.seen)]
  BY <1>1, <1>3 DEF Prompts!Commit
<1>4. ASSUME NEW v \in Versions, v # req.version
      PROVE  /\ rows'[v].text = rows[v].text
             /\ rows'[v].active = (rows[v].active /\ ~(req.activate /\ v \in req.seen))
             /\ rows'[v] \in [text : Prompts!Contents, active : BOOLEAN]
  <2>1. rows[v] \in [text : Prompts!Contents, active : BOOLEAN]
    BY <1>1
  <2> DEFINE mark == rows[v].active /\ ~(req.activate /\ v \in req.seen)
  <2>2. rows'[v] = [rows[v] EXCEPT !.active = mark] /\ mark \in BOOLEAN
    BY <1>3, <1>4
  <2> HIDE DEF mark
  <2>3. rows'[v].text = rows[v].text /\ rows'[v].active = mark
        /\ rows'[v] \in [text : Prompts!Contents, active : BOOLEAN]
    BY <2>1, <2>2
  <2> QED BY <2>3 DEF mark
<1>5. rows'[req.version].text = text
      /\ rows'[req.version].active = (req.activate \/ rows[req.version].active)
  BY <1>2
<1>6. Prompts!ActiveRows' = {v \in Versions : rows'[v].active}
  BY DEF Prompts!ActiveRows
<1>7. ASSUME req.activate, Prompts!ActiveRows \subseteq req.seen
      PROVE  Prompts!ActiveRows' = {req.version}
  <2>1. \A v \in Versions : v # req.version => ~rows'[v].active
    BY <1>4, <1>7 DEF Prompts!ActiveRows
  <2>2. rows'[req.version].active
    BY <1>5, <1>7
  <2> QED BY <1>1, <1>6, <2>1, <2>2
<1>8. ASSUME ~req.activate
      PROVE  Prompts!ActiveRows' = Prompts!ActiveRows
  <2>1. \A v \in Versions : rows'[v].active <=> rows[v].active
    BY <1>4, <1>5, <1>8
  <2> QED BY <1>6, <2>1 DEF Prompts!ActiveRows
<1>9. ASSUME text \in Prompts!Contents
      PROVE  rows' \in [Versions -> [text : Prompts!Contents, active : BOOLEAN]]
  <2>1. rows'[req.version] \in [text : Prompts!Contents, active : BOOLEAN]
    <3>1. (req.activate \/ rows[req.version].active) \in BOOLEAN
      OBVIOUS
    <3> QED BY <1>2, <1>9, <3>1
  <2>2. \A v \in Versions : rows'[v] \in [text : Prompts!Contents, active : BOOLEAN]
    BY <1>4, <2>1
  <2> QED BY <2>2 DEF Prompts!Commit
<1> QED BY <1>4, <1>5, <1>7, <1>8, <1>9


\* A request that begins, and one that ends.
LEMMA Begins ==
    ASSUME PromptTyped, NEW a \in Requests, NEW req \in PromptRequest, Prompts!Begin(a, req)
    PROVE  /\ a \notin Changing /\ Changing' = Changing \cup {a}
           /\ request' \in [Requests -> PromptRequest \cup {Prompts!Idle}]
           /\ request'[a] = req /\ \A b \in Changing : request'[b] = request[b]
           /\ excused' \in BOOLEAN /\ (~excused' => ~excused)
           /\ ~excused' => \A b \in Changing : /\ request[b].version # req.version
                                               /\ ~(req.activate /\ request[b].activate)
<1>1. a \notin Changing /\ request' = [request EXCEPT ![a] = req]
  BY RequestKinds DEF Prompts!Begin
<1>2. request \in [Requests -> PromptRequest \cup {Prompts!Idle}] /\ req.step # "idle"
  BY DEF PromptTyped, PromptRequest
<1>3. \A b \in Requests : request'[b] = IF b = a THEN req ELSE request[b]
  BY <1>1, <1>2
<1>4. Changing' = Changing \cup {a}
  BY <1>2, <1>3 DEF Changing
<1>5. excused' = (excused \/ Prompts!Overlaps(a, req.version, req.activate))
  BY DEF Prompts!Begin
<1>6. excused' \in BOOLEAN /\ (~excused' => ~excused)
  BY <1>5 DEF PromptTyped, Prompts!TypeOK
<1>7. ~excused' => \A b \in Changing : /\ request[b].version # req.version
                                       /\ ~(req.activate /\ request[b].activate)
  BY <1>1, <1>5, PromptFacts DEF Prompts!Overlaps, Changing
<1> QED BY <1>1, <1>2, <1>3, <1>4, <1>6, <1>7 DEF Changing

LEMMA Ends ==
    ASSUME PromptTyped, NEW a \in Requests, Prompts!End(a)
    PROVE  /\ Changing' = Changing \ {a}
           /\ request' \in [Requests -> PromptRequest \cup {Prompts!Idle}]
           /\ \A b \in Changing' : request'[b] = request[b]
  BY PromptFacts DEF PromptTyped, Prompts!End, Changing

\* A request that goes on to its next step.
LEMMA VersionGoesOn ==
    ASSUME PromptTyped, NEW a \in Changing, NEW req \in PromptRequest,
           request' = [request EXCEPT ![a] = req]
    PROVE  /\ Changing' = Changing /\ request'[a] = req
           /\ request' \in [Requests -> PromptRequest \cup {Prompts!Idle}]
           /\ \A b \in Changing : b # a => request'[b] = request[b]
<1>1. request \in [Requests -> PromptRequest \cup {Prompts!Idle}] /\ req.step # "idle"
  BY DEF PromptTyped, PromptRequest
<1>2. \A b \in Requests : request'[b] = IF b = a THEN req ELSE request[b]
  BY <1>1
<1>3. a \in Requests
  BY DEF Changing
<1> QED BY <1>1, <1>2, <1>3 DEF Changing

LEMMA PromptTypedStays == PromptTyped /\ [Prompts!Next]_Prompts!vars => PromptTyped'
<1> SUFFICES ASSUME PromptTyped, [Prompts!Next]_Prompts!vars PROVE PromptTyped'
  OBVIOUS
<1>0. /\ request \in [Requests -> PromptRequest \cup {Prompts!Idle}]
      /\ registry \in [Versions -> Prompts!Contents]
      /\ active \in Versions \cup {Prompts!Absent} /\ builtin \in {{"v1"}, {}}
      /\ rows \in [Versions -> [text : Prompts!Contents, active : BOOLEAN]]
      /\ excused \in BOOLEAN
      /\ StepsTyped
  BY DEF PromptTyped, Prompts!TypeOK
<1>a. ASSUME registry' \in [Versions -> Prompts!Contents],
             active' \in Versions \cup {Prompts!Absent}, builtin' = builtin,
             rows' \in [Versions -> [text : Prompts!Contents, active : BOOLEAN]],
             excused' \in BOOLEAN,
             request' \in [Requests -> PromptRequest \cup {Prompts!Idle}],
             StepsTyped'
      PROVE  PromptTyped'
  BY <1>0, <1>a, PromptFacts DEF PromptTyped, Prompts!TypeOK
<1>b. ASSUME NEW a \in Requests, Prompts!End(a)
      PROVE  /\ request' \in [Requests -> PromptRequest \cup {Prompts!Idle}]
             /\ StepsTyped'
  <2>1. /\ request' \in [Requests -> PromptRequest \cup {Prompts!Idle}]
        /\ \A b \in Changing' : b \in Changing /\ request'[b] = request[b]
    BY <1>b, Ends
  <2> QED BY <1>0, <2>1 DEF StepsTyped
<1>1. ASSUME NEW a \in Requests, Prompts!BeginCreate(a) PROVE PromptTyped'
  <2>1. PICK version \in Versions, text \in Templates, activate \in BOOLEAN :
            Prompts!Begin(a, [step |-> "create", version |-> version, text |-> text,
                              activate |-> activate, seen |-> Prompts!Stored])
    BY <1>1 DEF Prompts!BeginCreate
  <2> DEFINE req == [step |-> "create", version |-> version, text |-> text,
                     activate |-> activate, seen |-> Prompts!Stored]
  <2>2. req \in PromptRequest /\ req.step = "create" /\ req.text = text
    BY DEF PromptRequest, Prompts!Stored
  <2>3. Prompts!Begin(a, req)
    BY <2>1
  <2> HIDE DEF req
  <2> QED BY <1>0, <1>1, <1>a, <2>2, <2>3, Begins DEF Prompts!BeginCreate, StepsTyped
<1>2. ASSUME NEW a \in Requests, Prompts!CommitCreate(a) PROVE PromptTyped'
  <2>1. a \in Changing /\ request[a] \in PromptRequest /\ request[a].text \in Prompts!Contents
        /\ request[a].text \in Templates
    BY <1>0, <1>2, RequestKinds
    DEF Prompts!CommitCreate, StepsTyped, Changing, Prompts!Contents
  <2> DEFINE req == [request[a] EXCEPT !.step = "register"]
  <2>2. req \in PromptRequest /\ req.step = "register" /\ req.text = request[a].text
    BY <2>1 DEF PromptRequest
  <2>3. request' = [request EXCEPT ![a] = req]
    BY <1>2 DEF Prompts!CommitCreate
  <2> HIDE DEF req
  <2>4. rows' \in [Versions -> [text : Prompts!Contents, active : BOOLEAN]]
    BY <1>2, <2>1, Committed DEF Prompts!CommitCreate
  <2>5. UNCHANGED <<builtin, registry, active, excused>>
    BY <1>2 DEF Prompts!CommitCreate
  <2>6. request' \in [Requests -> PromptRequest \cup {Prompts!Idle}] /\ StepsTyped'
    BY <1>0, <2>1, <2>2, <2>3, VersionGoesOn DEF StepsTyped
  <2> QED BY <1>0, <1>a, <2>4, <2>5, <2>6
<1>3. ASSUME NEW a \in Requests, Prompts!Register(a) PROVE PromptTyped'
  <2>1. a \in Changing /\ request[a] \in PromptRequest /\ request[a].text \in Prompts!Contents
    BY <1>0, <1>3, RequestKinds
    DEF Prompts!Register, StepsTyped, Changing, Prompts!Contents
  <2>2. request[a].version \in Versions
    BY <2>1 DEF PromptRequest
  <2>3. registry' \in [Versions -> Prompts!Contents] /\ active' \in Versions \cup {Prompts!Absent}
    BY <1>0, <1>3, <2>1, <2>2 DEF Prompts!Register
  <2>4. excused' \in BOOLEAN
    BY <1>0, <1>3 DEF Prompts!Register
  <2>5. UNCHANGED <<builtin, rows>>
        /\ request' \in [Requests -> PromptRequest \cup {Prompts!Idle}]
        /\ StepsTyped'
    BY <1>3, <1>b DEF Prompts!Register
  <2> QED BY <1>0, <1>a, <2>3, <2>4, <2>5
<1>4. ASSUME NEW a \in Requests, Prompts!BeginActivate(a) PROVE PromptTyped'
  <2>1. PICK version \in Versions :
            /\ active' = version
            /\ Prompts!Begin(a, [step |-> "activate", version |-> version, text |-> "",
                                 activate |-> TRUE, seen |-> {}])
    BY <1>4 DEF Prompts!BeginActivate
  <2> DEFINE req == [step |-> "activate", version |-> version, text |-> "",
                     activate |-> TRUE, seen |-> {}]
  <2>2. req \in PromptRequest /\ req.step = "activate" /\ req.activate
    BY DEF PromptRequest
  <2>3. Prompts!Begin(a, req)
    BY <2>1
  <2> HIDE DEF req
  <2>4. UNCHANGED <<builtin, registry, rows>> /\ active' \in Versions
    BY <1>4, <2>1 DEF Prompts!BeginActivate
  <2>5. request' \in [Requests -> PromptRequest \cup {Prompts!Idle}] /\ StepsTyped'
        /\ excused' \in BOOLEAN
    BY <1>0, <2>2, <2>3, Begins DEF StepsTyped
  <2> QED BY <1>0, <1>a, <2>4, <2>5
<1>5. ASSUME NEW a \in Requests, Prompts!Clear(a) PROVE PromptTyped'
  <2>1. a \in Changing /\ request[a] \in PromptRequest /\ request[a].activate
    BY <1>0, <1>5, RequestKinds DEF Prompts!Clear, StepsTyped, Changing
  <2> DEFINE req == [request[a] EXCEPT !.step = "mark", !.seen = Prompts!Stored]
  <2>2. req \in PromptRequest /\ req.step = "mark" /\ req.activate
    BY <2>1 DEF PromptRequest, Prompts!Stored
  <2>3. request' = [request EXCEPT ![a] = req]
    BY <1>5 DEF Prompts!Clear
  <2> HIDE DEF req
  <2>4. UNCHANGED <<builtin, registry, active, rows, excused>>
    BY <1>5 DEF Prompts!Clear
  <2>5. request' \in [Requests -> PromptRequest \cup {Prompts!Idle}] /\ StepsTyped'
    BY <1>0, <2>1, <2>2, <2>3, VersionGoesOn DEF StepsTyped
  <2> QED BY <1>0, <1>a, <2>4, <2>5
<1>6. ASSUME NEW a \in Requests, Prompts!CommitActivate(a) PROVE PromptTyped'
  <2>1. request[a] \in PromptRequest /\ request[a].version \in Versions
    BY <1>0, <1>6, RequestKinds DEF Prompts!CommitActivate, Changing, PromptRequest
  <2> DEFINE text == IF rows[request[a].version].text = "absent" THEN ""
                     ELSE rows[request[a].version].text
  <2>2. text \in Prompts!Contents
    BY <1>0, <2>1 DEF Prompts!Contents
  <2>3. Prompts!Commit(request[a], text)
    BY <1>6 DEF Prompts!CommitActivate, Prompts!Absent
  <2> HIDE DEF text
  <2>4. rows' \in [Versions -> [text : Prompts!Contents, active : BOOLEAN]]
    BY <2>1, <2>2, <2>3, Committed
  <2>5. UNCHANGED <<builtin, registry, active, excused>>
        /\ request' \in [Requests -> PromptRequest \cup {Prompts!Idle}]
        /\ StepsTyped'
    BY <1>6, <1>b DEF Prompts!CommitActivate
  <2> QED BY <1>0, <1>a, <2>4, <2>5
<1>7. ASSUME NEW a \in Requests, Prompts!Fail(a) PROVE PromptTyped'
  <2>1. excused' \in BOOLEAN
    BY <1>0, <1>7 DEF Prompts!Fail
  <2>2. UNCHANGED <<builtin, registry, active, rows>>
        /\ request' \in [Requests -> PromptRequest \cup {Prompts!Idle}]
        /\ StepsTyped'
    BY <1>7, <1>b DEF Prompts!Fail
  <2> QED BY <1>0, <1>a, <2>1, <2>2
<1>8. CASE Prompts!Restart
  <2>1. registry' \in [Versions -> Prompts!Contents]
    BY <1>0, <1>8 DEF Prompts!Restart, Prompts!MergedRegistry, Prompts!Contents
  <2>2. active' \in Versions \cup {Prompts!Absent}
    BY <1>8, PromptFacts DEF Prompts!Restart, Prompts!MergedActive, Prompts!ActiveRows
  <2>3. request' \in [Requests -> PromptRequest \cup {Prompts!Idle}] /\ Changing' = {}
    BY <1>8, PromptFacts DEF Prompts!Restart, Changing
  <2>4. excused' \in BOOLEAN
    BY <1>0, <1>8 DEF Prompts!Restart
  <2> QED BY <1>0, <1>8, <1>a, <2>1, <2>2, <2>3, <2>4 DEF Prompts!Restart, StepsTyped
<1>9. CASE UNCHANGED Prompts!vars
  BY <1>0, <1>9, <1>a DEF Prompts!vars, StepsTyped, Changing
<1> QED BY <1>1, <1>2, <1>3, <1>4, <1>5, <1>6, <1>7, <1>8, <1>9 DEF Prompts!Next


LEMMA ApartStays == PromptInv /\ [Prompts!Next]_Prompts!vars /\ ~excused' => Apart'
<1> SUFFICES ASSUME PromptInv, [Prompts!Next]_Prompts!vars, ~excused' PROVE Apart'
  OBVIOUS
<1>0. PromptTyped /\ (~excused => Apart)
  BY DEF PromptInv
<1>1. ASSUME NEW a \in Requests, NEW req \in PromptRequest, Prompts!Begin(a, req)
      PROVE  Apart'
  <2>1. /\ a \notin Changing /\ Changing' = Changing \cup {a} /\ Apart
        /\ request'[a] = req /\ \A b \in Changing : request'[b] = request[b]
        /\ \A b \in Changing : /\ request[b].version # req.version
                               /\ ~(req.activate /\ request[b].activate)
    BY <1>0, <1>1, Begins
  <2> QED BY <2>1 DEF Apart
<1>2. ASSUME NEW a \in Requests, Prompts!End(a), ~excused
      PROVE  Apart'
  <2>1. Changing' \subseteq Changing /\ \A b \in Changing' : request'[b] = request[b]
    BY <1>0, <1>2, Ends
  <2> QED BY <1>0, <1>2, <2>1 DEF Apart
<1>3. ASSUME NEW a \in Changing, NEW req \in PromptRequest, request' = [request EXCEPT ![a] = req],
             req.version = request[a].version, req.activate = request[a].activate, ~excused
      PROVE  Apart'
  <2>1. Changing' = Changing /\ request'[a] = req
        /\ \A b \in Changing : b # a => request'[b] = request[b]
    BY <1>0, <1>3, VersionGoesOn
  <2> QED BY <1>0, <1>3, <2>1 DEF Apart
<1>4. ASSUME NEW a \in Requests, Prompts!BeginCreate(a) PROVE Apart'
  <2>1. PICK version \in Versions, text \in Templates, activate \in BOOLEAN :
            Prompts!Begin(a, [step |-> "create", version |-> version, text |-> text,
                              activate |-> activate, seen |-> Prompts!Stored])
    BY <1>4 DEF Prompts!BeginCreate
  <2>2. [step |-> "create", version |-> version, text |-> text,
         activate |-> activate, seen |-> Prompts!Stored] \in PromptRequest
    BY DEF PromptRequest, Prompts!Stored
  <2> QED BY <1>1, <2>1, <2>2
<1>5. ASSUME NEW a \in Requests, Prompts!BeginActivate(a) PROVE Apart'
  <2>1. PICK version \in Versions :
            Prompts!Begin(a, [step |-> "activate", version |-> version, text |-> "",
                              activate |-> TRUE, seen |-> {}])
    BY <1>5 DEF Prompts!BeginActivate
  <2>2. [step |-> "activate", version |-> version, text |-> "",
         activate |-> TRUE, seen |-> {}] \in PromptRequest
    BY DEF PromptRequest
  <2> QED BY <1>1, <2>1, <2>2
<1>6. ASSUME NEW a \in Requests, Prompts!CommitCreate(a) PROVE Apart'
  <2>1. a \in Changing /\ request[a] \in PromptRequest /\ ~excused
    BY <1>0, <1>6, RequestKinds DEF Prompts!CommitCreate, Changing
  <2> DEFINE req == [request[a] EXCEPT !.step = "register"]
  <2>2. req \in PromptRequest /\ req.version = request[a].version
        /\ req.activate = request[a].activate
    BY <2>1 DEF PromptRequest
  <2>3. request' = [request EXCEPT ![a] = req]
    BY <1>6 DEF Prompts!CommitCreate
  <2> HIDE DEF req
  <2> QED BY <1>3, <2>1, <2>2, <2>3
<1>7. ASSUME NEW a \in Requests, Prompts!Clear(a) PROVE Apart'
  <2>1. a \in Changing /\ request[a] \in PromptRequest /\ ~excused
    BY <1>0, <1>7, RequestKinds DEF Prompts!Clear, Changing
  <2> DEFINE req == [request[a] EXCEPT !.step = "mark", !.seen = Prompts!Stored]
  <2>2. req \in PromptRequest /\ req.version = request[a].version
        /\ req.activate = request[a].activate
    BY <2>1 DEF PromptRequest, Prompts!Stored
  <2>3. request' = [request EXCEPT ![a] = req]
    BY <1>7 DEF Prompts!Clear
  <2> HIDE DEF req
  <2> QED BY <1>3, <2>1, <2>2, <2>3
<1>8. ASSUME NEW a \in Requests,
             Prompts!Register(a) \/ Prompts!CommitActivate(a) \/ Prompts!Fail(a)
      PROVE  Apart'
  <2>1. ~excused
    BY <1>0, <1>8 DEF Prompts!Register, Prompts!CommitActivate, Prompts!Fail, PromptTyped,
                      Prompts!TypeOK
  <2> QED BY <1>2, <1>8, <2>1 DEF Prompts!Register, Prompts!CommitActivate, Prompts!Fail
<1>9. CASE Prompts!Restart
  <2>1. Changing' = {}
    BY <1>9, PromptFacts DEF Prompts!Restart, Changing
  <2> QED BY <2>1 DEF Apart
<1>10. CASE UNCHANGED Prompts!vars
  BY <1>0, <1>10 DEF Prompts!vars, Apart, Changing
<1> QED BY <1>4, <1>5, <1>6, <1>7, <1>8, <1>9, <1>10 DEF Prompts!Next


\* What the merge makes of a version depends on its text alone.
LEMMA MergedVersion ==
    ASSUME PromptTyped, builtin' = builtin, NEW v \in Versions
    PROVE  /\ rows'[v].text = rows[v].text
                => Prompts!MergedRegistry'[v] = Prompts!MergedRegistry[v]
           /\ rows[v].text = "absent" /\ rows'[v].text = ""
                => Prompts!MergedRegistry'[v] = Prompts!MergedRegistry[v]
           /\ rows[v].text \in Templates => Prompts!MergedRegistry[v] = rows[v].text
<1>1. Prompts!MergedRegistry[v] =
        IF rows[v].text \notin {"absent", ""} THEN rows[v].text
        ELSE IF v \in builtin THEN "builtin" ELSE "absent"
  BY PromptFacts DEF Prompts!MergedRegistry
<1>2. Prompts!MergedRegistry'[v] =
        IF rows'[v].text \notin {"absent", ""} THEN rows'[v].text
        ELSE IF v \in builtin THEN "builtin" ELSE "absent"
  BY PromptFacts DEF Prompts!MergedRegistry
<1> QED BY <1>1, <1>2, PromptFacts

LEMMA TextsStay ==
    PromptInv /\ [Prompts!Next]_Prompts!vars /\ ~excused' => TextsAgree' /\ Registered'
<1> SUFFICES ASSUME PromptInv, [Prompts!Next]_Prompts!vars, ~excused'
             PROVE  TextsAgree' /\ Registered'
  OBVIOUS
<1>0. PromptTyped /\ (~excused => Apart /\ TextsAgree /\ Registered) /\ excused \in BOOLEAN
  BY DEF PromptInv, PromptTyped, Prompts!TypeOK
\* Requests that do not register go on, the texts stay.
<1>1. ASSUME ~excused, UNCHANGED <<registry, builtin>>,
             Prompts!MergedRegistry' = Prompts!MergedRegistry,
             \A v \in Versions : rows'[v].text = rows[v].text
                \/ ~\E b \in Changing : request[b].step = "register" /\ request[b].version = v,
             \A b \in Changing : request[b].step = "register" =>
                b \in Changing' /\ request'[b] = request[b],
             \A b \in Changing' : request'[b].step = "register" =>
                b \in Changing /\ request'[b] = request[b]
      PROVE  TextsAgree' /\ Registered'
  <2>1. TextsAgree'
    BY <1>0, <1>1 DEF TextsAgree
  <2>2. ASSUME NEW b \in Changing', request'[b].step = "register"
        PROVE  rows'[request'[b].version].text = request'[b].text
    <3>1. b \in Changing /\ request'[b] = request[b]
      BY <1>1, <2>2
    <3>2. request[b].version \in Versions
      BY <3>1, <2>2, <1>0, RequestKinds DEF Changing, PromptRequest
    <3> QED BY <1>0, <1>1, <2>2, <3>1, <3>2 DEF Registered
  <2> QED BY <2>1, <2>2 DEF Registered
<1>2. ASSUME ~excused, UNCHANGED <<registry, builtin, rows>>,
             \A b \in Changing : request[b].step = "register" =>
                b \in Changing' /\ request'[b] = request[b],
             \A b \in Changing' : request'[b].step = "register" =>
                b \in Changing /\ request'[b] = request[b]
      PROVE  TextsAgree' /\ Registered'
  <2>1. Prompts!MergedRegistry' = Prompts!MergedRegistry
    BY <1>2 DEF Prompts!MergedRegistry
  <2> QED BY <1>1, <1>2, <2>1
<1>3. ASSUME NEW a \in Requests, NEW req \in PromptRequest, Prompts!Begin(a, req),
             req.step # "register", UNCHANGED <<registry, builtin, rows>>
      PROVE  TextsAgree' /\ Registered'
  <2>1. /\ a \notin Changing /\ Changing' = Changing \cup {a} /\ ~excused
        /\ request'[a] = req /\ \A b \in Changing : request'[b] = request[b]
    BY <1>0, <1>3, Begins
  <2> QED BY <1>2, <1>3, <2>1
<1>4. ASSUME NEW a \in Requests, Prompts!BeginCreate(a) PROVE TextsAgree' /\ Registered'
  <2>1. PICK version \in Versions, text \in Templates, activate \in BOOLEAN :
            Prompts!Begin(a, [step |-> "create", version |-> version, text |-> text,
                              activate |-> activate, seen |-> Prompts!Stored])
    BY <1>4 DEF Prompts!BeginCreate
  <2>2. [step |-> "create", version |-> version, text |-> text,
         activate |-> activate, seen |-> Prompts!Stored] \in PromptRequest
    BY DEF PromptRequest, Prompts!Stored
  <2> QED BY <1>3, <1>4, <2>1, <2>2 DEF Prompts!BeginCreate
<1>5. ASSUME NEW a \in Requests, Prompts!BeginActivate(a) PROVE TextsAgree' /\ Registered'
  <2>1. PICK version \in Versions :
            Prompts!Begin(a, [step |-> "activate", version |-> version, text |-> "",
                              activate |-> TRUE, seen |-> {}])
    BY <1>5 DEF Prompts!BeginActivate
  <2>2. [step |-> "activate", version |-> version, text |-> "",
         activate |-> TRUE, seen |-> {}] \in PromptRequest
    BY DEF PromptRequest
  <2> QED BY <1>3, <1>5, <2>1, <2>2 DEF Prompts!BeginActivate
<1>6. ASSUME NEW a \in Requests, Prompts!CommitCreate(a) PROVE TextsAgree' /\ Registered'
  <2>1. a \in Changing /\ request[a] \in PromptRequest /\ ~excused /\ request[a].step = "create"
        /\ request[a].version \in Versions
    BY <1>0, <1>6, RequestKinds DEF Prompts!CommitCreate, Changing, PromptRequest
  <2> DEFINE req == [request[a] EXCEPT !.step = "register"]
  <2>2. req \in PromptRequest /\ req.version = request[a].version
        /\ req.step = "register" /\ req.text = request[a].text
    BY <2>1 DEF PromptRequest
  <2>3. request' = [request EXCEPT ![a] = req]
    BY <1>6 DEF Prompts!CommitCreate
  <2> HIDE DEF req
  <2>4. Changing' = Changing /\ request'[a] = req
        /\ \A b \in Changing : b # a => request'[b] = request[b]
    BY <1>0, <2>1, <2>2, <2>3, VersionGoesOn
  <2>5. /\ rows'[request[a].version].text = request[a].text
        /\ \A v \in Versions : v # request[a].version => rows'[v].text = rows[v].text
    BY <1>0, <1>6, <2>1, Committed DEF Prompts!CommitCreate
  <2>6. UNCHANGED <<registry, builtin>>
    BY <1>6 DEF Prompts!CommitCreate
  <2>7. ASSUME NEW v \in Versions
        PROVE  \/ registry'[v] = Prompts!MergedRegistry'[v]
               \/ \E b \in Changing' : request'[b].step = "register" /\ request'[b].version = v
    <3>1. CASE v = request[a].version
      BY <2>1, <2>2, <2>4, <3>1
    <3>2. CASE v # request[a].version
      <4>1. Prompts!MergedRegistry'[v] = Prompts!MergedRegistry[v]
        BY <1>0, <2>5, <2>6, <3>2, MergedVersion
      <4>2. CASE registry[v] = Prompts!MergedRegistry[v]
        BY <2>6, <4>1, <4>2
      <4>3. CASE \E b \in Changing : request[b].step = "register" /\ request[b].version = v
        BY <2>1, <2>4, <4>3
      <4> QED BY <1>0, <2>1, <4>2, <4>3 DEF TextsAgree
    <3> QED BY <3>1, <3>2
  <2>8. ASSUME NEW b \in Changing', request'[b].step = "register"
        PROVE  rows'[request'[b].version].text = request'[b].text
    <3>1. CASE b = a
      BY <2>2, <2>4, <2>5, <3>1
    <3>2. CASE b # a
      <4>1. request'[b] = request[b] /\ request[b].version # request[a].version
        BY <1>0, <2>1, <2>4, <3>2 DEF Apart
      <4>2. request[b].version \in Versions
        BY <1>0, <2>4, RequestKinds DEF Changing, PromptRequest
      <4> QED BY <1>0, <2>1, <2>4, <2>5, <2>8, <4>1, <4>2 DEF Registered
    <3> QED BY <3>1, <3>2
  <2> QED BY <2>7, <2>8 DEF TextsAgree, Registered
<1>7. ASSUME NEW a \in Requests, Prompts!Register(a) PROVE TextsAgree' /\ Registered'
  <2>1. a \in Changing /\ request[a] \in PromptRequest /\ ~excused /\ request[a].step = "register"
    BY <1>0, <1>7, RequestKinds DEF Prompts!Register, Changing
  <2>2. request[a].text \in Templates /\ request[a].version \in Versions
    BY <1>0, <2>1 DEF PromptTyped, StepsTyped, PromptRequest
  <2>3. Changing' = Changing \ {a} /\ \A b \in Changing' : request'[b] = request[b]
    BY <1>0, <1>7, Ends DEF Prompts!Register
  <2>4. /\ registry' = [registry EXCEPT ![request[a].version] = request[a].text]
        /\ UNCHANGED <<builtin, rows>>
    BY <1>7 DEF Prompts!Register
  <2>5. registry \in [Versions -> Prompts!Contents]
    BY <1>0 DEF PromptTyped, Prompts!TypeOK
  <2>6. Prompts!MergedRegistry' = Prompts!MergedRegistry
    BY <2>4 DEF Prompts!MergedRegistry
  <2>7. Prompts!MergedRegistry[request[a].version] = request[a].text
    BY <1>0, <2>1, <2>2, <2>4, MergedVersion DEF Registered
  <2>8. TextsAgree'
    BY <1>0, <2>1, <2>2, <2>3, <2>4, <2>5, <2>6, <2>7 DEF TextsAgree
  <2>9. Registered'
    BY <1>0, <2>1, <2>3, <2>4 DEF Registered
  <2> QED BY <2>8, <2>9
<1>8. ASSUME NEW a \in Requests, Prompts!Clear(a) PROVE TextsAgree' /\ Registered'
  <2>1. a \in Changing /\ request[a] \in PromptRequest /\ ~excused /\ request[a].step = "activate"
    BY <1>0, <1>8, RequestKinds DEF Prompts!Clear, Changing
  <2> DEFINE req == [request[a] EXCEPT !.step = "mark", !.seen = Prompts!Stored]
  <2>2. req \in PromptRequest /\ req.step = "mark"
    BY <2>1 DEF PromptRequest, Prompts!Stored
  <2>3. request' = [request EXCEPT ![a] = req]
    BY <1>8 DEF Prompts!Clear
  <2> HIDE DEF req
  <2>4. Changing' = Changing /\ request'[a] = req
        /\ \A b \in Changing : b # a => request'[b] = request[b]
    BY <1>0, <2>1, <2>2, <2>3, VersionGoesOn
  <2> QED BY <1>2, <1>8, <2>1, <2>2, <2>4 DEF Prompts!Clear
<1>9. ASSUME NEW a \in Requests, Prompts!CommitActivate(a) PROVE TextsAgree' /\ Registered'
  <2>1. a \in Changing /\ request[a] \in PromptRequest /\ ~excused /\ request[a].step = "mark"
        /\ request[a].version \in Versions
    BY <1>0, <1>9, RequestKinds DEF Prompts!CommitActivate, Changing, PromptRequest
  <2>2. Changing' = Changing \ {a} /\ \A b \in Changing' : request'[b] = request[b]
    BY <1>0, <1>9, Ends DEF Prompts!CommitActivate
  <2> DEFINE text == IF rows[request[a].version].text = "absent" THEN ""
                     ELSE rows[request[a].version].text
  <2>3. Prompts!Commit(request[a], text)
    BY <1>9 DEF Prompts!CommitActivate, Prompts!Absent
  <2>4. /\ rows'[request[a].version].text = text
        /\ \A v \in Versions : v # request[a].version => rows'[v].text = rows[v].text
    BY <1>0, <2>1, <2>3, Committed
  <2>5. UNCHANGED <<registry, builtin>>
    BY <1>9 DEF Prompts!CommitActivate
  <2>6. \A v \in Versions : Prompts!MergedRegistry'[v] = Prompts!MergedRegistry[v]
    BY <1>0, <2>1, <2>4, <2>5, MergedVersion
  <2>7. Prompts!MergedRegistry' = Prompts!MergedRegistry
    BY <2>6 DEF Prompts!MergedRegistry
  <2>8. ASSUME NEW b \in Changing, request[b].step = "register"
        PROVE  b # a /\ request[b].version # request[a].version
    BY <1>0, <2>1, <2>8 DEF Apart
  <2>9. \A v \in Versions : rows'[v].text = rows[v].text
            \/ ~\E b \in Changing : request[b].step = "register" /\ request[b].version = v
    BY <2>4, <2>8
  <2> QED BY <1>1, <2>1, <2>2, <2>5, <2>7, <2>8, <2>9
<1>10. ASSUME NEW a \in Requests, Prompts!Fail(a) PROVE TextsAgree' /\ Registered'
  <2>1. ~excused /\ request[a].step # "register" /\ UNCHANGED <<registry, builtin, rows>>
    BY <1>0, <1>10 DEF Prompts!Fail
  <2>2. Changing' = Changing \ {a} /\ \A b \in Changing' : request'[b] = request[b]
    BY <1>0, <1>10, Ends DEF Prompts!Fail
  <2> QED BY <1>2, <2>1, <2>2
<1>11. CASE Prompts!Restart
  <2>1. Changing' = {}
    BY <1>11, PromptFacts DEF Prompts!Restart, Changing
  <2>2. registry' = Prompts!MergedRegistry'
    BY <1>11 DEF Prompts!Restart, Prompts!MergedRegistry
  <2> QED BY <2>1, <2>2 DEF TextsAgree, Registered
<1>12. CASE UNCHANGED Prompts!vars
  BY <1>0, <1>2, <1>12 DEF Prompts!vars, Changing
<1> QED BY <1>4, <1>5, <1>6, <1>7, <1>8, <1>9, <1>10, <1>11, <1>12 DEF Prompts!Next


\* What is said of the active version.
ActiveInv == OneActive /\ ActiveAgree /\ ActivationSeen

LEMMA ActiveStays == PromptInv /\ [Prompts!Next]_Prompts!vars /\ ~excused' => ActiveInv'
<1> SUFFICES ASSUME PromptInv, [Prompts!Next]_Prompts!vars, ~excused' PROVE ActiveInv'
  OBVIOUS
<1>0. PromptTyped /\ (~excused => Apart /\ OneActive /\ ActiveAgree /\ ActivationSeen)
      /\ excused \in BOOLEAN
  BY DEF PromptInv, PromptTyped, Prompts!TypeOK
<1>i. \A a \in Changing : request[a] \in PromptRequest /\ request[a].version \in Versions
  BY <1>0, RequestKinds DEF Changing, PromptRequest
<1>s. Prompts!ActiveRows \subseteq Prompts!Stored
  BY <1>0 DEF PromptTyped, Prompts!TypeOK, Prompts!ActiveRows, Prompts!Stored, Prompts!NoRow
<1>1. ASSUME NEW a \in Requests, NEW req \in PromptRequest, Prompts!Begin(a, req),
             UNCHANGED <<builtin, rows>>,
             \/ /\ req.step = "create" /\ active' = active
                /\ Prompts!ActiveRows \subseteq req.seen
             \/ req.step = "activate" /\ req.activate /\ active' = req.version
      PROVE  ActiveInv'
  <2>1. /\ a \notin Changing /\ Changing' = Changing \cup {a} /\ ~excused
        /\ request'[a] = req /\ \A b \in Changing : request'[b] = request[b]
        /\ \A b \in Changing : ~(req.activate /\ request[b].activate)
    BY <1>0, <1>1, Begins
  <2>2. Prompts!ActiveRows' = Prompts!ActiveRows
    BY <1>1 DEF Prompts!ActiveRows
  <2>3. OneActive'
    BY <1>0, <1>1, <2>1, <2>2 DEF OneActive
  <2>4. ActiveAgree'
    BY <1>0, <1>1, <2>1, <2>2 DEF ActiveAgree
  <2>5. ActivationSeen'
    BY <1>0, <1>1, <2>1, <2>2 DEF ActivationSeen
  <2> QED BY <2>3, <2>4, <2>5 DEF ActiveInv
<1>2. ASSUME NEW a \in Requests, Prompts!BeginCreate(a) PROVE ActiveInv'
  <2>1. PICK version \in Versions, text \in Templates, activate \in BOOLEAN :
            Prompts!Begin(a, [step |-> "create", version |-> version, text |-> text,
                              activate |-> activate, seen |-> Prompts!Stored])
    BY <1>2 DEF Prompts!BeginCreate
  <2> DEFINE req == [step |-> "create", version |-> version, text |-> text,
                     activate |-> activate, seen |-> Prompts!Stored]
  <2>2. req \in PromptRequest /\ req.step = "create" /\ Prompts!ActiveRows \subseteq req.seen
    BY <1>s DEF PromptRequest, Prompts!Stored
  <2>3. Prompts!Begin(a, req) /\ UNCHANGED <<builtin, rows, active>>
    BY <1>2, <2>1 DEF Prompts!BeginCreate
  <2> HIDE DEF req
  <2> QED BY <1>1, <2>2, <2>3
<1>3. ASSUME NEW a \in Requests, Prompts!BeginActivate(a) PROVE ActiveInv'
  <2>1. PICK version \in Versions :
            /\ active' = version
            /\ Prompts!Begin(a, [step |-> "activate", version |-> version, text |-> "",
                                 activate |-> TRUE, seen |-> {}])
    BY <1>3 DEF Prompts!BeginActivate
  <2> DEFINE req == [step |-> "activate", version |-> version, text |-> "",
                     activate |-> TRUE, seen |-> {}]
  <2>2. req \in PromptRequest /\ req.step = "activate" /\ req.activate /\ active' = req.version
    BY <2>1 DEF PromptRequest
  <2>3. Prompts!Begin(a, req) /\ UNCHANGED <<builtin, rows>>
    BY <1>3, <2>1 DEF Prompts!BeginActivate
  <2> HIDE DEF req
  <2> QED BY <1>1, <2>2, <2>3
<1>4. ASSUME NEW a \in Requests, Prompts!CommitCreate(a) PROVE ActiveInv'
  <2>1. a \in Changing /\ request[a] \in PromptRequest /\ ~excused /\ request[a].step = "create"
        /\ request[a].version \in Versions
    BY <1>0, <1>4, <1>i, RequestKinds DEF Prompts!CommitCreate, Changing
  <2> DEFINE req == [request[a] EXCEPT !.step = "register"]
  <2>2. req \in PromptRequest /\ req.version = request[a].version
        /\ req.step = "register" /\ req.activate = request[a].activate
    BY <2>1 DEF PromptRequest
  <2>3. request' = [request EXCEPT ![a] = req]
    BY <1>4 DEF Prompts!CommitCreate
  <2> HIDE DEF req
  <2>4. Changing' = Changing /\ request'[a] = req
        /\ \A b \in Changing : b # a => request'[b] = request[b]
    BY <1>0, <2>1, <2>2, <2>3, VersionGoesOn
  <2>5. UNCHANGED <<registry, builtin, active>>
    BY <1>4 DEF Prompts!CommitCreate
  <2>6. Prompts!Commit(request[a], request[a].text)
    BY <1>4 DEF Prompts!CommitCreate
  <2>7. CASE request[a].activate
    <3>1. Prompts!ActiveRows' = {request[a].version}
      BY <1>0, <2>1, <2>6, <2>7, Committed DEF OneActive
    <3>2. \A b \in Changing : b # a => ~request'[b].activate
      BY <1>0, <2>1, <2>4, <2>7 DEF Apart
    <3>3. OneActive'
      BY <2>2, <2>4, <3>1, <3>2 DEF OneActive
    <3>4. ActiveAgree'
      BY <2>1, <2>2, <2>4, <2>7 DEF ActiveAgree
    <3>5. ActivationSeen'
      BY <2>1, <2>2, <2>4, <3>1, <3>2 DEF ActivationSeen
    <3> QED BY <3>3, <3>4, <3>5 DEF ActiveInv
  <2>8. CASE ~request[a].activate
    <3>1. Prompts!ActiveRows' = Prompts!ActiveRows
      BY <1>0, <2>1, <2>6, <2>8, Committed
    <3>3. OneActive'
      BY <1>0, <2>1, <2>2, <2>4, <2>8, <3>1 DEF OneActive
    <3>4. ActiveAgree'
      BY <1>0, <2>1, <2>2, <2>4, <2>5, <2>8, <3>1 DEF ActiveAgree
    <3>5. ActivationSeen'
      BY <1>0, <2>1, <2>2, <2>4, <2>5, <2>8, <3>1 DEF ActivationSeen
    <3> QED BY <3>3, <3>4, <3>5 DEF ActiveInv
  <2> QED BY <2>7, <2>8
<1>5. ASSUME NEW a \in Requests, Prompts!Register(a) PROVE ActiveInv'
  <2>1. a \in Changing /\ request[a] \in PromptRequest /\ request[a].step = "register"
        /\ request[a].version \in Versions
    BY <1>0, <1>5, <1>i, RequestKinds DEF Prompts!Register, Changing
  <2>2. /\ UNCHANGED <<builtin, rows>> /\ ~excused
        /\ ~(active = Prompts!Absent /\ ~request[a].activate)
        /\ active' = IF request[a].activate \/ active = Prompts!Absent
                     THEN request[a].version ELSE active
    BY <1>0, <1>5 DEF Prompts!Register
  <2>3. Changing' = Changing \ {a} /\ \A b \in Changing' : request'[b] = request[b]
    BY <1>0, <1>5, Ends DEF Prompts!Register
  <2>4. Prompts!ActiveRows' = Prompts!ActiveRows
    BY <2>2 DEF Prompts!ActiveRows
  <2>5. OneActive'
    BY <1>0, <2>2, <2>3, <2>4 DEF OneActive
  <2>6. CASE request[a].activate
    <3>1. active' = request[a].version /\ Prompts!ActiveRows' = {request[a].version}
      BY <1>0, <2>1, <2>2, <2>4, <2>6 DEF ActivationSeen
    <3>2. \A b \in Changing' : ~request'[b].activate
      BY <1>0, <2>1, <2>2, <2>3, <2>6 DEF Apart
    <3> QED BY <2>1, <2>5, <3>1, <3>2 DEF ActiveInv, ActiveAgree, ActivationSeen
  <2>7. CASE ~request[a].activate
    <3>1. active' = active
      BY <2>2, <2>7
    <3>2. ActiveAgree'
      BY <1>0, <2>2, <2>3, <2>4, <2>7, <3>1 DEF ActiveAgree
    <3>3. ActivationSeen'
      BY <1>0, <2>2, <2>3, <2>4, <3>1 DEF ActivationSeen
    <3> QED BY <2>5, <3>2, <3>3 DEF ActiveInv
  <2> QED BY <2>6, <2>7
<1>6. ASSUME NEW a \in Requests, Prompts!Clear(a) PROVE ActiveInv'
  <2>1. a \in Changing /\ request[a] \in PromptRequest /\ ~excused /\ request[a].step = "activate"
    BY <1>0, <1>6, RequestKinds DEF Prompts!Clear, Changing
  <2> DEFINE req == [request[a] EXCEPT !.step = "mark", !.seen = Prompts!Stored]
  <2>2. req \in PromptRequest /\ req.version = request[a].version /\ req.step = "mark"
        /\ req.activate = request[a].activate /\ req.seen = Prompts!Stored
    BY <2>1 DEF PromptRequest, Prompts!Stored
  <2>3. request' = [request EXCEPT ![a] = req]
    BY <1>6 DEF Prompts!Clear
  <2> HIDE DEF req
  <2>4. Changing' = Changing /\ request'[a] = req
        /\ \A b \in Changing : b # a => request'[b] = request[b]
    BY <1>0, <2>1, <2>2, <2>3, VersionGoesOn
  <2>5. UNCHANGED <<registry, builtin, active, rows>>
    BY <1>6 DEF Prompts!Clear
  <2>6. Prompts!ActiveRows' = Prompts!ActiveRows
    BY <2>5 DEF Prompts!ActiveRows
  <2>7. OneActive'
    BY <1>0, <1>s, <2>1, <2>2, <2>4, <2>6 DEF OneActive
  <2>8. ActiveAgree'
    BY <1>0, <2>1, <2>2, <2>4, <2>5, <2>6 DEF ActiveAgree
  <2>9. ActivationSeen'
    BY <1>0, <2>1, <2>2, <2>4, <2>5, <2>6 DEF ActivationSeen
  <2> QED BY <2>7, <2>8, <2>9 DEF ActiveInv
<1>7. ASSUME NEW a \in Requests, Prompts!CommitActivate(a) PROVE ActiveInv'
  <2>1. a \in Changing /\ request[a] \in PromptRequest /\ ~excused /\ request[a].step = "mark"
        /\ request[a].version \in Versions /\ request[a].activate
    BY <1>0, <1>7, <1>i, RequestKinds
    DEF Prompts!CommitActivate, Changing, PromptTyped, StepsTyped
  <2>2. Changing' = Changing \ {a} /\ \A b \in Changing' : request'[b] = request[b]
    BY <1>0, <1>7, Ends DEF Prompts!CommitActivate
  <2>3. Prompts!Commit(request[a], IF rows[request[a].version].text = "absent" THEN ""
                                   ELSE rows[request[a].version].text)
    BY <1>7 DEF Prompts!CommitActivate, Prompts!Absent
  <2>4. Prompts!ActiveRows' = {request[a].version}
    BY <1>0, <2>1, <2>3, Committed DEF OneActive
  <2>5. active' = active /\ active = request[a].version
    BY <1>0, <1>7, <2>1 DEF Prompts!CommitActivate, ActivationSeen
  <2>6. \A b \in Changing' : ~request'[b].activate
    BY <1>0, <2>1, <2>2 DEF Apart
  <2> QED BY <2>1, <2>4, <2>5, <2>6 DEF ActiveInv, OneActive, ActiveAgree, ActivationSeen
<1>8. ASSUME NEW a \in Requests, Prompts!Fail(a) PROVE ActiveInv'
  <2>1. ~excused /\ request[a].step = "create" /\ UNCHANGED <<active, builtin, rows>>
    BY <1>0, <1>8 DEF Prompts!Fail
  <2>2. Changing' = Changing \ {a} /\ \A b \in Changing' : request'[b] = request[b]
    BY <1>0, <1>8, Ends DEF Prompts!Fail
  <2>3. Prompts!ActiveRows' = Prompts!ActiveRows
    BY <2>1 DEF Prompts!ActiveRows
  <2>4. OneActive'
    BY <1>0, <2>1, <2>2, <2>3 DEF OneActive
  <2>5. ActiveAgree'
    BY <1>0, <2>1, <2>2, <2>3 DEF ActiveAgree
  <2>6. ActivationSeen'
    BY <1>0, <2>1, <2>2, <2>3 DEF ActivationSeen
  <2> QED BY <2>4, <2>5, <2>6 DEF ActiveInv
<1>9. CASE Prompts!Restart
  <2>1. Changing' = {}
    BY <1>9, PromptFacts DEF Prompts!Restart, Changing
  <2>2. UNCHANGED <<builtin, rows>> /\ Prompts!ActiveRows' = Prompts!ActiveRows
    BY <1>9 DEF Prompts!Restart, Prompts!ActiveRows
  <2>3. \A v, w \in Prompts!ActiveRows : v = w
    <3>1. CASE ~excused
      BY <1>0, <3>1 DEF OneActive
    <3>2. CASE excused
      <4>1. ~(Prompts!Cardinality(Prompts!ActiveRows) > 1)
        BY <1>9, <3>2 DEF Prompts!Restart
      <4>2. Prompts!Cardinality(Prompts!ActiveRows) = Cardinality(Prompts!ActiveRows)
        BY DEF Prompts!Cardinality, Cardinality
      <4>3. IsFiniteSet(Prompts!ActiveRows)
        BY PromptFacts, FS_Subset DEF Prompts!ActiveRows
      <4>4. ASSUME NEW v \in Prompts!ActiveRows, NEW w \in Prompts!ActiveRows, v # w
            PROVE  FALSE
        <5>0. IsFiniteSet({v}) /\ Cardinality({v}) = 1 /\ w \notin {v}
          BY <4>4, FS_Singleton
        <5>1. Cardinality({v} \cup {w}) = 2
          <6>1. Cardinality({v} \cup {w}) = Cardinality({v}) + 1
            BY <5>0, FS_AddElement
          <6> QED BY <5>0, <6>1
        <5>2. {v} \cup {w} \subseteq Prompts!ActiveRows
          BY <4>4
        <5>3. 2 <= Cardinality(Prompts!ActiveRows) /\ Cardinality(Prompts!ActiveRows) \in Nat
          BY <4>3, <5>1, <5>2, FS_Subset, FS_CardinalityType
        <5> QED BY <4>1, <4>2, <5>3
      <4> QED BY <4>4
    <3> QED BY <1>0, <3>1, <3>2
  <2>4. active' \in Prompts!MergedActive
    BY <1>9 DEF Prompts!Restart
  <2>5. ActiveAgree'
    <3>1. CASE Prompts!ActiveRows = {}
      BY <2>2, <2>4, <3>1, PromptFacts DEF ActiveAgree, Prompts!MergedActive
    <3>2. CASE Prompts!ActiveRows # {}
      <4>1. active' \in Prompts!ActiveRows
        BY <2>4, <3>2 DEF Prompts!MergedActive
      <4>2. Prompts!ActiveRows' = {active'} /\ active' \in Versions
        BY <2>2, <2>3, <4>1 DEF Prompts!ActiveRows
      <4> QED BY <4>2 DEF ActiveAgree
    <3> QED BY <3>1, <3>2
  <2> QED BY <2>1, <2>2, <2>3, <2>5 DEF ActiveInv, OneActive, ActivationSeen
<1>10. CASE UNCHANGED Prompts!vars
  <2>1. Prompts!ActiveRows' = Prompts!ActiveRows /\ Changing' = Changing
    BY <1>10 DEF Prompts!vars, Prompts!ActiveRows, Changing
  <2> QED BY <1>0, <1>10, <2>1
          DEF Prompts!vars, ActiveInv, OneActive, ActiveAgree, ActivationSeen
<1> QED BY <1>2, <1>3, <1>4, <1>5, <1>6, <1>7, <1>8, <1>9, <1>10 DEF Prompts!Next

LEMMA PromptStarts == Prompts!Init => PromptInv
<1> SUFFICES ASSUME Prompts!Init PROVE PromptInv
  OBVIOUS
<1>1. Changing = {} /\ request \in [Requests -> PromptRequest \cup {Prompts!Idle}]
      /\ DOMAIN request = Requests
  BY PromptFacts DEF Prompts!Init, Changing
<1>2. rows \in [Versions -> [text : Prompts!Contents, active : BOOLEAN]]
      /\ \A v \in Versions : rows[v].text = "absent" /\ ~rows[v].active
  BY PromptFacts DEF Prompts!Init, Prompts!NoRow, Prompts!Contents
<1>3. registry \in [Versions -> Prompts!Contents]
      /\ \A v \in Versions : registry[v] = IF v \in builtin THEN "builtin" ELSE "absent"
  BY PromptFacts DEF Prompts!Init, Prompts!Contents
<1>4. builtin \in {{"v1"}, {}} /\ excused = FALSE
      /\ active = IF builtin # {} THEN "v1" ELSE "absent"
  BY PromptFacts DEF Prompts!Init
<1>5. PromptTyped
  <2>1. active \in Versions \cup {Prompts!Absent} /\ builtin \subseteq Versions
    BY <1>4, PromptFacts
  <2> QED BY <1>1, <1>2, <1>3, <1>4, <2>1 DEF PromptTyped, StepsTyped, Prompts!TypeOK
<1>6. Prompts!ActiveRows = {}
  BY <1>2 DEF Prompts!ActiveRows
<1>7. TextsAgree
  BY <1>2, <1>3, PromptFacts DEF TextsAgree, Prompts!MergedRegistry
<1> QED BY <1>1, <1>4, <1>5, <1>6, <1>7
        DEF PromptInv, Apart, Registered, OneActive, ActiveAgree, ActivationSeen

LEMMA PromptStays == PromptInv /\ [Prompts!Next]_Prompts!vars => PromptInv'
  BY PromptTypedStays, ApartStays, TextsStay, ActiveStays DEF PromptInv, ActiveInv

LEMMA PromptInSum ==
    (SumInit => Prompts!Init) /\ ([SumNext]_allVars => [Prompts!Next]_Prompts!vars)
  BY DEF SumInit, SumNext, allVars, promptVars, Prompts!vars

LEMMA PromptHolds == SumSpec => []PromptInv
<1>1. SumInit => PromptInv
  BY PromptInSum, PromptStarts
<1>2. PromptInv /\ [SumNext]_allVars => PromptInv'
  BY PromptInSum, PromptStays
<1> QED BY <1>1, <1>2, PTL DEF SumSpec

\* With no request under way a restart of the process serves the texts and the version
\* it served before, for any number of requests that register and activate versions,
\* unless two of them overlapped or one failed halfway (admin_prompts.py,
\* apply_custom_prompt_versions).
THEOREM RestartsAreHarmless == SumSpec => []RestartChangesNothing
<1>1. ASSUME PromptInv PROVE RestartChangesNothing
  <2> SUFFICES ASSUME \A a \in Requests : request[a] = Prompts!Idle, ~excused
               PROVE  /\ registry = Prompts!MergedRegistry
                      /\ \A version \in Prompts!MergedActive :
                            Prompts!Served(Prompts!MergedRegistry, version)
                                = Prompts!Served(registry, active)
    BY DEF RestartChangesNothing, Prompts!RestartChangesNothing
  <2>1. Changing = {}
    BY PromptFacts DEF Changing
  <2>2. registry = Prompts!MergedRegistry
    <3>1. \A v \in Versions : registry[v] = Prompts!MergedRegistry[v]
      BY <1>1, <2>1 DEF PromptInv, TextsAgree
    <3>2. registry \in [Versions -> Prompts!Contents]
      BY <1>1 DEF PromptInv, PromptTyped, Prompts!TypeOK
    <3> QED BY <3>1, <3>2 DEF Prompts!MergedRegistry
  <2>3. Prompts!MergedActive = {active}
    BY <1>1, <2>1, PromptFacts DEF PromptInv, ActiveAgree, Prompts!MergedActive
  <2> QED BY <2>2, <2>3
<1> QED BY <1>1, PromptHolds, PTL


-----------------------------------------------------------------------------
(* The events that a page polls for.                                       *)

\* A set of numbers has a least one, and below a bound a greatest.
LEMMA LeastNatural ==
    ASSUME NEW S \in SUBSET Nat, S # {}
    PROVE  \E x \in S : \A y \in S : x <= y
<1> DEFINE R == OpToRel(<, Nat)
<1>1. IsWellFoundedOn(R, Nat)
  BY NatLessThanWellFounded
<1>2. \A x, y \in Nat : x < y => <<x, y>> \in R
  BY DEF OpToRel
<1> HIDE DEF R
<1>3. \E x \in S : \A y \in S : ~ (<<y, x>> \in R)
  <2>1. S \subseteq Nat
    OBVIOUS
  <2> QED BY <1>1, <2>1, WFMin, Zenon
<1>4. PICK x \in S : \A y \in S : ~ (<<y, x>> \in R)
  BY <1>3
<1>5. \A y \in S : ~ (y < x)
  BY <1>2, <1>4, Zenon
<1> QED BY <1>5

LEMMA GreatestNatural ==
    ASSUME NEW N \in Nat, NEW S \in SUBSET (0 .. N), S # {}
    PROVE  \E x \in S : \A y \in S : x >= y
<1> DEFINE U == {N - x : x \in S}
<1>1. U \in SUBSET Nat /\ U # {}
  <2>1. \A x \in S : N - x \in Nat
    OBVIOUS
  <2> QED BY <2>1
<1>2. PICK u \in U : \A v \in U : u <= v
  BY <1>1, LeastNatural
<1>3. N - u \in S /\ \A y \in S : u <= N - y
  BY <1>2
<1> QED BY <1>3

LEMMA MaxOfNaturals ==
    ASSUME NEW N \in Nat, NEW S \in SUBSET (0 .. N), S # {}
    PROVE  Poll!Max(S) \in S /\ \A y \in S : Poll!Max(S) >= y
  BY GreatestNatural DEF Poll!Max

LEMMA NewestOf ==
    ASSUME Poll!PollAssumption, NEW list \in Seq(Poll!Events)
    PROVE  /\ Poll!Newest(list) \subseteq Poll!ToSet(list)
           /\ \A e \in Poll!Events : e \in Poll!Newest(Append(list, e))
           /\ \A e \in Poll!Events :
                 Poll!ToSet(Append(list, e)) = Poll!ToSet(list) \union {e}
           /\ Poll!ToSet(list) \subseteq Poll!Events
<1> DEFINE First(l) == Poll!Max({1, Len(l) - Limit + 1})
<1>1. ASSUME NEW l \in Seq(Poll!Events)
      PROVE  First(l) \in Nat /\ First(l) >= 1 /\ (Len(l) > 0 => First(l) <= Len(l))
  <2>1. Len(l) \in Nat /\ Limit \in Nat /\ Limit > 0
    BY DEF Poll!PollAssumption
  <2>2. \A x \in {1, Len(l) - Limit + 1} : x <= Len(l) + 1
    BY <2>1
  <2>3. \E x \in {1, Len(l) - Limit + 1} : \A y \in {1, Len(l) - Limit + 1} : x >= y
    BY <2>1
  <2>4. /\ First(l) \in {1, Len(l) - Limit + 1}
        /\ \A y \in {1, Len(l) - Limit + 1} : First(l) >= y
    BY <2>3 DEF Poll!Max
  <2> HIDE DEF First
  <2> QED BY <2>1, <2>4
<1> HIDE DEF First
<1>2. ASSUME NEW l \in Seq(Poll!Events)
      PROVE  Poll!Newest(l) = {l[i] : i \in First(l) .. Len(l)}
  <2>1. SubSeq(l, First(l), Len(l)) = [i \in 1 .. (Len(l) - First(l) + 1) |-> l[i + First(l) - 1]]
    BY <1>1
  <2>2. \A i \in First(l) .. Len(l) :
            /\ i - First(l) + 1 \in 1 .. (Len(l) - First(l) + 1)
            /\ (i - First(l) + 1) + First(l) - 1 = i
    BY <1>1
  <2>3. \A i \in 1 .. (Len(l) - First(l) + 1) : i + First(l) - 1 \in First(l) .. Len(l)
    BY <1>1
  <2> DEFINE part == [i \in 1 .. (Len(l) - First(l) + 1) |-> l[i + First(l) - 1]]
  <2>4. Poll!Newest(l) = {part[i] : i \in 1 .. (Len(l) - First(l) + 1)}
    BY <2>1 DEF Poll!Newest, Poll!ToSet, First
  <2>5. \A i \in 1 .. (Len(l) - First(l) + 1) : part[i] = l[i + First(l) - 1]
    OBVIOUS
  <2> HIDE DEF part
  <2>6. ASSUME NEW i \in First(l) .. Len(l) PROVE l[i] \in Poll!Newest(l)
    <3>1. part[i - First(l) + 1] = l[i]
      BY <2>2, <2>5
    <3> QED BY <3>1, <2>2, <2>4
  <2> QED BY <2>3, <2>4, <2>5, <2>6
<1>3. Poll!Newest(list) \subseteq Poll!ToSet(list)
  BY <1>1, <1>2 DEF Poll!ToSet
<1>4. ASSUME NEW e \in Poll!Events
      PROVE  /\ e \in Poll!Newest(Append(list, e))
             /\ Poll!ToSet(Append(list, e)) = Poll!ToSet(list) \union {e}
  <2>1. /\ Append(list, e) \in Seq(Poll!Events) /\ Len(Append(list, e)) = Len(list) + 1
        /\ Append(list, e)[Len(list) + 1] = e
        /\ \A i \in 1 .. Len(list) : Append(list, e)[i] = list[i]
        /\ DOMAIN Append(list, e) = 1 .. (Len(list) + 1) /\ DOMAIN list = 1 .. Len(list)
        /\ Len(list) \in Nat
    BY AppendProperties
  <2> DEFINE longer == Append(list, e)
  <2> HIDE DEF longer
  <2>2. /\ longer \in Seq(Poll!Events) /\ Len(longer) = Len(list) + 1
        /\ longer[Len(list) + 1] = e /\ DOMAIN longer = 1 .. (Len(list) + 1)
        /\ \A i \in 1 .. Len(list) : longer[i] = list[i]
    BY <2>1 DEF longer
  <2>3. Len(list) + 1 \in First(longer) .. Len(longer)
    BY <1>1, <2>1, <2>2
  <2>4. e \in Poll!Newest(longer)
    BY <1>2, <2>2, <2>3
  <2>5. \A i \in 1 .. (Len(list) + 1) : i \in 1 .. Len(list) \/ i = Len(list) + 1
    BY <2>1
  <2>6. \A i \in 1 .. Len(list) : i \in 1 .. (Len(list) + 1)
    BY <2>1
  <2>7. Poll!ToSet(longer) = Poll!ToSet(list) \union {e}
    BY <2>1, <2>2, <2>5, <2>6 DEF Poll!ToSet
  <2> QED BY <2>4, <2>7 DEF longer
<1>5. Poll!ToSet(list) \subseteq Poll!Events
  BY DEF Poll!ToSet
<1> QED BY <1>3, <1>4, <1>5

PollRecord ==
    [at : {"idle", "asked", "renewed", "answered"}, since : 0 .. MaxEvents,
     events : SUBSET Poll!Events]

PollTyped ==
    /\ recent \in Seq(Poll!Events) /\ cursor \in 0 .. MaxEvents
    /\ poll \in [PollSlots -> PollRecord]
    /\ polled \in [Poll!Events -> Nat] /\ twoPolls \in BOOLEAN
    /\ published \subseteq Poll!Events /\ late \subseteq Poll!Events
    /\ gone \subseteq Poll!Events

\* What was published is in the reach of a poll, or accounted for.
InReach ==
    /\ Poll!ToSet(recent) \subseteq published
    /\ \A e \in published : e \in Poll!Newest(recent) \/ e \in late \union gone

\* What poll p asks for is behind the cursor, and its answer leaves nothing out
\* below its youngest event.
Brought(p) ==
    /\ poll[p].at = "idle" => poll[p] = Poll!Idle
    /\ poll[p].since <= cursor
    /\ poll[p].at = "answered" =>
         /\ poll[p].events \subseteq published
         /\ \A d \in poll[p].events : d > poll[p].since
         /\ \A d \in poll[p].events, e \in published :
               e <= d => \/ e \in poll[p].events \/ e <= poll[p].since
                         \/ e \in late \union gone

Handled ==
    /\ cursor = 0 \/ cursor \in published
    /\ \A e \in published : e <= cursor => polled[e] > 0 \/ e \in late \union gone

\* Without overlaps there is one poll, and it asks for what comes after the cursor.
OnePoll ==
    ~twoPolls =>
        /\ \A p, q \in PollSlots : p = q \/ poll[p] = Poll!Idle \/ poll[q] = Poll!Idle
        /\ \A p \in PollSlots : poll[p] # Poll!Idle => poll[p].since = cursor
        /\ \A e \in Poll!Events : polled[e] <= 1 /\ (polled[e] > 0 => e <= cursor)

PollInv ==
    /\ PollTyped /\ InReach /\ (\A p \in PollSlots : Brought(p)) /\ Handled /\ OnePoll

LEMMA PollStarts == Poll!PollAssumption /\ Poll!Init => PollInv
<1> SUFFICES ASSUME Poll!PollAssumption, Poll!Init PROVE PollInv
  OBVIOUS
<1>1. MaxEvents \in Nat /\ 0 \in 0 .. MaxEvents
  BY DEF Poll!PollAssumption
<1>2. Poll!Idle \in PollRecord
  BY <1>1 DEF Poll!Idle, PollRecord
<1>3. PollTyped
  <2>1. recent \in Seq(Poll!Events) /\ cursor \in 0 .. MaxEvents
    BY <1>1 DEF Poll!Init
  <2>2. poll \in [PollSlots -> PollRecord] /\ polled \in [Poll!Events -> Nat]
    BY <1>2 DEF Poll!Init
  <2>3. twoPolls \in BOOLEAN /\ published = {} /\ late = {} /\ gone = {}
    BY DEF Poll!Init
  <2> QED BY <2>1, <2>2, <2>3 DEF PollTyped
<1>4. InReach
  BY DEF Poll!Init, InReach, Poll!ToSet
<1>5. (\A p \in PollSlots : Brought(p)) /\ Handled /\ OnePoll
  BY DEF Poll!Init, Brought, Handled, OnePoll, Poll!Idle
<1> QED BY <1>3, <1>4, <1>5 DEF PollInv

\* An event that is published behind a younger one is late, one in front is news.
LEMMA PublishStep ==
    ASSUME Poll!PollAssumption, PollInv, NEW e \in Poll!Events, Poll!Publish(e)
    PROVE  PollInv'
<1>0. PollTyped /\ InReach /\ (\A p \in PollSlots : Brought(p)) /\ Handled /\ OnePoll
  BY DEF PollInv
<1>1. /\ published' = published \union {e} /\ recent' = Append(recent, e) /\ e \notin published
      /\ late' = late \union {d \in {e} : \E younger \in published : younger > d}
      /\ gone' = gone \union (Poll!Newest(recent) \ Poll!Newest(recent'))
      /\ cursor' = cursor /\ poll' = poll /\ polled' = polled /\ twoPolls' = twoPolls
  BY DEF Poll!Publish
<1>2. recent \in Seq(Poll!Events)
  BY <1>0 DEF PollTyped
<1>3. /\ Poll!Newest(recent) \subseteq Poll!Events
      /\ e \in Poll!Newest(recent') /\ Poll!ToSet(recent') = Poll!ToSet(recent) \union {e}
      /\ recent' \in Seq(Poll!Events)
  BY <1>1, <1>2, NewestOf
<1>4. PollTyped'
  BY <1>0, <1>1, <1>3 DEF PollTyped
<1>5. InReach'
  BY <1>0, <1>1, <1>3 DEF InReach
<1>6. late \subseteq late' /\ gone \subseteq gone'
  BY <1>1
<1>7. ASSUME NEW d \in published, d >= e PROVE e \in late'
  <2>1. d > e
    BY <1>0, <1>1, <1>7 DEF PollTyped, Poll!Events
  <2> QED BY <1>1, <2>1
<1>8. ASSUME NEW p \in PollSlots PROVE Brought(p)'
  <2>1. Brought(p)
    BY <1>0
  <2>2. ASSUME poll[p].at = "answered", NEW d \in poll[p].events, NEW b \in published', b <= d
        PROVE  \/ b \in poll[p].events \/ b <= poll[p].since \/ b \in late' \union gone'
    <3>1. d \in published
      BY <2>1, <2>2 DEF Brought
    <3>2. CASE b = e
      <4>1. d >= e
        BY <2>2, <3>2, <3>1, <1>0 DEF PollTyped, Poll!Events
      <4> QED BY <4>1, <3>1, <3>2, <1>7
    <3>3. CASE b \in published
      BY <2>1, <2>2, <3>3, <1>6 DEF Brought
    <3> QED BY <3>2, <3>3, <1>1
  <2> QED BY <2>1, <2>2, <1>1 DEF Brought
<1>9. Handled'
  <2>1. ASSUME NEW b \in published', b <= cursor
        PROVE  polled[b] > 0 \/ b \in late' \union gone'
    <3>1. CASE b = e
      <4>1. cursor \in published /\ cursor >= e
        BY <2>1, <3>1, <1>0 DEF Handled, PollTyped, Poll!Events
      <4> QED BY <4>1, <3>1, <1>7
    <3>2. CASE b \in published
      BY <2>1, <3>2, <1>0, <1>6 DEF Handled
    <3> QED BY <3>1, <3>2, <1>1
  <2> QED BY <2>1, <1>0, <1>1 DEF Handled
<1>10. OnePoll'
  BY <1>0, <1>1 DEF OnePoll
<1> QED BY <1>4, <1>5, <1>8, <1>9, <1>10 DEF PollInv

\* The answer is what is in reach and younger than what the poll asked with.
LEMMA AnsweredStep ==
    ASSUME Poll!PollAssumption, PollInv, NEW p \in PollSlots, Poll!Answered(p)
    PROVE  PollInv'
<1>0. PollTyped /\ InReach /\ (\A q \in PollSlots : Brought(q)) /\ Handled /\ OnePoll
  BY DEF PollInv
<1> DEFINE events == {e \in Poll!Newest(recent) : e > poll[p].since}
<1>1. /\ poll[p].at \in {"asked", "renewed"}
      /\ poll' = [poll EXCEPT ![p].at = "answered", ![p].events = events]
      /\ UNCHANGED <<recent, cursor, polled, published, late, gone, twoPolls>>
  BY DEF Poll!Answered
<1>2. /\ Poll!Newest(recent) \subseteq Poll!ToSet(recent)
      /\ Poll!ToSet(recent) \subseteq Poll!Events
  BY <1>0, NewestOf DEF PollTyped
<1>3. /\ \A e \in published : e > poll[p].since => e \in events \/ e \in late \union gone
      /\ events \subseteq published /\ events \subseteq Poll!Events
      /\ \A e \in events : e > poll[p].since
  BY <1>0, <1>2 DEF InReach
<1> HIDE DEF events
<1>4. poll[p] \in PollRecord
  BY <1>0 DEF PollTyped
<1>5. /\ poll' \in [PollSlots -> PollRecord]
      /\ poll'[p].at = "answered" /\ poll'[p].events = events
      /\ poll'[p].since = poll[p].since /\ \A q \in PollSlots \ {p} : poll'[q] = poll[q]
  BY <1>0, <1>1, <1>3, <1>4 DEF PollTyped, PollRecord
<1>6. PollTyped'
  BY <1>0, <1>1, <1>5 DEF PollTyped
<1>7. InReach' /\ Handled'
  BY <1>0, <1>1 DEF InReach, Handled
<1>8. ASSUME NEW q \in PollSlots PROVE Brought(q)'
  <2>1. CASE q # p
    BY <2>1, <1>0, <1>1, <1>5 DEF Brought
  <2>2. CASE q = p
    <3>1. ASSUME NEW d \in events, NEW b \in published, b <= d
          PROVE  b \in events \/ b <= poll[p].since \/ b \in late \union gone
      <4>1. b \in Nat /\ poll[p].since \in Nat
        BY <1>0, <1>4 DEF PollTyped, PollRecord, Poll!Events
      <4> QED BY <4>1, <1>3
    <3>2. poll'[p].since <= cursor'
      BY <1>0, <1>1, <1>5 DEF Brought
    <3> QED BY <2>2, <3>1, <3>2, <1>1, <1>3, <1>5 DEF Brought
  <2> QED BY <2>1, <2>2
<1>9. OnePoll'
  <2>1. poll[p] # Poll!Idle
    BY <1>1 DEF Poll!Idle
  <2> QED BY <2>1, <1>0, <1>1, <1>5 DEF OnePoll
<1> QED BY <1>6, <1>7, <1>8, <1>9 DEF PollInv

\* The cursor moves to the youngest of the events that came.
LEMMA ArriveStep ==
    ASSUME Poll!PollAssumption, PollInv, NEW p \in PollSlots, Poll!Arrive(p)
    PROVE  PollInv'
<1>0. PollTyped /\ InReach /\ (\A q \in PollSlots : Brought(q)) /\ Handled /\ OnePoll
  BY DEF PollInv
<1> DEFINE events == poll[p].events
<1>1. /\ poll[p].at = "answered" /\ poll' = [poll EXCEPT ![p] = Poll!Idle]
      /\ polled' = [e \in Poll!Events |-> polled[e] + IF e \in events THEN 1 ELSE 0]
      /\ cursor' = Poll!Max(events \union {cursor})
      /\ UNCHANGED <<recent, published, late, gone, twoPolls>>
  BY DEF Poll!Arrive
<1>2. /\ poll[p] \in PollRecord /\ events \subseteq Poll!Events /\ cursor \in 0 .. MaxEvents
      /\ MaxEvents \in Nat /\ published \subseteq Poll!Events
      /\ polled \in [Poll!Events -> Nat]
  BY <1>0 DEF PollTyped, PollRecord, Poll!PollAssumption
<1>3. events \union {cursor} \subseteq 0 .. MaxEvents
  BY <1>2 DEF Poll!Events
<1>4. /\ cursor' \in events \union {cursor} /\ cursor' \in 0 .. MaxEvents
      /\ \A e \in events : e <= cursor' /\ cursor <= cursor'
  <2>1. /\ cursor' \in events \union {cursor}
        /\ \A y \in events \union {cursor} : cursor' >= y
    BY <1>1, <1>2, <1>3, MaxOfNaturals
  <2> QED BY <2>1, <1>3
<1>5. cursor <= cursor'
  <2>1. \A y \in events \union {cursor} : cursor' >= y
    BY <1>1, <1>2, <1>3, MaxOfNaturals
  <2> QED BY <2>1, <1>2, <1>4
<1>6. /\ \A e \in Poll!Events : polled'[e] \in Nat /\ polled'[e] >= polled[e]
      /\ \A e \in events : polled'[e] = polled[e] + 1 /\ polled'[e] > 0
      /\ \A e \in Poll!Events \ events : polled'[e] = polled[e]
      /\ polled' \in [Poll!Events -> Nat]
  BY <1>1, <1>2
<1>7. Brought(p) /\ poll[p].since \in 0 .. MaxEvents /\ poll[p] # Poll!Idle
  BY <1>0, <1>1, <1>2 DEF PollRecord, Poll!Idle
<1>8. /\ poll' \in [PollSlots -> PollRecord] /\ poll'[p] = Poll!Idle
      /\ \A q \in PollSlots \ {p} : poll'[q] = poll[q]
  <2>1. Poll!Idle \in PollRecord
    BY <1>2 DEF Poll!Idle, PollRecord
  <2> QED BY <2>1, <1>0, <1>1 DEF PollTyped
<1>9. PollTyped' /\ InReach'
  BY <1>0, <1>1, <1>4, <1>6, <1>8 DEF PollTyped, InReach
<1>10. ASSUME NEW q \in PollSlots PROVE Brought(q)'
  <2>1. CASE q = p
    BY <2>1, <1>4, <1>8 DEF Brought, Poll!Idle
  <2>2. CASE q # p
    <3>1. Brought(q) /\ poll'[q] = poll[q] /\ poll[q].since \in 0 .. MaxEvents
      BY <2>2, <1>0, <1>8 DEF PollTyped, PollRecord
    <3>2. poll[q].since <= cursor'
      BY <3>1, <1>2, <1>4, <1>5 DEF Brought
    <3> QED BY <3>1, <3>2, <1>1 DEF Brought
  <2> QED BY <2>1, <2>2
<1>11. Handled'
  <2>1. cursor' = 0 \/ cursor' \in published
    BY <1>0, <1>1, <1>4, <1>7 DEF Handled, Brought
  <2>2. ASSUME NEW e \in published, e <= cursor'
        PROVE  polled'[e] > 0 \/ e \in late \union gone
    <3>0. e \in Poll!Events /\ e \in Nat
      BY <1>2 DEF Poll!Events
    <3>1. CASE e <= cursor
      <4>1. polled[e] > 0 \/ e \in late \union gone
        BY <3>1, <1>0 DEF Handled
      <4> QED BY <4>1, <3>0, <1>2, <1>6
    <3>2. CASE ~ (e <= cursor)
      <4>1. cursor' \in events
        BY <3>2, <2>2, <1>4
      <4>2. e \in events \/ e <= poll[p].since \/ e \in late \union gone
        BY <4>1, <2>2, <1>1, <1>7 DEF Brought
      <4>3. ~ (e <= poll[p].since)
        BY <3>0, <3>2, <1>2, <1>7 DEF Brought
      <4> QED BY <4>2, <4>3, <1>6
    <3> QED BY <3>1, <3>2
  <2> QED BY <2>1, <2>2, <1>1 DEF Handled
<1>12. OnePoll'
  <2> SUFFICES ASSUME ~twoPolls PROVE
        /\ \A a, b \in PollSlots : a = b \/ poll'[a] = Poll!Idle \/ poll'[b] = Poll!Idle
        /\ \A a \in PollSlots : poll'[a] # Poll!Idle => poll'[a].since = cursor'
        /\ \A e \in Poll!Events : polled'[e] <= 1 /\ (polled'[e] > 0 => e <= cursor')
    BY <1>1 DEF OnePoll
  <2>1. \A a \in PollSlots : poll'[a] = Poll!Idle
    BY <1>0, <1>7, <1>8 DEF OnePoll
  <2>2. poll[p].since = cursor
    BY <1>0, <1>7 DEF OnePoll
  <2>3. ASSUME NEW e \in Poll!Events
        PROVE  polled'[e] <= 1 /\ (polled'[e] > 0 => e <= cursor')
    <3>0. e \in Nat /\ polled[e] \in Nat /\ polled[e] <= 1 /\ (polled[e] > 0 => e <= cursor)
      BY <1>0, <1>2 DEF OnePoll, Poll!Events
    <3>1. CASE e \in events
      <4>1. e > cursor
        BY <3>1, <2>2, <1>1, <1>7 DEF Brought
      <4>2. polled[e] = 0
        BY <4>1, <3>0, <1>2
      <4> QED BY <3>1, <4>2, <1>4, <1>6
    <3>2. CASE e \notin events
      BY <3>0, <3>2, <1>2, <1>4, <1>5, <1>6
    <3> QED BY <3>1, <3>2
  <2> QED BY <2>1, <2>3
<1> QED BY <1>9, <1>10, <1>11, <1>12 DEF PollInv

\* The other steps of a poll: it begins, renews its token, or fails.
LEMMA PollMoves ==
    ASSUME Poll!PollAssumption, PollInv, NEW p \in PollSlots,
           Poll!Ask(p) \/ Poll!Renew(p) \/ Poll!AskFails(p)
    PROVE  PollInv'
<1>0. PollTyped /\ InReach /\ (\A q \in PollSlots : Brought(q)) /\ Handled /\ OnePoll
  BY DEF PollInv
<1>1. /\ recent' = recent /\ cursor' = cursor /\ polled' = polled
      /\ published' = published /\ late' = late /\ gone' = gone
      /\ (twoPolls => twoPolls') /\ twoPolls' \in BOOLEAN
  BY <1>0, Zenon DEF Poll!Ask, Poll!Renew, Poll!AskFails, PollTyped
<1>2. /\ poll[p] \in PollRecord /\ cursor \in 0 .. MaxEvents /\ MaxEvents \in Nat
      /\ poll \in [PollSlots -> PollRecord]
  BY <1>0 DEF PollTyped, Poll!PollAssumption
<1>3. InReach' /\ Handled'
  BY <1>0, <1>1 DEF InReach, Handled
<1>4. ASSUME NEW put \in PollRecord, poll' = [poll EXCEPT ![p] = put], put.at # "answered",
             put.since <= cursor, put.at = "idle" => put = Poll!Idle,
             put # Poll!Idle /\ ~twoPolls' =>
                put.since = cursor /\ \A q \in PollSlots \ {p} : poll[q] = Poll!Idle
      PROVE  PollInv'
  <2>1. poll'[p] = put /\ \A q \in PollSlots \ {p} : poll'[q] = poll[q]
    BY <1>4, <1>2
  <2>2. PollTyped'
    <3>1. poll' \in [PollSlots -> PollRecord]
      BY <1>2, <1>4
    <3> QED BY <3>1, <1>0, <1>1, Zenon DEF PollTyped
  <2>3. \A q \in PollSlots : Brought(q)'
    BY <2>1, <1>0, <1>1, <1>4 DEF Brought
  <2>4. OnePoll'
    BY <2>1, <1>0, <1>1, <1>4 DEF OnePoll
  <2> QED BY <2>2, <2>3, <2>4, <1>3 DEF PollInv
<1>5. CASE Poll!Ask(p)
  <2> DEFINE put == [[poll[p] EXCEPT !.at = "asked"] EXCEPT !.since = cursor]
  <2>1. poll[p] = Poll!Idle /\ poll' = [poll EXCEPT ![p].at = "asked", ![p].since = cursor]
    BY <1>5 DEF Poll!Ask
  <2>2. poll' = [poll EXCEPT ![p] = put]
    BY <2>1, <1>2
  <2>3. put \in PollRecord /\ put.at = "asked" /\ put.since = cursor
    BY <1>2 DEF PollRecord
  <2>4. ~twoPolls' => \A q \in PollSlots \ {p} : poll[q] = Poll!Idle
    BY <1>5 DEF Poll!Ask
  <2>5. cursor <= cursor
    BY <1>2
  <2>6. put.at # "answered" /\ put.at # "idle"
    BY <2>3
  <2> HIDE DEF put
  <2> QED BY <2>2, <2>3, <2>4, <2>5, <2>6, <1>4
<1>6. CASE Poll!Renew(p)
  <2> DEFINE put == [poll[p] EXCEPT !.at = "renewed"]
  <2>1. poll[p].at = "asked" /\ poll' = [poll EXCEPT ![p].at = "renewed"] /\ twoPolls' = twoPolls
    BY <1>6 DEF Poll!Renew
  <2>2. poll' = [poll EXCEPT ![p] = put]
    BY <2>1, <1>2
  <2>3. put \in PollRecord /\ put.at = "renewed" /\ put.since = poll[p].since
    BY <1>2 DEF PollRecord
  <2>4. poll[p] # Poll!Idle /\ poll[p].since <= cursor
    BY <2>1, <1>0 DEF Poll!Idle, Brought
  <2>5. ~twoPolls => poll[p].since = cursor /\ \A q \in PollSlots \ {p} : poll[q] = Poll!Idle
    BY <2>4, <1>0 DEF OnePoll
  <2> HIDE DEF put
  <2> QED BY <2>1, <2>2, <2>3, <2>4, <2>5, <1>4
<1>7. CASE Poll!AskFails(p)
  <2>1. poll' = [poll EXCEPT ![p] = Poll!Idle]
    BY <1>7 DEF Poll!AskFails
  <2>2. Poll!Idle \in PollRecord /\ Poll!Idle.at = "idle" /\ Poll!Idle.since <= cursor
    BY <1>2 DEF Poll!Idle, PollRecord
  <2> QED BY <2>1, <2>2, <1>4
<1> QED BY <1>5, <1>6, <1>7

LEMMA PollStays == Poll!PollAssumption /\ PollInv /\ [Poll!Next]_Poll!vars => PollInv'
<1> SUFFICES ASSUME Poll!PollAssumption, PollInv, [Poll!Next]_Poll!vars PROVE PollInv'
  OBVIOUS
<1>0. PollTyped /\ InReach /\ (\A p \in PollSlots : Brought(p)) /\ Handled /\ OnePoll
  BY DEF PollInv
<1>1. CASE Poll!Expire
  <2>1. /\ recent' = << >> /\ gone' = gone \union Poll!ToSet(recent)
        /\ UNCHANGED <<cursor, poll, polled, published, late, twoPolls>>
    BY <1>1 DEF Poll!Expire
  <2>2. /\ Poll!Newest(recent) \subseteq Poll!ToSet(recent)
        /\ Poll!ToSet(recent) \subseteq Poll!Events
    BY <1>0, NewestOf DEF PollTyped
  <2>3. Poll!ToSet(recent') = {}
    BY <2>1 DEF Poll!ToSet
  <2>4. PollTyped'
    BY <1>0, <2>1, <2>2 DEF PollTyped
  <2>5. InReach' /\ Handled'
    BY <1>0, <2>1, <2>2, <2>3 DEF InReach, Handled
  <2>6. (\A p \in PollSlots : Brought(p)') /\ OnePoll'
    BY <1>0, <2>1 DEF Brought, OnePoll
  <2> QED BY <2>4, <2>5, <2>6 DEF PollInv
<1>2. CASE UNCHANGED Poll!vars
  BY <1>0, <1>2 DEF Poll!vars, PollInv, PollTyped, InReach, Brought, Handled, OnePoll
<1> QED BY <1>1, <1>2, PublishStep, AnsweredStep, ArriveStep, PollMoves DEF Poll!Next

LEMMA PollInSum == (SumInit => Poll!Init) /\ ([SumNext]_allVars => [Poll!Next]_Poll!vars)
  BY DEF SumInit, SumNext, allVars, pollVars, Poll!vars

LEMMA PollHolds == SumSpec => []PollInv
<1>1. SumInit => PollInv
  BY PollInSum, PollStarts, RecordsAssumptions
<1>2. PollInv /\ [SumNext]_allVars => PollInv'
  BY PollInSum, PollStays, RecordsAssumptions
<1> QED BY <1>1, <1>2, PTL DEF SumSpec

\* Polls repeat an event only when two were under way at the same time, and the cursor
\* passes an event only if it was handled, was published behind a younger one, or had
\* left the reach of a poll, for any number of events, polls and publishers and any
\* limit (pollOnce, get_recent_events).
THEOREM CursorIsSound == SumSpec => []Poll!CursorSound
<1>1. PollInv => Poll!CursorSound
  BY DEF PollInv, Handled, OnePoll, Poll!CursorSound
<1> QED BY <1>1, PollHolds, PTL


-----------------------------------------------------------------------------
(* The session of a browser tab.                                           *)

TabCalls == [at : {"idle", "sent", "waiting", "done", "failed"}, token : Tab!AccessTokens,
             again : BOOLEAN]
TabRefreshes == [at : {"idle", "asked", "granted", "refused"}, token : Tab!AccessTokens]

LEMMA TabConstants ==
    Tab!SessionAssumption =>
        /\ MaxLogins \in Nat /\ MaxExpiries \in Nat /\ MaxLoads \in Nat
        /\ Tab!None \in Tab!AccessTokens /\ Tab!NoSession \in Tab!SessionRecords
        /\ Tab!Free \in TabCalls /\ Tab!NoRefresh \in TabRefreshes
<1> SUFFICES ASSUME Tab!SessionAssumption
             PROVE  /\ MaxLogins \in Nat /\ MaxExpiries \in Nat /\ MaxLoads \in Nat
                    /\ Tab!None \in Tab!AccessTokens /\ Tab!NoSession \in Tab!SessionRecords
                    /\ Tab!Free \in TabCalls /\ Tab!NoRefresh \in TabRefreshes
  OBVIOUS
<1>1. MaxLogins \in Nat /\ MaxExpiries \in Nat /\ MaxLoads \in Nat
  BY DEF Tab!SessionAssumption
<1>2. Tab!None \in Tab!AccessTokens
  BY <1>1 DEF Tab!None, Tab!AccessTokens
<1>3. Tab!NoSession \in Tab!SessionRecords
  BY <1>1, <1>2 DEF Tab!NoSession, Tab!SessionRecords
<1>4. Tab!Free \in TabCalls /\ Tab!NoRefresh \in TabRefreshes
  BY <1>2 DEF Tab!Free, Tab!NoRefresh, TabCalls, TabRefreshes
<1> QED BY <1>1, <1>2, <1>3, <1>4

TabTyped ==
    /\ stored \in Tab!SessionRecords /\ shown \in Tab!SessionRecords
    /\ page \in {"none", "login", "app"} /\ going \in {"no", "waits", "replaced"}
    /\ boot \in {"none", "me", "refresh", "meAgain", "true", "false"}
    /\ bootRefresh \in 0 .. MaxLogins /\ leaving \in 0 .. MaxLogins
    /\ logins \in 0 .. MaxLogins
    /\ calling \in [Calls \union {"me"} -> TabCalls]
    /\ refresh \in [Tab!Refreshers -> TabRefreshes]
    /\ age \in [Tab!Sessions -> 0 .. MaxExpiries] /\ revoked \subseteq Tab!Sessions
    /\ loads \in 0 .. MaxLoads /\ crossed \in BOOLEAN /\ thrownOut \in BOOLEAN

LEMMA TabTypes == TabTyped <=> Tab!TypeOK
  BY DEF TabTyped, Tab!TypeOK, TabCalls, TabRefreshes

\* A token of no session is no token.
Real(t) == t.of = 0 => t = Tab!None

\* The parts of a session that are of one login.
OfOneLogin(s) == s.access.of \in {0, s.refresh} /\ s.user \in {0, s.refresh}

TokensReal ==
    /\ Real(stored.access) /\ Real(shown.access)
    /\ \A f \in Tab!Refreshers : refresh[f].at # "idle" => refresh[f].token.of # 0
    /\ \A f \in Tab!Refreshers : refresh[f].at = "idle" => refresh[f] = Tab!NoRefresh
    /\ refresh["boot"].at # "idle" => boot = "refresh" /\ refresh["boot"].token.of = bootRefresh

\* What is stored and what is shown, while nothing has crossed.
Together ==
    ~crossed =>
        /\ OfOneLogin(stored) /\ OfOneLogin(shown)
        /\ stored.refresh = shown.refresh \/ (boot = "none" /\ shown = Tab!NoSession)
        /\ boot \in {"me", "true", "false"} /\ stored.refresh # 0 => shown.user # 0

TabInv ==
    TabTyped /\ TokensReal /\ Together /\ (thrownOut => boot = "false")

LEMMA TabStarts == Tab!SessionAssumption /\ Tab!Init => TabInv
<1> SUFFICES ASSUME Tab!SessionAssumption, Tab!Init PROVE TabInv
  OBVIOUS
<1>1. TabTyped
  <2>1. /\ calling \in [Calls \union {"me"} -> TabCalls]
        /\ refresh \in [Tab!Refreshers -> TabRefreshes]
        /\ stored \in Tab!SessionRecords /\ shown \in Tab!SessionRecords
    BY TabConstants DEF Tab!Init
  <2>2. /\ bootRefresh \in 0 .. MaxLogins /\ leaving \in 0 .. MaxLogins
        /\ logins \in 0 .. MaxLogins /\ loads \in 0 .. MaxLoads
        /\ age \in [Tab!Sessions -> 0 .. MaxExpiries]
    BY TabConstants DEF Tab!Init
  <2> QED BY <2>1, <2>2 DEF Tab!Init, TabTyped
<1>2. TokensReal
  BY DEF Tab!Init, TokensReal, Real, Tab!NoSession, Tab!NoRefresh, Tab!Refreshers
<1>3. Together
  BY DEF Tab!Init, Together, OfOneLogin, Tab!NoSession, Tab!None
<1> QED BY <1>1, <1>2, <1>3 DEF TabInv, Tab!Init

\* clearUser, whatever it clears.
LEMMA ClearUserStep ==
    ASSUME Tab!ClearUser
    PROVE  /\ stored' = Tab!NoSession /\ shown' = Tab!NoSession /\ crossed' = FALSE
           /\ Real(stored'.access) /\ Real(shown'.access)
           /\ Together'
  BY DEF Tab!ClearUser, Real, Together, OfOneLogin, Tab!NoSession, Tab!None

\* initUser: the parts stay of one login.
LEMMA InitUserStep ==
    ASSUME TabInv, Tab!SessionAssumption, Tab!InitUser
    PROVE  /\ stored' \in Tab!SessionRecords /\ shown' \in Tab!SessionRecords
           /\ crossed' \in BOOLEAN /\ Real(stored'.access) /\ Real(shown'.access)
           /\ ~crossed' =>
                /\ OfOneLogin(stored)' /\ OfOneLogin(shown)'
                /\ stored'.refresh = shown'.refresh
                /\ ~crossed /\ boot = "true" /\ stored'.refresh # 0 => shown'.user # 0
<1>0. TabTyped /\ TokensReal /\ Together
  BY DEF TabInv
<1>1. CASE Tab!ClearUser
  BY <1>1, ClearUserStep, TabConstants DEF OfOneLogin, Tab!NoSession, Tab!None
<1>2. CASE ~Tab!ClearUser
  <2>1. /\ shown' = [stored EXCEPT !.user = IF @ # 0 THEN @ ELSE shown.user]
        /\ stored' = stored /\ crossed' = crossed
    BY <1>2 DEF Tab!InitUser
  <2>2. /\ stored.access \in Tab!AccessTokens /\ stored.refresh \in 0 .. MaxLogins
        /\ stored.user \in 0 .. MaxLogins /\ shown.user \in 0 .. MaxLogins
        /\ stored \in Tab!SessionRecords /\ crossed \in BOOLEAN
    BY <1>0 DEF TabTyped, Tab!SessionRecords
  <2>3. /\ shown' \in Tab!SessionRecords /\ shown'.access = stored.access
        /\ shown'.refresh = stored.refresh
        /\ shown'.user = IF stored.user # 0 THEN stored.user ELSE shown.user
    BY <2>1, <2>2 DEF Tab!SessionRecords
  <2>4. Real(stored.access)
    BY <1>0 DEF TokensReal
  <2>5. ASSUME ~crossed
        PROVE  /\ OfOneLogin(stored)' /\ OfOneLogin(shown)'
               /\ boot = "true" /\ stored.refresh # 0 => shown'.user # 0
    <3>1. OfOneLogin(stored) /\ OfOneLogin(shown)
      BY <2>5, <1>0 DEF Together
    <3>2. shown.user # 0 => shown.user = stored.refresh
      BY <2>5, <1>0, <3>1 DEF Together, OfOneLogin, Tab!NoSession
    <3>3. boot = "true" /\ stored.refresh # 0 => shown.user # 0
      BY <2>5, <1>0 DEF Together
    <3> QED BY <3>1, <3>2, <3>3, <2>1, <2>3 DEF OfOneLogin
  <2> QED BY <2>1, <2>2, <2>3, <2>4, <2>5
<1> QED BY <1>1, <1>2

\* Steps of requests and of the server: tokens are sent, checked and made.
LEMMA TabAside ==
    ASSUME TabInv, TabTyped', TokensReal', UNCHANGED <<stored, shown, crossed, boot, thrownOut>>
    PROVE  TabInv'
  BY DEF TabInv, Together, OfOneLogin

LEMMA TabCallStep ==
    ASSUME TabInv, Tab!SessionAssumption,
           \/ Tab!LogoutAsks \/ Tab!RevokedByLogout
           \/ \E r \in Calls : Tab!Call(r)
           \/ \E r \in DOMAIN calling : Tab!Answered(r)
           \/ \E s \in Tab!Sessions : Tab!Expire(s)
    PROVE  TabInv'
<1>0. TabTyped /\ TokensReal /\ MaxLogins \in Nat /\ MaxExpiries \in Nat /\ Tab!Free \in TabCalls
  BY TabConstants DEF TabInv
<1>1. /\ stored' = stored /\ shown' = shown /\ crossed' = crossed /\ boot' = boot
      /\ thrownOut' = thrownOut /\ bootRefresh' = bootRefresh /\ refresh' = refresh
      /\ page' = page /\ going' = going /\ logins' = logins /\ loads' = loads
  BY DEF Tab!LogoutAsks, Tab!RevokedByLogout, Tab!Call, Tab!Answered, Tab!Expire, Tab!tokens,
         Tab!server
<1>2. stored.access \in Tab!AccessTokens /\ shown.refresh \in 0 .. MaxLogins
  BY <1>0 DEF TabTyped, Tab!SessionRecords
<1>3. leaving' \in 0 .. MaxLogins
  BY <1>0, <1>2 DEF Tab!LogoutAsks, Tab!RevokedByLogout, Tab!Call, Tab!Answered, Tab!Expire,
                    TabTyped
<1>4. revoked' \subseteq Tab!Sessions
  <2>1. \/ revoked' = revoked
        \/ leaving # 0 /\ revoked' = revoked \union {leaving}
        \/ \E s \in Tab!Sessions : revoked' = revoked \union {s}
    BY DEF Tab!LogoutAsks, Tab!RevokedByLogout, Tab!Call, Tab!Answered, Tab!Expire, Tab!server
  <2>2. leaving # 0 => leaving \in Tab!Sessions
    BY <1>0 DEF TabTyped, Tab!Sessions
  <2> QED BY <2>1, <2>2, <1>0 DEF TabTyped
<1>5. age' \in [Tab!Sessions -> 0 .. MaxExpiries]
  <2>1. CASE age' = age
    BY <2>1, <1>0 DEF TabTyped
  <2>2. ASSUME NEW s \in Tab!Sessions, age[s] < MaxExpiries, age' = [age EXCEPT ![s] = @ + 1]
        PROVE  age' \in [Tab!Sessions -> 0 .. MaxExpiries]
    <3>1. age \in [Tab!Sessions -> 0 .. MaxExpiries]
      BY <1>0 DEF TabTyped
    <3>2. age[s] + 1 \in 0 .. MaxExpiries
      BY <2>2, <3>1, <1>0
    <3> QED BY <2>2, <3>1, <3>2
  <2> QED BY <2>1, <2>2 DEF Tab!LogoutAsks, Tab!RevokedByLogout, Tab!Call, Tab!Answered,
                            Tab!Expire, Tab!server
<1>6. calling' \in [Calls \union {"me"} -> TabCalls]
  <2>1. calling \in [Calls \union {"me"} -> TabCalls]
    BY <1>0 DEF TabTyped
  <2>2. CASE calling' = calling
    BY <2>1, <2>2
  <2>3. ASSUME NEW r \in Calls, Tab!Call(r) PROVE calling' \in [Calls \union {"me"} -> TabCalls]
    BY <2>1, <2>3, <1>2 DEF Tab!Call, Tab!Send, TabCalls
  <2>4. ASSUME NEW r \in DOMAIN calling, Tab!Answered(r)
        PROVE  calling' \in [Calls \union {"me"} -> TabCalls]
    <3>1. PICK how \in {"done", "failed"} : Tab!Result(r, how)
      BY <2>4 DEF Tab!Answered
    <3>2. r \in Calls \union {"me"} /\ calling[r] \in TabCalls
      BY <2>1
    <3>3. [calling[r] EXCEPT !.at = how] \in TabCalls
      BY <3>2 DEF TabCalls
    <3> QED BY <2>1, <3>1, <3>2, <3>3, <1>0 DEF Tab!Result
  <2> QED BY <2>2, <2>3, <2>4 DEF Tab!LogoutAsks, Tab!RevokedByLogout, Tab!Expire
<1>7. TabTyped'
  BY <1>0, <1>1, <1>3, <1>4, <1>5, <1>6, Zenon DEF TabTyped
<1>8. TokensReal'
  BY <1>0, <1>1 DEF TokensReal, Real
<1> QED BY <1>1, <1>7, <1>8, TabAside

\* Steps that ask for a refresh or answer it.
LEMMA TabRefreshStep ==
    ASSUME TabInv, Tab!SessionAssumption,
           \/ \E r \in DOMAIN calling : Tab!Unauthorised(r)
           \/ Tab!FeedRefreshes \/ \E f \in Tab!Refreshers : Tab!RefreshServed(f)
    PROVE  TabInv'
<1>0. TabTyped /\ TokensReal /\ MaxLogins \in Nat /\ MaxExpiries \in Nat
  BY TabConstants DEF TabInv
<1>1. /\ stored' = stored /\ shown' = shown /\ crossed' = crossed /\ boot' = boot
      /\ thrownOut' = thrownOut /\ bootRefresh' = bootRefresh /\ leaving' = leaving
      /\ page' = page /\ going' = going /\ logins' = logins /\ loads' = loads
      /\ age' = age /\ revoked' = revoked
  BY DEF Tab!Unauthorised, Tab!FeedRefreshes, Tab!RefreshServed, Tab!tokens, Tab!server
<1>2. /\ refresh \in [Tab!Refreshers -> TabRefreshes] /\ stored.refresh \in 0 .. MaxLogins
      /\ calling \in [Calls \union {"me"} -> TabCalls]
      /\ age \in [Tab!Sessions -> 0 .. MaxExpiries]
  BY <1>0 DEF TabTyped, Tab!SessionRecords
<1>3. calling' \in [Calls \union {"me"} -> TabCalls]
  <2>1. CASE calling' = calling
    BY <2>1, <1>2
  <2>2. ASSUME NEW r \in DOMAIN calling, calling' = [calling EXCEPT ![r].at = "waiting"]
        PROVE  calling' \in [Calls \union {"me"} -> TabCalls]
    BY <2>2, <1>2 DEF TabCalls
  <2> QED BY <2>1, <2>2 DEF Tab!Unauthorised, Tab!FeedRefreshes, Tab!RefreshServed
<1>4. ASSUME NEW f \in Tab!Refreshers, NEW put \in TabRefreshes,
             refresh' = [refresh EXCEPT ![f] = put], put.at # "idle", put.token.of # 0,
             f = "boot" => put.token.of = refresh[f].token.of /\ refresh[f].at # "idle"
      PROVE  TabInv'
  <2>1. /\ refresh' \in [Tab!Refreshers -> TabRefreshes]
        /\ refresh'[f] = put /\ \A g \in Tab!Refreshers \ {f} : refresh'[g] = refresh[g]
    BY <1>2, <1>4
  <2>2. TabTyped'
    BY <1>0, <1>1, <1>3, <2>1, Zenon DEF TabTyped
  <2>3. TokensReal'
    BY <1>0, <1>1, <1>4, <2>1 DEF TokensReal, Real, Tab!Refreshers
  <2> QED BY <1>1, <2>2, <2>3, TabAside
<1>5. CASE refresh' = refresh
  <2>1. TabTyped' /\ TokensReal'
    BY <1>0, <1>1, <1>3, <1>5, Zenon DEF TabTyped, TokensReal, Real
  <2> QED BY <1>1, <2>1, TabAside
<1>6. ASSUME NEW f \in {"shared", "feed"}, stored.refresh # 0,
             Tab!AskRefresh(f, stored.refresh)
      PROVE  TabInv'
  <2> DEFINE put == [at |-> "asked", token |-> [of |-> stored.refresh, nth |-> 0]]
  <2>1. put \in TabRefreshes /\ put.at # "idle" /\ put.token.of # 0
    BY <1>0, <1>2, <1>6 DEF TabRefreshes, Tab!AccessTokens
  <2>2. f \in Tab!Refreshers /\ f # "boot"
    BY <1>6 DEF Tab!Refreshers
  <2>3. refresh' = [refresh EXCEPT ![f] = put]
    BY <1>6 DEF Tab!AskRefresh
  <2> HIDE DEF put
  <2> QED BY <2>1, <2>2, <2>3, <1>4
<1>7. ASSUME NEW f \in Tab!Refreshers, Tab!RefreshServed(f) PROVE TabInv'
  <2>1. /\ refresh[f] \in TabRefreshes /\ refresh[f].at = "asked" /\ refresh[f].token.of # 0
        /\ refresh[f].token \in Tab!AccessTokens
    BY <1>0, <1>2, <1>7 DEF Tab!RefreshServed, TokensReal, TabRefreshes
  <2> DEFINE s == refresh[f].token.of
             yes == [at |-> "granted", token |-> [of |-> s, nth |-> age[s]]]
             no == [refresh[f] EXCEPT !.at = "refused"]
  <2>2. s \in Tab!Sessions
    BY <2>1, <1>0 DEF Tab!Sessions, Tab!AccessTokens
  <2>3. yes \in TabRefreshes /\ yes.at # "idle" /\ yes.token.of = s
    BY <2>1, <2>2, <1>2 DEF TabRefreshes, Tab!AccessTokens
  <2>4. no \in TabRefreshes /\ no.at # "idle" /\ no.token.of = s
    BY <2>1 DEF TabRefreshes
  <2>5. \/ refresh' = [refresh EXCEPT ![f] = yes]
        \/ refresh' = [refresh EXCEPT ![f] = no]
    BY <1>7, <1>2 DEF Tab!RefreshServed
  <2>6. s = refresh[f].token.of /\ s # 0 /\ refresh[f].at # "idle"
    BY <2>1
  <2> HIDE DEF s, yes, no
  <2> QED BY <2>3, <2>4, <2>5, <2>6, <1>4
<1> QED BY <1>5, <1>6, <1>7 DEF Tab!Unauthorised, Tab!FeedRefreshes

\* Steps after which nothing is stored or shown.
LEMMA TabEnds ==
    ASSUME TabInv, Tab!SessionAssumption, Tab!ClearUser,
           page' = "login", going' \in {"no", "waits", "replaced"},
           boot' = boot, bootRefresh' = bootRefresh, leaving' \in {0, leaving},
           logins' = logins, age' = age, revoked' = revoked, loads' = loads,
           thrownOut' = thrownOut,
           calling' \in [Calls \union {"me"} -> TabCalls],
           refresh' \in {refresh, [refresh EXCEPT !["shared"] = Tab!NoRefresh]}
    PROVE  TabInv'
<1>0. TabTyped /\ TokensReal /\ MaxLogins \in Nat
  BY TabConstants DEF TabInv
<1>1. /\ Real(stored'.access) /\ Real(shown'.access) /\ Together' /\ crossed' \in BOOLEAN
      /\ stored' \in Tab!SessionRecords /\ shown' \in Tab!SessionRecords
  BY ClearUserStep, TabConstants
<1>2. /\ refresh' \in [Tab!Refreshers -> TabRefreshes]
      /\ \A f \in Tab!Refreshers : refresh'[f] \in {refresh[f], Tab!NoRefresh}
      /\ refresh'["boot"] = refresh["boot"]
  BY <1>0, TabConstants DEF TabTyped, Tab!Refreshers
<1>3. leaving' \in 0 .. MaxLogins /\ Tab!NoRefresh.at = "idle"
  BY <1>0 DEF TabTyped, Tab!NoRefresh
<1>4. TabTyped'
  BY <1>0, <1>1, <1>2, <1>3, Zenon DEF TabTyped
<1>5. TokensReal'
  BY <1>0, <1>1, <1>2, <1>3 DEF TokensReal, Real
<1> QED BY <1>1, <1>4, <1>5 DEF TabInv

LEMMA TabEndStep ==
    ASSUME TabInv, Tab!SessionAssumption,
           \/ Tab!LogoutEnds \/ Tab!SharedRefused
           \/ \E r \in DOMAIN calling : Tab!SessionLost(r)
    PROVE  TabInv'
<1>0. /\ calling \in [Calls \union {"me"} -> TabCalls] /\ going \in {"no", "waits", "replaced"}
      /\ Tab!Free \in TabCalls
  BY TabConstants DEF TabInv, TabTyped
<1>1. Tab!Replaced \in {"no", "waits", "replaced"}
  BY DEF Tab!Replaced
<1>2. ASSUME NEW r \in DOMAIN calling PROVE [calling[r] EXCEPT !.at = "failed"] \in TabCalls
  BY <1>0 DEF TabCalls
<1>3. CASE Tab!LogoutEnds
  BY <1>3, <1>0, <1>1, TabEnds DEF Tab!LogoutEnds, Tab!server
<1>4. CASE Tab!SharedRefused
  <2>1. calling' \in [Calls \union {"me"} -> TabCalls]
    BY <1>4, <1>0, <1>2 DEF Tab!SharedRefused
  <2> QED BY <2>1, <1>4, <1>1, TabEnds DEF Tab!SharedRefused, Tab!server
<1>5. ASSUME NEW r \in DOMAIN calling, Tab!SessionLost(r) PROVE TabInv'
  <2>1. calling' \in [Calls \union {"me"} -> TabCalls]
    BY <1>5, <1>0, <1>2 DEF Tab!SessionLost, Tab!Result
  <2> QED BY <2>1, <1>5, <1>1, TabEnds DEF Tab!SessionLost, Tab!server
<1> QED BY <1>3, <1>4, <1>5

\* A page load forgets the store and everything under way.
LEMMA TabLoadStep == ASSUME TabInv, Tab!SessionAssumption, Tab!Load PROVE TabInv'
<1>0. TabTyped /\ TokensReal /\ Together
  BY DEF TabInv
<1>1. /\ loads < MaxLoads /\ loads' = loads + 1 /\ shown' = Tab!NoSession
      /\ page' \in {"none", "login"} /\ going' = "no" /\ boot' = "none" /\ bootRefresh' = 0
      /\ leaving' = 0 /\ calling' = [r \in DOMAIN calling |-> Tab!Free]
      /\ refresh' = [f \in Tab!Refreshers |-> Tab!NoRefresh] /\ thrownOut' = FALSE
      /\ stored' = stored /\ logins' = logins /\ age' = age /\ revoked' = revoked
      /\ crossed' = crossed
  BY DEF Tab!Load
<1>2. loads' \in 0 .. MaxLoads /\ 0 \in 0 .. MaxLogins
  BY <1>0, <1>1, TabConstants DEF TabTyped
<1>3. calling' \in [Calls \union {"me"} -> TabCalls]
  BY <1>0, <1>1, TabConstants DEF TabTyped
<1>4. refresh' \in [Tab!Refreshers -> TabRefreshes] /\ shown' \in Tab!SessionRecords
  BY <1>1, TabConstants
<1>5. TabTyped'
  <2>1. /\ page' \in {"none", "login", "app"} /\ going' \in {"no", "waits", "replaced"}
        /\ boot' \in {"none", "me", "refresh", "meAgain", "true", "false"}
        /\ bootRefresh' \in 0 .. MaxLogins /\ leaving' \in 0 .. MaxLogins
        /\ thrownOut' \in BOOLEAN
    BY <1>1, <1>2
  <2> QED BY <2>1, <1>0, <1>1, <1>2, <1>3, <1>4, Zenon DEF TabTyped
<1>6. TokensReal'
  BY <1>0, <1>1 DEF TokensReal, Real, Tab!NoRefresh, Tab!Refreshers, Tab!NoSession
<1>7. Together'
  BY <1>0, <1>1 DEF Together, OfOneLogin, Tab!NoSession, Tab!None
<1> QED BY <1>1, <1>5, <1>6, <1>7 DEF TabInv

\* A login is stored and shown as one.
LEMMA TabLoginStep == ASSUME TabInv, Tab!SessionAssumption, Tab!Login PROVE TabInv'
<1>0. TabTyped /\ TokensReal /\ logins \in 0 .. MaxLogins /\ MaxLogins \in Nat
      /\ MaxExpiries \in Nat /\ age \in [Tab!Sessions -> 0 .. MaxExpiries]
  BY TabConstants DEF TabInv, TabTyped
<1> DEFINE put == [access |-> [of |-> logins', nth |-> age[logins']],
                   refresh |-> logins', user |-> logins']
<1>1. /\ logins < MaxLogins /\ logins' = logins + 1 /\ shown' = put /\ stored' = put
      /\ crossed' = FALSE
      /\ page' = page /\ going' = going /\ boot' = boot /\ bootRefresh' = bootRefresh
      /\ calling' = calling /\ refresh' = refresh /\ leaving' = leaving /\ age' = age
      /\ revoked' = revoked /\ loads' = loads /\ thrownOut' = thrownOut
  BY DEF Tab!Login, Tab!Persist
<1>2. logins' \in Tab!Sessions /\ logins' \in 0 .. MaxLogins /\ logins' # 0
  BY <1>0, <1>1 DEF Tab!Sessions
<1>3. put \in Tab!SessionRecords
  BY <1>0, <1>2 DEF Tab!SessionRecords, Tab!AccessTokens
<1>4. put.access.of = logins' /\ put.refresh = logins' /\ put.user = logins'
  OBVIOUS
<1> HIDE DEF put
<1>5. TabTyped'
  <2>1. crossed' \in BOOLEAN
    BY <1>1
  <2> QED BY <2>1, <1>0, <1>1, <1>2, <1>3, Zenon DEF TabTyped
<1>6. TokensReal'
  BY <1>0, <1>1, <1>2, <1>4 DEF TokensReal, Real
<1>7. Together'
  BY <1>1, <1>2, <1>4 DEF Together, OfOneLogin
<1> QED BY <1>1, <1>5, <1>6, <1>7 DEF TabInv

\* A new access token replaces the stored one, and has crossed if it is another's.
LEMMA TabTokenStored ==
    ASSUME TabInv, Tab!SessionAssumption, NEW f \in {"shared", "feed"},
           \/ refresh[f].at = "granted" /\ stored' = [stored EXCEPT !.access = refresh[f].token]
              /\ crossed' = (crossed \/ Tab!Crosses(f))
           \/ stored' = stored /\ crossed' = crossed,
           refresh' = [refresh EXCEPT ![f] = Tab!NoRefresh],
           calling' \in [Calls \union {"me"} -> TabCalls],
           UNCHANGED <<shown, page, going, boot, bootRefresh, leaving, logins, age, revoked,
                       loads, thrownOut>>
    PROVE  TabInv'
<1>0. TabTyped /\ TokensReal /\ Together
  BY DEF TabInv
<1>1. /\ f \in Tab!Refreshers /\ f # "boot" /\ refresh \in [Tab!Refreshers -> TabRefreshes]
      /\ stored \in Tab!SessionRecords /\ crossed \in BOOLEAN
  BY <1>0 DEF Tab!Refreshers, TabTyped
<1>2. refresh[f].token \in Tab!AccessTokens /\ Tab!NoRefresh \in TabRefreshes
  BY <1>1, TabConstants DEF TabRefreshes
<1>3. /\ stored' \in Tab!SessionRecords /\ stored'.refresh = stored.refresh
      /\ stored'.user = stored.user /\ Real(stored'.access) /\ crossed' \in BOOLEAN
      /\ crossed => crossed'
      /\ ~crossed' => stored'.access.of \in {stored.access.of, stored.refresh}
  <2>1. CASE refresh[f].at = "granted" /\ stored' = [stored EXCEPT !.access = refresh[f].token]
             /\ crossed' = (crossed \/ Tab!Crosses(f))
    <3>1. refresh[f].token.of # 0
      BY <2>1, <1>0, <1>1 DEF TokensReal
    <3> QED BY <2>1, <3>1, <1>1, <1>2 DEF Tab!SessionRecords, Real, Tab!Crosses
  <2>2. CASE stored' = stored /\ crossed' = crossed
    BY <2>2, <1>0, <1>1 DEF TokensReal
  <2> QED BY <2>1, <2>2
<1>4. /\ refresh' \in [Tab!Refreshers -> TabRefreshes] /\ refresh'["boot"] = refresh["boot"]
      /\ \A g \in Tab!Refreshers : refresh'[g] \in {refresh[g], Tab!NoRefresh}
  BY <1>1, <1>2 DEF Tab!Refreshers
<1>5. TabTyped'
  BY <1>0, <1>3, <1>4, Zenon DEF TabTyped
<1>6. TokensReal'
  <2>1. Tab!NoRefresh.at = "idle"
    BY DEF Tab!NoRefresh
  <2> QED BY <2>1, <1>0, <1>3, <1>4 DEF TokensReal, Real
<1>7. Together'
  BY <1>0, <1>3 DEF Together, OfOneLogin
<1> QED BY <1>5, <1>6, <1>7 DEF TabInv

LEMMA TabGrantStep ==
    ASSUME TabInv, Tab!SessionAssumption, Tab!SharedGranted \/ Tab!FeedRefreshed
    PROVE  TabInv'
<1>0. /\ calling \in [Calls \union {"me"} -> TabCalls]
      /\ refresh \in [Tab!Refreshers -> TabRefreshes]
  BY DEF TabInv, TabTyped
<1>1. CASE Tab!SharedGranted
  <2>1. [at |-> "sent", token |-> refresh["shared"].token, again |-> TRUE] \in TabCalls
    BY <1>0 DEF TabCalls, TabRefreshes, Tab!Refreshers
  <2>2. calling' \in [Calls \union {"me"} -> TabCalls]
    BY <1>1, <2>1, <1>0 DEF Tab!SharedGranted
  <2> QED BY <1>1, <2>2, TabTokenStored DEF Tab!SharedGranted, Tab!server
<1>2. CASE Tab!FeedRefreshed
  BY <1>2, <1>0, TabTokenStored DEF Tab!FeedRefreshed, Tab!server
<1> QED BY <1>1, <1>2

\* The bootstrap learns who the user is.
LEMMA BootKnowsUserStep ==
    ASSUME TabInv, Tab!SessionAssumption, Tab!BootKnowsUser PROVE TabInv'
<1>0. TabTyped /\ TokensReal /\ Together /\ Tab!Free \in TabCalls
  BY TabConstants DEF TabInv
<1> DEFINE user == calling["me"].token.of
           put == [shown EXCEPT !.user = user]
<1>1. /\ boot \in {"me", "meAgain"} /\ shown' = put /\ stored' = put
      /\ crossed' = (crossed \/ user # shown.refresh) /\ boot' = "true"
      /\ calling' = [calling EXCEPT !["me"] = Tab!Free]
      /\ page' = page /\ going' = going /\ bootRefresh' = bootRefresh /\ refresh' = refresh
      /\ leaving' = leaving /\ logins' = logins /\ age' = age /\ revoked' = revoked
      /\ loads' = loads /\ thrownOut' = thrownOut
  BY DEF Tab!BootKnowsUser, Tab!Persist, Tab!server
<1>2. calling["me"] \in TabCalls /\ calling' \in [Calls \union {"me"} -> TabCalls]
  BY <1>0, <1>1 DEF TabTyped
<1>3. /\ put \in Tab!SessionRecords /\ put.access = shown.access /\ put.user = user
      /\ put.refresh = shown.refresh
  BY <1>0, <1>2 DEF TabTyped, TabCalls, Tab!AccessTokens, Tab!SessionRecords
<1> HIDE DEF put, user
<1>4. crossed' \in BOOLEAN /\ boot' \in {"none", "me", "refresh", "meAgain", "true", "false"}
  BY <1>1
<1>5. TabTyped'
  BY <1>0, <1>1, <1>2, <1>3, <1>4, Zenon DEF TabTyped
<1>6. TokensReal'
  BY <1>0, <1>1, <1>3 DEF TokensReal, Real
<1>7. Together'
  BY <1>0, <1>1, <1>3 DEF Together, OfOneLogin
<1>8. ~thrownOut
  BY <1>1 DEF TabInv
<1> QED BY <1>1, <1>5, <1>6, <1>7, <1>8 DEF TabInv

\* The bootstrap tries the refresh token that it found.
LEMMA BootRefreshesStep ==
    ASSUME TabInv, Tab!SessionAssumption, Tab!BootRefreshes PROVE TabInv'
<1>0. TabTyped /\ TokensReal /\ Together /\ Tab!Free \in TabCalls /\ MaxLogins \in Nat
      /\ MaxExpiries \in Nat
  BY TabConstants DEF TabInv
<1> DEFINE put == [at |-> "asked", token |-> [of |-> bootRefresh, nth |-> 0]]
<1>1. /\ boot = "me" /\ calling' = [calling EXCEPT !["me"] = Tab!Free]
      /\ \/ bootRefresh = 0 /\ boot' = "false" /\ refresh' = refresh
         \/ bootRefresh # 0 /\ boot' = "refresh" /\ refresh' = [refresh EXCEPT !["boot"] = put]
      /\ stored' = stored /\ shown' = shown /\ crossed' = crossed
      /\ page' = page /\ going' = going /\ bootRefresh' = bootRefresh
      /\ leaving' = leaving /\ logins' = logins /\ age' = age /\ revoked' = revoked
      /\ loads' = loads /\ thrownOut' = thrownOut
  BY DEF Tab!BootRefreshes, Tab!AskRefresh, Tab!tokens, Tab!server
<1>2. calling' \in [Calls \union {"me"} -> TabCalls]
  BY <1>0, <1>1 DEF TabTyped
<1>3. put \in TabRefreshes /\ put.at = "asked" /\ put.token.of = bootRefresh
  BY <1>0 DEF TabTyped, TabRefreshes, Tab!AccessTokens
<1> HIDE DEF put
<1>4. /\ refresh' \in [Tab!Refreshers -> TabRefreshes]
      /\ refresh' = refresh \/ refresh'["boot"] = put
      /\ \A f \in Tab!Refreshers \ {"boot"} : refresh'[f] = refresh[f]
  BY <1>0, <1>1, <1>3 DEF TabTyped, Tab!Refreshers
<1>5. boot' \in {"none", "me", "refresh", "meAgain", "true", "false"}
  BY <1>1
<1>6. TabTyped'
  BY <1>0, <1>1, <1>2, <1>4, <1>5, Zenon DEF TabTyped
<1>7. refresh["boot"].at = "idle"
  BY <1>0, <1>1 DEF TokensReal
<1>8. TokensReal'
  <2>1. CASE refresh' = refresh
    BY <2>1, <1>0, <1>1, <1>7 DEF TokensReal, Real
  <2>2. CASE refresh' = [refresh EXCEPT !["boot"] = put] /\ boot' = "refresh" /\ bootRefresh # 0
    <3>1. refresh'["boot"] = put /\ "boot" \in Tab!Refreshers
      BY <2>2, <1>0 DEF TabTyped, Tab!Refreshers
    <3> QED BY <3>1, <2>2, <1>0, <1>1, <1>3, <1>4 DEF TokensReal, Real
  <2> QED BY <2>1, <2>2, <1>1
<1>9. Together'
  BY <1>0, <1>1 DEF Together, OfOneLogin
<1>10. ~thrownOut
  BY <1>1 DEF TabInv
<1> QED BY <1>1, <1>6, <1>8, <1>9, <1>10 DEF TabInv

\* The bootstrap has a new access token, of the refresh token it found.
LEMMA BootRefreshedStep ==
    ASSUME TabInv, Tab!SessionAssumption, Tab!BootRefreshed PROVE TabInv'
<1>0. TabTyped /\ TokensReal /\ Together
  BY TabConstants DEF TabInv
<1> DEFINE token_ == refresh["boot"].token
           put == [[shown EXCEPT !.access = token_] EXCEPT !.refresh = bootRefresh]
<1>1. /\ boot = "refresh" /\ refresh["boot"].at = "granted"
      /\ shown' = [shown EXCEPT !.access = token_, !.refresh = bootRefresh]
      /\ stored' = [shown EXCEPT !.access = token_, !.refresh = bootRefresh]
      /\ crossed' = (crossed \/ bootRefresh # shown.refresh) /\ boot' = "meAgain"
      /\ calling' = [calling EXCEPT !["me"] = [at |-> "sent", token |-> token_, again |-> FALSE]]
      /\ refresh' = [refresh EXCEPT !["boot"] = Tab!NoRefresh]
      /\ page' = page /\ going' = going /\ bootRefresh' = bootRefresh
      /\ leaving' = leaving /\ logins' = logins /\ age' = age /\ revoked' = revoked
      /\ loads' = loads /\ thrownOut' = thrownOut
  BY DEF Tab!BootRefreshed, Tab!Persist, Tab!Send, Tab!server
<1>2. /\ refresh["boot"] \in TabRefreshes /\ token_ \in Tab!AccessTokens
      /\ token_.of = bootRefresh /\ token_.of # 0
      /\ shown \in Tab!SessionRecords /\ bootRefresh \in 0 .. MaxLogins
  BY <1>0, <1>1 DEF TabTyped, Tab!Refreshers, TabRefreshes, TokensReal
<1> HIDE DEF token_
<1>3. /\ put \in Tab!SessionRecords /\ put.access = token_ /\ put.refresh = bootRefresh
      /\ put.user = shown.user /\ shown' = put /\ stored' = put
  BY <1>1, <1>2 DEF Tab!SessionRecords
<1>4. [at |-> "sent", token |-> token_, again |-> FALSE] \in TabCalls
  BY <1>2 DEF TabCalls
<1>5. /\ calling' \in [Calls \union {"me"} -> TabCalls]
      /\ refresh' \in [Tab!Refreshers -> TabRefreshes] /\ refresh'["boot"] = Tab!NoRefresh
      /\ \A f \in Tab!Refreshers : refresh'[f] \in {refresh[f], Tab!NoRefresh}
  BY <1>0, <1>1, <1>4, TabConstants DEF TabTyped, Tab!Refreshers
<1> HIDE DEF put
<1>6. crossed' \in BOOLEAN /\ boot' \in {"none", "me", "refresh", "meAgain", "true", "false"}
  BY <1>1
<1>7. TabTyped'
  BY <1>0, <1>1, <1>3, <1>5, <1>6, Zenon DEF TabTyped
<1>8. TokensReal'
  <2>1. Tab!NoRefresh.at = "idle"
    BY DEF Tab!NoRefresh
  <2> QED BY <2>1, <1>0, <1>1, <1>2, <1>3, <1>5 DEF TokensReal, Real
<1>9. Together'
  BY <1>0, <1>1, <1>2, <1>3 DEF Together, OfOneLogin
<1>10. ~thrownOut
  BY <1>1 DEF TabInv
<1> QED BY <1>1, <1>7, <1>8, <1>9, <1>10 DEF TabInv

LEMMA BootFailsStep == ASSUME TabInv, Tab!SessionAssumption, Tab!BootFails PROVE TabInv'
<1>0. TabTyped /\ TokensReal
  BY DEF TabInv
<1>1. /\ Tab!ClearUser /\ boot \in {"refresh", "meAgain"} /\ boot' = "false"
      /\ calling' = [calling EXCEPT !["me"] = Tab!Free]
      /\ refresh' = [refresh EXCEPT !["boot"] = Tab!NoRefresh]
      /\ bootRefresh' = bootRefresh /\ leaving' = leaving /\ logins' = logins /\ age' = age
      /\ revoked' = revoked /\ loads' = loads /\ thrownOut' = thrownOut
  BY DEF Tab!BootFails, Tab!server
<1>2. page' \in {"none", "login", "app"} /\ going' \in {"no", "waits", "replaced"}
  BY <1>0 DEF TabTyped, Tab!BootFails, Tab!Replaced
<1>3. /\ calling' \in [Calls \union {"me"} -> TabCalls]
      /\ refresh' \in [Tab!Refreshers -> TabRefreshes] /\ refresh'["boot"] = Tab!NoRefresh
      /\ \A f \in Tab!Refreshers : refresh'[f] \in {refresh[f], Tab!NoRefresh}
  BY <1>0, <1>1, TabConstants DEF TabTyped, Tab!Refreshers
<1>4. /\ Real(stored'.access) /\ Real(shown'.access) /\ Together' /\ crossed' \in BOOLEAN
      /\ stored' \in Tab!SessionRecords /\ shown' \in Tab!SessionRecords
  BY <1>1, ClearUserStep, TabConstants
<1>5. boot' \in {"none", "me", "refresh", "meAgain", "true", "false"}
  BY <1>1
<1>6. TabTyped'
  BY <1>0, <1>1, <1>2, <1>3, <1>4, <1>5, Zenon DEF TabTyped
<1>7. TokensReal'
  <2>1. Tab!NoRefresh.at = "idle"
    BY DEF Tab!NoRefresh
  <2> QED BY <2>1, <1>0, <1>3, <1>4 DEF TokensReal, Real
<1> QED BY <1>1, <1>4, <1>6, <1>7 DEF TabInv

\* The guard lets the user in, or ends the session when the bootstrap has failed.
LEMMA GuardStep == ASSUME TabInv, Tab!SessionAssumption, Tab!Guard PROVE TabInv'
<1>0. TabTyped /\ TokensReal /\ Together
  BY DEF TabInv
<1>1. /\ boot \in {"true", "false"} /\ going' = "no" /\ boot' = boot
      /\ bootRefresh' = bootRefresh /\ calling' = calling /\ refresh' = refresh
      /\ leaving' = leaving /\ logins' = logins /\ age' = age /\ revoked' = revoked
      /\ loads' = loads
  BY DEF Tab!Guard, Tab!server
<1>2. /\ page' \in {"none", "login", "app"} /\ thrownOut' \in BOOLEAN
      /\ thrownOut' => boot = "false"
      /\ \/ boot = "true" /\ UNCHANGED <<stored, shown, crossed>>
         \/ boot = "true" /\ Tab!InitUser
         \/ Tab!ClearUser
  <2>1. CASE boot = "true"
    BY <2>1, <1>0, Zenon DEF Tab!Guard, Tab!tokens, TabInv, TabTyped
  <2>2. CASE boot = "false"
    <3>1. page' = "login" /\ Tab!ClearUser /\ thrownOut' = (thrownOut \/ shown.user # 0)
      BY <2>2 DEF Tab!Guard
    <3> QED BY <2>2, <3>1
  <2> QED BY <2>1, <2>2, <1>1
<1>3. /\ stored' \in Tab!SessionRecords /\ shown' \in Tab!SessionRecords
      /\ crossed' \in BOOLEAN /\ Real(stored'.access) /\ Real(shown'.access) /\ Together'
  <2>1. CASE boot = "true" /\ UNCHANGED <<stored, shown, crossed>>
    BY <2>1, <1>0, <1>1 DEF TabTyped, TokensReal, Together, OfOneLogin
  <2>2. CASE boot = "true" /\ Tab!InitUser
    <3>1. CASE Tab!ClearUser
      BY <3>1, ClearUserStep, TabConstants
    <3>2. CASE ~Tab!ClearUser
      <4>1. crossed' = crossed
        BY <2>2, <3>2 DEF Tab!InitUser
      <4> QED BY <2>2, <4>1, <1>1, InitUserStep DEF Together
    <3> QED BY <3>1, <3>2
  <2>3. CASE Tab!ClearUser
    BY <2>3, ClearUserStep, TabConstants
  <2> QED BY <2>1, <2>2, <2>3, <1>2
<1>4. going' \in {"no", "waits", "replaced"}
  BY <1>1
<1>5. TabTyped'
  BY <1>0, <1>1, <1>2, <1>3, <1>4, Zenon DEF TabTyped
<1>6. TokensReal'
  BY <1>0, <1>1, <1>3 DEF TokensReal, Real
<1> QED BY <1>1, <1>2, <1>3, <1>5, <1>6 DEF TabInv

\* A navigation that finds tokens starts the bootstrap of its page load.
LEMMA BootStartsStep ==
    ASSUME TabInv, Tab!SessionAssumption, boot = "none", Tab!BootStarts, going' = "waits",
           page' = page, leaving' = leaving, logins' = logins, age' = age, revoked' = revoked,
           loads' = loads, thrownOut' = thrownOut
    PROVE  TabInv'
<1>0. TabTyped /\ TokensReal /\ Together
  BY DEF TabInv
<1> DEFINE ask == [at |-> "asked", token |-> [of |-> shown'.refresh, nth |-> 0]]
           call == [at |-> "sent", token |-> stored'.access, again |-> FALSE]
<1>1. /\ Tab!InitUser /\ bootRefresh' = shown'.refresh
      /\ \/ /\ shown'.user # 0 /\ boot' = "me" /\ refresh' = refresh
            /\ calling' = [calling EXCEPT !["me"] = call]
         \/ /\ shown'.refresh # 0 /\ boot' = "refresh" /\ calling' = calling
            /\ refresh' = [refresh EXCEPT !["boot"] = ask]
         \/ shown'.refresh = 0 /\ boot' = "false" /\ calling' = calling /\ refresh' = refresh
  BY DEF Tab!BootStarts, Tab!Send, Tab!AskRefresh
<1>2. /\ stored' \in Tab!SessionRecords /\ shown' \in Tab!SessionRecords
      /\ crossed' \in BOOLEAN /\ Real(stored'.access) /\ Real(shown'.access)
      /\ ~crossed' => /\ OfOneLogin(stored)' /\ OfOneLogin(shown)'
                      /\ stored'.refresh = shown'.refresh
  BY <1>1, InitUserStep
<1>3. /\ shown'.refresh \in 0 .. MaxLogins /\ stored'.access \in Tab!AccessTokens
      /\ MaxLogins \in Nat /\ MaxExpiries \in Nat
  BY <1>2, TabConstants DEF Tab!SessionRecords
<1>4. /\ ask \in TabRefreshes /\ ask.at # "idle" /\ ask.token.of = shown'.refresh
      /\ call \in TabCalls
  BY <1>3 DEF TabRefreshes, TabCalls, Tab!AccessTokens
<1> HIDE DEF ask, call
<1>5. /\ calling' \in [Calls \union {"me"} -> TabCalls]
      /\ refresh' \in [Tab!Refreshers -> TabRefreshes]
      /\ \A f \in Tab!Refreshers \ {"boot"} : refresh'[f] = refresh[f]
      /\ refresh' = refresh \/ refresh'["boot"] = ask
  BY <1>0, <1>1, <1>4 DEF TabTyped, Tab!Refreshers
<1>6. /\ bootRefresh' \in 0 .. MaxLogins /\ going' \in {"no", "waits", "replaced"}
      /\ boot' \in {"none", "me", "refresh", "meAgain", "true", "false"}
  BY <1>1, <1>3
<1>7. TabTyped'
  BY <1>0, <1>2, <1>5, <1>6, Zenon DEF TabTyped
<1>8. refresh["boot"].at = "idle"
  BY <1>0 DEF TokensReal
<1>9. TokensReal'
  <2>1. CASE refresh' = refresh
    BY <2>1, <1>0, <1>2, <1>8 DEF TokensReal
  <2>2. CASE refresh'["boot"] = ask /\ boot' = "refresh" /\ shown'.refresh # 0
    BY <2>2, <1>0, <1>1, <1>2, <1>4, <1>5 DEF TokensReal
  <2>3. refresh' = refresh \/ (refresh'["boot"] = ask /\ boot' = "refresh" /\ shown'.refresh # 0)
    <3>1. "boot" \in Tab!Refreshers /\ refresh \in [Tab!Refreshers -> TabRefreshes]
      BY <1>0 DEF TabTyped, Tab!Refreshers
    <3> QED BY <3>1, <1>1
  <2> QED BY <2>1, <2>2, <2>3
<1>10. Together'
  BY <1>1, <1>2 DEF Together
<1>11. ~thrownOut
  BY DEF TabInv
<1> QED BY <1>7, <1>9, <1>10, <1>11 DEF TabInv

LEMMA NavigateStep == ASSUME TabInv, Tab!SessionAssumption, Tab!Navigate PROVE TabInv'
<1>0. TabTyped /\ TokensReal /\ Together
  BY DEF TabInv
<1>1. CASE boot = "none" /\ Tab!BootStarts /\ going' = "waits" /\ page' = page
  BY <1>1, BootStartsStep DEF Tab!Navigate, Tab!server
<1>2. CASE UNCHANGED <<Tab!tokens, boot, bootRefresh, calling, refresh>>
  <2>1. page' \in {"none", "login", "app"} /\ going' \in {"no", "waits", "replaced"}
    BY <1>0 DEF Tab!Navigate, Tab!Replaced, TabTyped
  <2>2. /\ stored' = stored /\ shown' = shown /\ crossed' = crossed
        /\ boot' = boot /\ bootRefresh' = bootRefresh /\ calling' = calling
        /\ refresh' = refresh /\ leaving' = leaving /\ logins' = logins /\ age' = age
        /\ revoked' = revoked /\ loads' = loads /\ thrownOut' = thrownOut
    BY <1>2 DEF Tab!Navigate, Tab!tokens, Tab!server
  <2>3. TabTyped'
    BY <1>0, <2>1, <2>2, Zenon DEF TabTyped
  <2>4. TokensReal'
    BY <1>0, <2>2 DEF TokensReal, Real
  <2> QED BY <2>2, <2>3, <2>4, TabAside
<1> QED BY <1>1, <1>2 DEF Tab!Navigate

LEMMA TabStays == Tab!SessionAssumption /\ TabInv /\ [Tab!Next]_Tab!vars => TabInv'
<1> SUFFICES ASSUME Tab!SessionAssumption, TabInv, [Tab!Next]_Tab!vars PROVE TabInv'
  OBVIOUS
<1>1. CASE UNCHANGED Tab!vars
  BY <1>1 DEF Tab!vars, TabInv, TabTyped, TokensReal, Together, Real, OfOneLogin
<1>2. CASE Tab!BootStep
  BY <1>2, BootKnowsUserStep, BootRefreshesStep, BootRefreshedStep, BootFailsStep
     DEF Tab!BootStep
<1>3. CASE \E r \in DOMAIN calling : Tab!CallStep(r)
  BY <1>3, TabCallStep, TabRefreshStep, TabEndStep DEF Tab!CallStep
<1>4. CASE Tab!RefreshStep
  BY <1>4, TabRefreshStep, TabGrantStep, TabEndStep DEF Tab!RefreshStep
<1>5. CASE Tab!Load \/ Tab!Navigate \/ Tab!Guard \/ Tab!Login
  BY <1>5, TabLoadStep, NavigateStep, GuardStep, TabLoginStep
<1>6. CASE \/ Tab!LogoutAsks \/ Tab!RevokedByLogout \/ Tab!LogoutEnds
           \/ (\E r \in Calls : Tab!Call(r)) \/ (\E s \in Tab!Sessions : Tab!Expire(s))
  BY <1>6, TabCallStep, TabEndStep
<1>7. CASE Tab!FeedRefreshes \/ Tab!FeedRefreshed
  BY <1>7, TabRefreshStep, TabGrantStep
<1> QED BY <1>1, <1>2, <1>3, <1>4, <1>5, <1>6, <1>7 DEF Tab!Next

LEMMA TabInSum == (SumInit => Tab!Init) /\ ([SumNext]_allVars => [Tab!Next]_Tab!vars)
  BY DEF SumInit, SumNext, allVars, tabVars, Tab!vars

LEMMA TabHolds == SumSpec => []TabInv
<1>1. SumInit => TabInv
  BY TabInSum, TabStarts, RecordsAssumptions
<1>2. TabInv /\ [SumNext]_allVars => TabInv'
  BY TabInSum, TabStays, RecordsAssumptions
<1> QED BY <1>1, <1>2, PTL DEF SumSpec

\* Once the bootstrap is over, what is stored belongs to the user shown, and nothing is
\* stored when none is, for any number of logins, expiries, page loads and requests -
\* unless an answer came back after its session had been left; and the guard drops a
\* session only if the bootstrap had failed (useUserStore, request.ts, useAuthBootstrap).
THEOREM SessionIsSound == SumSpec => []Tab!SessionSound
<1>1. TabInv => Tab!SessionSound
  <2> SUFFICES ASSUME TabInv, boot \in {"true", "false"}, ~crossed
               PROVE  /\ stored.access.of \in {0, shown.user} /\ stored.refresh = shown.refresh
                      /\ shown.user = 0 => ~Tab!HasTokens
    BY DEF Tab!SessionSound, TabInv
  <2>1. /\ OfOneLogin(stored) /\ OfOneLogin(shown) /\ stored.refresh = shown.refresh
        /\ stored.refresh # 0 => shown.user # 0
        /\ Real(stored.access)
    BY DEF TabInv, Together, TokensReal
  <2> QED BY <2>1 DEF OfOneLogin, Real, Tab!HasTokens
<1> QED BY <1>1, TabHolds, PTL


-----------------------------------------------------------------------------
(* The graph page.                                                         *)

Homes == DOMAIN EdgesUnder

PageTyped ==
    /\ domains \subseteq Homes /\ cached \in Seq(Homes)
    /\ layer \in {"domain", "position", "detail"}
    /\ island \in Homes \union {Browser!None} /\ (named => island # Browser!None)
    /\ links \in [Browser!Edges -> Nat]
    /\ DOMAIN answer = AnswerSlots
    /\ \A s \in AnswerSlots :
          /\ answer[s].kind = "overview" => answer[s].of \in Modes
          /\ answer[s].kind = "positions" =>
                answer[s].of \in Homes /\ answer[s].keys \subseteq Browser!Edges

\* The first cached bubble that holds a position is cached, and holds it.
LEMMA FirstHolds ==
    ASSUME cached \in Seq(Homes), NEW p, Browser!Holding(p) # {}
    PROVE  /\ Browser!FirstHolding(p) \in Browser!ToSet(cached)
           /\ Browser!Contains(cached, Browser!FirstHolding(p))
           /\ p \in Browser!PositionsIn(Browser!FirstHolding(p))
           /\ Browser!FirstHolding(p) \in Homes
<1>1. Browser!Holding(p) \in SUBSET Nat /\ Browser!Holding(p) \subseteq DOMAIN cached
  BY DEF Browser!Holding
<1>2. \E i \in Browser!Holding(p) : \A j \in Browser!Holding(p) : i =< j
  BY <1>1, LeastNatural
<1>3. Browser!Min(Browser!Holding(p)) \in Browser!Holding(p)
  BY <1>2 DEF Browser!Min
<1>4. PICK i \in DOMAIN cached : Browser!FirstHolding(p) = cached[i]
                                /\ p \in Browser!PositionsIn(cached[i])
  BY <1>3 DEF Browser!Holding, Browser!FirstHolding
<1>5. cached[i] \in Browser!ToSet(cached)
  BY DEF Browser!ToSet
<1>6. i \in 1 .. Len(cached) /\ cached[i] \in Homes
  OBVIOUS
<1>7. Browser!Contains(cached, cached[i])
  BY <1>6 DEF Browser!Contains
<1> QED BY <1>4, <1>5, <1>6, <1>7

\* Without doubled loads one is under way at most, and its keys are those of the pool.
OneLoad ==
    ~doubled =>
        /\ \A e \in Browser!Edges : links[e] <= 1
        /\ \A s, t \in AnswerSlots :
              answer[s].kind = "positions" /\ answer[t].kind = "positions" => s = t
        /\ \A s \in AnswerSlots :
              answer[s].kind = "positions" =>
                  \A e \in Browser!Edges : links[e] > 0 => e \in answer[s].keys

\* In order, one overview is under way at most, of the mode that was chosen.
OneOverview ==
    ~unordered =>
        /\ \A s, t \in AnswerSlots :
              answer[s].kind = "overview" /\ answer[t].kind = "overview" => s = t
        /\ \A s \in AnswerSlots : answer[s].kind = "overview" => answer[s].of = chosen
        /\ (\A s \in AnswerSlots : answer[s].kind # "overview") => chosen = overview

\* One request for trends at most, of the position in focus.
OneTrend ==
    ~outrun =>
        /\ \A s, t \in AnswerSlots :
              answer[s].kind \in {"edges", "paths"} /\ answer[t].kind \in {"edges", "paths"} => s = t
        /\ \A s \in AnswerSlots : answer[s].kind = "paths" => answer[s].of = inFocus
        /\ (\A s \in AnswerSlots : answer[s].kind # "paths") => paths = inFocus

OnPlace == Browser!PlaceIsShown /\ Browser!OpenedBelow

PageInv == PageTyped /\ OneLoad /\ OneOverview /\ OneTrend /\ OnPlace

LEMMA IdleKind == Browser!Idle.kind = "idle"
  BY DEF Browser!Idle

LEMMA PageStarts == Browser!BrowserAssumption /\ Browser!Init => PageInv
<1> SUFFICES ASSUME Browser!BrowserAssumption, Browser!Init PROVE PageInv
  OBVIOUS
<1>1. PageTyped
  <2>1. domains = {} /\ cached = << >> /\ layer = "domain"
        /\ island = Browser!None /\ named = FALSE
        /\ links = [e \in Browser!Edges |-> 0]
        /\ answer = [s \in AnswerSlots |-> Browser!Idle]
    BY DEF Browser!Init
  <2>2. links \in [Browser!Edges -> Nat] /\ cached \in Seq(Homes)
    BY <2>1
  <2> QED BY <2>1, <2>2, IdleKind DEF PageTyped
<1>2. OneLoad /\ OneOverview /\ OneTrend
  BY IdleKind DEF Browser!Init, OneLoad, OneOverview, OneTrend
<1>3. OnPlace
  BY DEF Browser!Init, OnPlace, Browser!PlaceIsShown, Browser!OpenedBelow, Browser!ToSet,
         Browser!None
<1> QED BY <1>1, <1>2, <1>3 DEF PageInv

\* A position is opened from bubble b, or none.
LEMMA GoDetail ==
    ASSUME PageTyped, OnPlace, NEW p, NEW b \in Homes \union {Browser!None}, NEW name,
           Browser!GoToDetailLayer(p, b, name), name => b # Browser!None,
           ~strayed /\ b # Browser!None => b \in domains, Browser!BrowserAssumption,
           domains' = domains, cached' = cached, strayed' = strayed, behind' = behind
    PROVE  /\ OnPlace' /\ layer' = "detail"
           /\ island' \in Homes \union {Browser!None} /\ (named' => island' # Browser!None)
<1>1. cached \in Seq(Homes) /\ Browser!None \notin Homes
  BY DEF PageTyped, Browser!BrowserAssumption, Homes
<1>2. layer' = "detail" /\ opened' = p
  BY DEF Browser!GoToDetailLayer
<1>3. Browser!Holding(p)' = Browser!Holding(p) /\ (Browser!Holding(opened))' = Browser!Holding(p)
  BY <1>2 DEF Browser!Holding, Browser!PositionsIn
<1>4. Browser!PlaceIsShown
  BY DEF OnPlace
<1>5. CASE b = Browser!None \/ (Browser!Contains(cached, b) /\ p \in Browser!PositionsIn(b))
           \/ Browser!Holding(p) = {}
  <2>1. island' = b /\ named' = name
    BY <1>5 DEF Browser!GoToDetailLayer
  <2>2. Browser!PlaceIsShown'
    BY <1>4, <2>1 DEF Browser!PlaceIsShown
  <2>3. Browser!OpenedBelow'
    BY <1>2, <1>3, <1>5, <2>1 DEF Browser!OpenedBelow, Browser!PositionsIn
  <2> QED BY <1>2, <2>1, <2>2, <2>3 DEF OnPlace
<1>6. CASE ~ (b = Browser!None \/ (Browser!Contains(cached, b) /\ p \in Browser!PositionsIn(b))
              \/ Browser!Holding(p) = {})
  <2>1. island' = Browser!FirstHolding(p)
    BY <1>6 DEF Browser!GoToDetailLayer
  <2>2. /\ Browser!FirstHolding(p) \in Browser!ToSet(cached)
        /\ p \in Browser!PositionsIn(Browser!FirstHolding(p))
        /\ Browser!FirstHolding(p) \in Homes
    BY <1>1, <1>6, FirstHolds
  <2>3. Browser!PlaceIsShown'
    BY <1>4, <2>1, <2>2 DEF Browser!PlaceIsShown
  <2>4. Browser!OpenedBelow'
    BY <1>2, <2>1, <2>2 DEF Browser!OpenedBelow, Browser!PositionsIn
  <2> QED BY <1>1, <1>2, <2>1, <2>2, <2>3, <2>4 DEF OnPlace
<1> QED BY <1>5, <1>6

\* A request that was asked for has a slot of its own.
LEMMA PageAsks ==
    ASSUME PageTyped, NEW kind, NEW of, NEW keys, Browser!Ask(kind, of, keys)
    PROVE  \E s \in AnswerSlots :
              /\ answer[s].kind = "idle" /\ DOMAIN answer' = AnswerSlots
              /\ answer'[s].kind = kind /\ answer'[s].of = of /\ answer'[s].keys = keys
              /\ \A t \in AnswerSlots \ {s} : answer'[t] = answer[t]
<1>1. PICK s \in AnswerSlots :
          /\ answer[s] = Browser!Idle
          /\ answer' = [answer EXCEPT ![s] = [kind |-> kind, of |-> of, keys |-> keys]]
  BY DEF Browser!Ask
<1>2. DOMAIN answer = AnswerSlots
  BY DEF PageTyped
<1> QED BY <1>1, <1>2, IdleKind

\* A request that was answered leaves its slot.
LEMMA PageAnswered ==
    ASSUME PageTyped, NEW s \in AnswerSlots, answer' = [answer EXCEPT ![s] = Browser!Idle]
    PROVE  /\ DOMAIN answer' = AnswerSlots /\ answer'[s].kind = "idle"
           /\ \A t \in AnswerSlots \ {s} : answer'[t] = answer[t]
  BY IdleKind DEF PageTyped

\* What the place depends on is left as it was.
LEMMA PlaceAside ==
    ASSUME OnPlace, domains' = domains, layer' = layer, island' = island, opened' = opened,
           cached' = cached, strayed => strayed', behind => behind'
    PROVE  OnPlace'
  BY DEF OnPlace, Browser!PlaceIsShown, Browser!OpenedBelow, Browser!Holding,
         Browser!PositionsIn, Browser!ToSet

\* Another overview is asked for.
LEMMA OverviewAsked ==
    ASSUME PageInv, NEW mode \in Modes, Browser!Ask("overview", mode, {}), chosen' = mode,
           unordered' = (Browser!UnderWay({"overview"}) # {}), outrun => outrun',
           overview' = overview, domains' = domains, layer' = layer, island' = island,
           named' = named, opened' = opened, cached' = cached, links' = links,
           paths' = paths, inFocus' = inFocus, doubled' = doubled, strayed' = strayed,
           behind' = behind
    PROVE  PageInv'
<1>0. PageTyped /\ OneLoad /\ OneOverview /\ OneTrend /\ OnPlace
  BY DEF PageInv
<1>1. PICK s \in AnswerSlots :
          /\ answer[s].kind = "idle" /\ DOMAIN answer' = AnswerSlots
          /\ answer'[s].kind = "overview" /\ answer'[s].of = mode /\ answer'[s].keys = {}
          /\ \A t \in AnswerSlots \ {s} : answer'[t] = answer[t]
  BY <1>0, PageAsks
<1>2. PageTyped'
  BY <1>0, <1>1 DEF PageTyped
<1>3. OneLoad'
  BY <1>0, <1>1 DEF OneLoad
<1>4. OneOverview'
  <2>1. ~unordered' => \A t \in AnswerSlots : answer[t].kind # "overview"
    BY DEF Browser!UnderWay
  <2>2. ~unordered' => \A t \in AnswerSlots : t # s => answer'[t].kind # "overview"
    BY <1>1, <2>1
  <2> QED BY <1>1, <2>2 DEF OneOverview
<1>5. OneTrend'
  BY <1>0, <1>1 DEF OneTrend
<1>6. OnPlace'
  BY <1>0, PlaceAside
<1> QED BY <1>2, <1>3, <1>4, <1>5, <1>6 DEF PageInv

\* The positions of bubble b are gone to, and loaded if they have to be.
LEMMA PositionsGoneTo ==
    ASSUME PageInv, NEW b \in Homes, Browser!GoToPositionLayer(b, TRUE),
           Browser!BrowserAssumption,
           ~strayed => b \in domains, overview' = overview, domains' = domains,
           cached' = cached, links' = links, paths' = paths, inFocus' = inFocus,
           outrun' = outrun, chosen' = chosen, unordered' = unordered,
           strayed' = strayed, behind' = behind
    PROVE  PageInv'
<1>0. PageTyped /\ OneLoad /\ OneOverview /\ OneTrend /\ OnPlace
  BY DEF PageInv
<1>1. layer' = "position" /\ island' = b /\ named' = TRUE
  BY DEF Browser!GoToPositionLayer
<1>2. OnPlace'
  BY <1>0, <1>1 DEF OnPlace, Browser!PlaceIsShown, Browser!OpenedBelow
<1>3. b # Browser!None
  BY DEF Browser!BrowserAssumption, Homes
<1>4. CASE answer' = answer /\ doubled' = doubled
  <2>1. PageTyped'
    BY <1>0, <1>1, <1>3, <1>4 DEF PageTyped
  <2>2. OneLoad' /\ OneOverview' /\ OneTrend'
    BY <1>0, <1>4 DEF OneLoad, OneOverview, OneTrend
  <2> QED BY <1>2, <2>1, <2>2 DEF PageInv
<1>5. CASE Browser!FetchPositions(b)
  <2> DEFINE keys == {e \in Browser!Edges : links[e] > 0}
  <2>0. Browser!Ask("positions", b, keys)
        /\ doubled' = (doubled \/ Browser!UnderWay({"positions"}) # {})
    BY <1>5 DEF Browser!FetchPositions
  <2>k. keys \subseteq Browser!Edges /\ \A e \in Browser!Edges : links[e] > 0 => e \in keys
    OBVIOUS
  <2> HIDE DEF keys
  <2>1. PICK s \in AnswerSlots :
            /\ answer[s].kind = "idle" /\ DOMAIN answer' = AnswerSlots
            /\ answer'[s].kind = "positions" /\ answer'[s].of = b /\ answer'[s].keys = keys
            /\ \A t \in AnswerSlots \ {s} : answer'[t] = answer[t]
    BY <1>0, <2>0, PageAsks
  <2>2. PageTyped'
    BY <1>0, <1>1, <1>3, <2>1, <2>k DEF PageTyped
  <2>3. OneLoad'
    <3>1. ~doubled' => ~doubled /\ \A t \in AnswerSlots : answer[t].kind # "positions"
      BY <2>0 DEF Browser!UnderWay
    <3>2. ~doubled' => \A t \in AnswerSlots : t # s => answer'[t].kind # "positions"
      BY <2>1, <3>1
    <3> QED BY <1>0, <2>1, <2>k, <3>1, <3>2 DEF OneLoad
  <2>4. OneOverview' /\ OneTrend'
    BY <1>0, <2>1 DEF OneOverview, OneTrend
  <2> QED BY <1>2, <2>2, <2>3, <2>4 DEF PageInv
<1> QED BY <1>4, <1>5 DEF Browser!GoToPositionLayer, Browser!requests

\* A move on the page that leaves its requests alone.
LEMMA PageMoves ==
    ASSUME PageInv, OnPlace', layer' \in {"domain", "position", "detail"},
           island' \in Homes \union {Browser!None}, named' => island' # Browser!None,
           cached' \in Seq(Homes),
           overview' = overview, domains' = domains, links' = links, paths' = paths,
           inFocus' = inFocus, outrun' = outrun, chosen' = chosen,
           unordered' = unordered, answer' = answer, doubled' = doubled
    PROVE  PageInv'
<1>1. PageTyped'
  BY DEF PageInv, PageTyped
<1>2. OneLoad' /\ OneOverview' /\ OneTrend'
  BY DEF PageInv, OneLoad, OneOverview, OneTrend
<1> QED BY <1>1, <1>2 DEF PageInv

LEMMA OverviewStep ==
    ASSUME PageInv, Browser!BrowserAssumption, NEW s \in AnswerSlots, Browser!Overview(s)
    PROVE  PageInv'
<1>0. PageTyped /\ OneLoad /\ OneOverview /\ OneTrend /\ OnPlace
  BY DEF PageInv
<1>1. /\ answer[s].kind = "overview" /\ answer' = [answer EXCEPT ![s] = Browser!Idle]
      /\ links' = links /\ chosen' = chosen /\ doubled' = doubled /\ behind' = behind
  BY DEF Browser!Overview, Browser!pool
<1>2. /\ DOMAIN answer' = AnswerSlots /\ answer'[s].kind = "idle"
      /\ \A t \in AnswerSlots \ {s} : answer'[t] = answer[t]
  BY <1>0, <1>1, PageAnswered
<1>3. OneLoad'
  BY <1>0, <1>1, <1>2 DEF OneLoad
<1>4. CASE Browser!Regroup(answer[s].of)
           /\ outrun' = (Browser!UnderWay({"edges", "paths"}) # {}) /\ unordered' = unordered
  <2>1. answer[s].of \in Modes
    BY <1>0, <1>1 DEF PageTyped
  <2>2. /\ overview' = answer[s].of /\ domains' = BubblesOf[answer[s].of]
        /\ layer' = "domain" /\ island' = Browser!None /\ named' = FALSE
        /\ cached' = << >> /\ inFocus' = Browser!None /\ paths' = Browser!None
    BY <1>4 DEF Browser!Regroup
  <2>3. domains' \subseteq Homes /\ cached' \in Seq(Homes)
    BY <2>1, <2>2 DEF Browser!BrowserAssumption, Homes
  <2>4. PageTyped'
    BY <1>0, <1>1, <1>2, <2>2, <2>3 DEF PageTyped
  <2>5. OneOverview'
    BY <1>0, <1>1, <1>2, <1>4, <2>2 DEF OneOverview
  <2>6. OneTrend'
    BY <1>0, <1>1, <1>2, <1>4, <2>2 DEF OneTrend, Browser!UnderWay
  <2>7. OnPlace'
    BY <2>2 DEF OnPlace, Browser!PlaceIsShown, Browser!OpenedBelow, Browser!ToSet
  <2> QED BY <1>3, <2>4, <2>5, <2>6, <2>7 DEF PageInv
<1>5. CASE /\ domains' = {} /\ strayed' = TRUE /\ unordered' = TRUE
           /\ UNCHANGED <<overview, Browser!place, cached, inFocus, paths, outrun>>
  <2>1. PageTyped'
    BY <1>0, <1>1, <1>2, <1>5 DEF PageTyped, Browser!place
  <2>2. OneOverview' /\ OneTrend'
    BY <1>0, <1>1, <1>2, <1>5 DEF OneOverview, OneTrend
  <2>3. OnPlace'
    BY <1>0, <1>1, <1>5 DEF OnPlace, Browser!PlaceIsShown, Browser!OpenedBelow, Browser!Holding,
           Browser!PositionsIn, Browser!place
  <2> QED BY <1>3, <2>1, <2>2, <2>3 DEF PageInv
<1> QED BY <1>4, <1>5 DEF Browser!Overview

LEMMA PositionsStep ==
    ASSUME PageInv, NEW s \in AnswerSlots, Browser!PositionsLoaded(s)
    PROVE  PageInv'
<1>0. PageTyped /\ OneLoad /\ OneOverview /\ OneTrend /\ OnPlace
  BY DEF PageInv
<1> DEFINE b == answer[s].of
           fresh == EdgesUnder[b] \ answer[s].keys
<1>1. /\ answer[s].kind = "positions" /\ answer' = [answer EXCEPT ![s] = Browser!Idle]
      /\ overview' = overview /\ domains' = domains /\ layer' = layer /\ island' = island
      /\ named' = named /\ opened' = opened /\ paths' = paths /\ inFocus' = inFocus
      /\ outrun' = outrun /\ chosen' = chosen /\ doubled' = doubled
      /\ unordered' = unordered
  BY DEF Browser!PositionsLoaded, Browser!place, Browser!trends
<1>2. /\ DOMAIN answer' = AnswerSlots /\ answer'[s].kind = "idle"
      /\ \A t \in AnswerSlots \ {s} : answer'[t] = answer[t]
  BY <1>0, <1>1, PageAnswered
<1>3. OneOverview' /\ OneTrend'
  BY <1>0, <1>1, <1>2 DEF OneOverview, OneTrend
<1>4. \/ /\ cached' = IF Browser!Contains(cached, b) THEN cached ELSE Append(cached, b)
         /\ links' = [e \in Browser!Edges |-> links[e] + IF e \in fresh THEN 1 ELSE 0]
         /\ strayed' = (strayed \/ b \notin domains)
         /\ behind' = (behind \/ layer = "detail")
      \/ cached' = cached /\ links' = links /\ strayed' = strayed /\ behind' = behind
  BY DEF Browser!PositionsLoaded, Browser!pool
<1>5. CASE cached' = cached /\ links' = links /\ strayed' = strayed /\ behind' = behind
  <2>1. PageTyped'
    BY <1>0, <1>1, <1>2, <1>5 DEF PageTyped
  <2>2. OneLoad'
    BY <1>0, <1>1, <1>2, <1>5 DEF OneLoad
  <2>3. OnPlace'
    BY <1>0, <1>1, <1>5, PlaceAside
  <2> QED BY <1>3, <2>1, <2>2, <2>3 DEF PageInv
<1>6. CASE /\ cached' = IF Browser!Contains(cached, b) THEN cached ELSE Append(cached, b)
           /\ links' = [e \in Browser!Edges |-> links[e] + IF e \in fresh THEN 1 ELSE 0]
           /\ strayed' = (strayed \/ b \notin domains)
           /\ behind' = (behind \/ layer = "detail")
  <2>1. b \in Homes /\ cached \in Seq(Homes) /\ links \in [Browser!Edges -> Nat]
    BY <1>0, <1>1 DEF PageTyped
  <2>2. /\ cached' \in Seq(Homes)
        /\ Browser!ToSet(cached)' \subseteq Browser!ToSet(cached) \union {b}
    <3>1. CASE cached' = cached
      BY <3>1, <2>1 DEF Browser!ToSet
    <3>2. CASE cached' = Append(cached, b)
      <4> HIDE DEF b
      <4> QED BY <3>2, <2>1 DEF Browser!ToSet
    <3> QED BY <1>6, <3>1, <3>2
  <2>3. /\ links' \in [Browser!Edges -> Nat]
        /\ \A e \in Browser!Edges : links'[e] = IF e \in fresh THEN links[e] + 1 ELSE links[e]
    <3> HIDE DEF fresh
    <3> QED BY <1>6, <2>1
  <2>4. PageTyped'
    BY <1>0, <1>1, <1>2, <2>2, <2>3 DEF PageTyped
  <2>5. OneLoad'
    <3> SUFFICES ASSUME ~doubled
                 PROVE  /\ \A e \in Browser!Edges : links'[e] <= 1
                        /\ \A t \in AnswerSlots : answer'[t].kind # "positions"
      BY <1>1 DEF OneLoad
    <3>1. \A t \in AnswerSlots : answer'[t].kind # "positions"
      BY <1>0, <1>1, <1>2 DEF OneLoad
    <3>2. \A e \in Browser!Edges : links[e] <= 1 /\ (e \in fresh => ~ (links[e] > 0))
      BY <1>0, <1>1 DEF OneLoad
    <3> HIDE DEF fresh
    <3>3. \A e \in Browser!Edges : links'[e] <= 1
      BY <2>1, <2>3, <3>2
    <3> QED BY <3>1, <3>3
  <2>6. OnPlace'
    <3> HIDE DEF b
    <3>1. Browser!PlaceIsShown'
      BY <1>0, <1>1, <1>6, <2>2 DEF OnPlace, Browser!PlaceIsShown
    <3>2. Browser!OpenedBelow'
      BY <1>1, <1>6 DEF Browser!OpenedBelow
    <3> QED BY <3>1, <3>2 DEF OnPlace
  <2> QED BY <1>3, <2>4, <2>5, <2>6 DEF PageInv
<1> HIDE DEF b, fresh
<1> QED BY <1>4, <1>5, <1>6

\* The focus moves to a position and the paths to it are asked for, or it stays.
LEMMA FocusStep ==
    ASSUME PageInv, NEW s \in AnswerSlots, Browser!Focus(s),
           answer[s].kind \in {"idle", "edges"},
           ~outrun' => ~outrun /\ \A t \in AnswerSlots \ {s} : answer[t].kind \notin {"edges", "paths"},
           overview' = overview, domains' = domains, layer' = layer, island' = island,
           named' = named, opened' = opened, cached' = cached, links' = links,
           paths' = paths, chosen' = chosen, doubled' = doubled, unordered' = unordered,
           strayed' = strayed, behind' = behind
    PROVE  PageInv'
<1>0. PageTyped /\ OneLoad /\ OneOverview /\ OneTrend /\ OnPlace
  BY DEF PageInv
<1>1. PICK p, r : /\ answer' = [answer EXCEPT ![s] = r]
                  /\ \/ inFocus' = p /\ r.kind = "paths" /\ r.of = p
                     \/ inFocus' = inFocus /\ r.kind = "idle"
  <2> DEFINE p == IF panel \in Browser!Positions THEN panel ELSE Browser!FirstOf(island)
             sent_ == [kind |-> "paths", of |-> p, keys |-> {}]
  <2>1. \/ inFocus' = p /\ answer' = [answer EXCEPT ![s] = sent_]
        \/ inFocus' = inFocus /\ answer' = [answer EXCEPT ![s] = Browser!Idle]
    BY DEF Browser!Focus
  <2>2. sent_.kind = "paths" /\ sent_.of = p
    OBVIOUS
  <2> HIDE DEF p, sent_
  <2> QED BY <2>1, <2>2, IdleKind
<1>2. /\ DOMAIN answer' = AnswerSlots /\ answer'[s] = r
      /\ \A t \in AnswerSlots \ {s} : answer'[t] = answer[t]
  BY <1>0, <1>1 DEF PageTyped
<1>3. PageTyped'
  BY <1>0, <1>1, <1>2 DEF PageTyped
<1>4. OneLoad'
  BY <1>0, <1>1, <1>2 DEF OneLoad
<1>5. OneOverview'
  BY <1>0, <1>1, <1>2 DEF OneOverview
<1>6. OneTrend'
  BY <1>0, <1>1, <1>2 DEF OneTrend
<1>7. OnPlace'
  BY <1>0, PlaceAside
<1> QED BY <1>3, <1>4, <1>5, <1>6, <1>7 DEF PageInv

\* The trends change and nothing else does.
LEMMA TrendsChange ==
    ASSUME PageInv, OneTrend', DOMAIN answer' = AnswerSlots,
           \A t \in AnswerSlots :
               answer'[t] = answer[t] \/ {answer[t].kind, answer'[t].kind} \subseteq {"idle", "edges", "paths"},
           overview' = overview, domains' = domains, layer' = layer, island' = island,
           named' = named, opened' = opened, cached' = cached, links' = links,
           chosen' = chosen, doubled' = doubled, unordered' = unordered,
           strayed' = strayed, behind' = behind
    PROVE  PageInv'
<1>0. PageTyped /\ OneLoad /\ OneOverview /\ OnPlace
  BY DEF PageInv
<1>3. PageTyped'
  BY <1>0 DEF PageTyped
<1>4. OneLoad'
  BY <1>0 DEF OneLoad
<1>5. OneOverview'
  BY <1>0 DEF OneOverview
<1>7. OnPlace'
  BY <1>0, PlaceAside
<1> QED BY <1>3, <1>4, <1>5, <1>7 DEF PageInv

LEMMA ShowStep == ASSUME PageInv, Browser!ShowEvolution PROVE PageInv'
<1>0. PageTyped /\ OneTrend
  BY DEF PageInv
<1>1. /\ outrun' = (outrun \/ Browser!UnderWay({"edges", "paths"}) # {})
      /\ overview' = overview /\ domains' = domains /\ layer' = layer /\ island' = island
      /\ named' = named /\ opened' = opened /\ cached' = cached /\ links' = links
      /\ paths' = paths /\ chosen' = chosen /\ doubled' = doubled
      /\ unordered' = unordered /\ strayed' = strayed /\ behind' = behind
  BY DEF Browser!ShowEvolution, Browser!place, Browser!pool
<1>2. PICK s \in AnswerSlots :
          /\ answer[s] = Browser!Idle
          /\ \/ Browser!Focus(s)
             \/ /\ answer' = [answer EXCEPT ![s] = [Browser!Idle EXCEPT !.kind = "edges"]]
                /\ inFocus' = inFocus
  BY DEF Browser!ShowEvolution
<1>3. ~outrun' => ~outrun /\ \A t \in AnswerSlots : answer[t].kind \notin {"edges", "paths"}
  BY <1>1 DEF Browser!UnderWay
<1>4. CASE Browser!Focus(s)
  BY <1>1, <1>2, <1>3, <1>4, IdleKind, FocusStep
<1>5. CASE /\ answer' = [answer EXCEPT ![s] = [Browser!Idle EXCEPT !.kind = "edges"]]
           /\ inFocus' = inFocus
  <2>1. /\ DOMAIN answer' = AnswerSlots /\ answer'[s].kind = "edges"
        /\ \A t \in AnswerSlots \ {s} : answer'[t] = answer[t]
    BY <1>0, <1>5 DEF PageTyped, Browser!Idle
  <2>2. OneTrend'
    BY <1>0, <1>1, <1>3, <1>5, <2>1 DEF OneTrend
  <2> QED BY <1>1, <1>2, <2>1, <2>2, IdleKind, TrendsChange
<1> QED BY <1>2, <1>4, <1>5

LEMMA TrendsStep ==
    ASSUME PageInv,
           \/ Browser!HideEvolution
           \/ \E s \in AnswerSlots : Browser!EvolutionEdges(s) \/ Browser!Paths(s)
    PROVE  PageInv'
<1>0. PageTyped /\ OneTrend
  BY DEF PageInv
<1>1. /\ overview' = overview /\ domains' = domains /\ layer' = layer /\ island' = island
      /\ named' = named /\ opened' = opened /\ cached' = cached /\ links' = links
      /\ chosen' = chosen /\ doubled' = doubled
      /\ unordered' = unordered /\ strayed' = strayed /\ behind' = behind
  BY DEF Browser!HideEvolution, Browser!EvolutionEdges, Browser!Paths, Browser!place,
         Browser!pool, Browser!requests
<1>2. CASE Browser!HideEvolution
  <2>1. /\ answer' = answer /\ paths' = Browser!None /\ inFocus' = Browser!None
        /\ outrun' = (Browser!UnderWay({"edges", "paths"}) # {})
    BY <1>2 DEF Browser!HideEvolution, Browser!requests
  <2>2. OneTrend'
    BY <2>1 DEF OneTrend, Browser!UnderWay
  <2> QED BY <1>0, <1>1, <2>1, <2>2, TrendsChange DEF PageTyped
<1>3. ASSUME NEW s \in AnswerSlots, Browser!EvolutionEdges(s) PROVE PageInv'
  <2>1. /\ answer[s].kind = "edges" /\ Browser!Focus(s) /\ paths' = paths /\ outrun' = outrun
    BY <1>3 DEF Browser!EvolutionEdges
  <2>2. ~outrun' => ~outrun /\ \A t \in AnswerSlots \ {s} : answer[t].kind \notin {"edges", "paths"}
    BY <1>0, <2>1 DEF OneTrend
  <2> QED BY <1>1, <2>1, <2>2, FocusStep
<1>4. ASSUME NEW s \in AnswerSlots, Browser!Paths(s) PROVE PageInv'
  <2>1. /\ answer[s].kind = "paths" /\ answer' = [answer EXCEPT ![s] = Browser!Idle]
        /\ inFocus' = inFocus
        /\ \/ paths' = answer[s].of /\ outrun' = outrun
           \/ outrun' = TRUE
    BY <1>4 DEF Browser!Paths
  <2>2. /\ DOMAIN answer' = AnswerSlots /\ answer'[s].kind = "idle"
        /\ \A t \in AnswerSlots \ {s} : answer'[t] = answer[t]
    BY <1>0, <2>1, PageAnswered
  <2>3. OneTrend'
    BY <1>0, <2>1, <2>2 DEF OneTrend
  <2> QED BY <1>1, <2>1, <2>2, <2>3, TrendsChange
<1> QED BY <1>2, <1>3, <1>4

\* Clicks on what the layer shows.
LEMMA ClickStep ==
    ASSUME PageInv, Browser!BrowserAssumption,
           \/ Browser!Select \/ Browser!EnterAgain \/ Browser!UpToBubble
           \/ Browser!UpToOverview \/ Browser!Search
           \/ \E b \in Homes : Browser!EnterBubble(b)
           \/ \E p \in Browser!Positions : Browser!OpenPosition(p) \/ Browser!OpenRelated(p)
    PROVE  PageInv'
<1>0. /\ PageTyped /\ OnPlace /\ Browser!PlaceIsShown
      /\ island \in Homes \union {Browser!None} /\ domains \subseteq Homes
      /\ named => island # Browser!None
      /\ ~strayed /\ island # Browser!None => island \in domains
      /\ Browser!None \notin Homes /\ cached \in Seq(Homes)
  BY DEF PageInv, PageTyped, OnPlace, Browser!PlaceIsShown, Browser!BrowserAssumption, Homes
<1>1. /\ overview' = overview /\ domains' = domains /\ links' = links
      /\ paths' = paths /\ inFocus' = inFocus /\ outrun' = outrun /\ chosen' = chosen
      /\ unordered' = unordered /\ strayed' = strayed /\ behind' = behind
  BY DEF Browser!Select, Browser!EnterAgain, Browser!UpToBubble, Browser!UpToOverview,
         Browser!Search, Browser!EnterBubble, Browser!OpenPosition, Browser!OpenRelated,
         Browser!loads, Browser!pool, Browser!trends
<1>2. CASE Browser!Select
  <2>1. /\ layer' = layer /\ island' = island /\ named' = named /\ opened' = opened
        /\ cached' = cached /\ answer' = answer /\ doubled' = doubled
    BY <1>2 DEF Browser!Select, Browser!place, Browser!requests
  <2>2. OnPlace'
    BY <1>0, <1>1, <2>1, PlaceAside
  <2>3. layer \in {"domain", "position", "detail"}
    BY <1>0 DEF PageTyped
  <2> QED BY <1>0, <1>1, <2>1, <2>2, <2>3, PageMoves
<1>3. CASE \E b \in domains : Browser!GoToPositionLayer(b, TRUE) /\ cached' = cached
  BY <1>0, <1>1, <1>3, PositionsGoneTo
<1>4. CASE Browser!UpToBubble
  <2>1. Browser!GoToPositionLayer(island, TRUE) /\ cached' = cached /\ named
    BY <1>4 DEF Browser!UpToBubble
  <2> QED BY <1>0, <1>1, <2>1, PositionsGoneTo
<1>5. CASE Browser!UpToOverview
  <2>1. /\ layer' = "domain" /\ island' = Browser!None /\ named' = FALSE /\ cached' = << >>
        /\ answer' = answer /\ doubled' = doubled
    BY <1>5 DEF Browser!UpToOverview, Browser!GoToDomainLayer, Browser!requests
  <2>2. OnPlace'
    BY <2>1 DEF OnPlace, Browser!PlaceIsShown, Browser!OpenedBelow, Browser!ToSet
  <2>3. cached' \in Seq(Homes)
    BY <2>1
  <2> QED BY <1>1, <2>1, <2>2, <2>3, PageMoves
<1>6. ASSUME NEW p, NEW b \in Homes \union {Browser!None}, NEW name,
             Browser!GoToDetailLayer(p, b, name), name => b # Browser!None,
             ~strayed /\ b # Browser!None => b \in domains,
             cached' = cached, answer' = answer, doubled' = doubled
      PROVE  PageInv'
  <2>1. /\ OnPlace' /\ layer' = "detail"
        /\ island' \in Homes \union {Browser!None} /\ (named' => island' # Browser!None)
    BY <1>0, <1>1, <1>6, GoDetail
  <2>2. cached' \in Seq(Homes)
    BY <1>0, <1>6
  <2> QED BY <1>1, <1>6, <2>1, <2>2, PageMoves
<1>7. CASE \E p \in Browser!Positions : Browser!OpenPosition(p) \/ Browser!OpenRelated(p)
  <2>1. PICK p : /\ Browser!GoToDetailLayer(p, island, named) /\ cached' = cached
                 /\ answer' = answer /\ doubled' = doubled
    BY <1>7 DEF Browser!OpenPosition, Browser!OpenRelated, Browser!requests
  <2> QED BY <1>0, <1>6, <2>1
<1>8. CASE \E p \in known :
              /\ Browser!Holding(p) # {}
              /\ Browser!GoToDetailLayer(p, Browser!FirstHolding(p), Browser!FirstHolding(p) \in domains)
              /\ cached' = cached /\ answer' = answer /\ doubled' = doubled
  <2>1. PICK p \in known :
              /\ Browser!Holding(p) # {}
              /\ Browser!GoToDetailLayer(p, Browser!FirstHolding(p), Browser!FirstHolding(p) \in domains)
              /\ cached' = cached /\ answer' = answer /\ doubled' = doubled
    BY <1>8
  <2>2. /\ Browser!FirstHolding(p) \in Browser!ToSet(cached)
        /\ Browser!FirstHolding(p) \in Homes
    BY <1>0, <2>1, FirstHolds
  <2>3. ~strayed => Browser!FirstHolding(p) \in domains
    BY <1>0, <2>2 DEF Browser!PlaceIsShown
  <2> QED BY <1>0, <1>6, <2>1, <2>2, <2>3
<1>9. CASE Browser!EnterAgain \/ \E b \in Homes : Browser!EnterBubble(b)
  BY <1>3, <1>9 DEF Browser!EnterAgain, Browser!EnterBubble
<1>10. CASE Browser!Search
  BY <1>3, <1>8, <1>10 DEF Browser!Search, Browser!requests
<1> QED BY <1>2, <1>4, <1>5, <1>7, <1>9, <1>10

LEMMA PageStays == Browser!BrowserAssumption /\ PageInv /\ [Browser!Next]_Browser!vars => PageInv'
<1> SUFFICES ASSUME Browser!BrowserAssumption, PageInv, [Browser!Next]_Browser!vars PROVE PageInv'
  OBVIOUS
<1>1. CASE UNCHANGED Browser!vars
  BY <1>1 DEF Browser!vars, PageInv, PageTyped, OneLoad, OneOverview, OneTrend, OnPlace,
         Browser!PlaceIsShown, Browser!OpenedBelow, Browser!Holding, Browser!ToSet
<1>2. CASE Browser!OpenPage
  BY <1>2, OverviewAsked DEF Browser!OpenPage, Browser!BrowserAssumption, Browser!place,
         Browser!pool
<1>3. CASE \E mode \in Modes : Browser!ChooseMode(mode)
  BY <1>3, OverviewAsked DEF Browser!ChooseMode, Browser!FetchOverview, Browser!place,
         Browser!pool, Browser!trends
<1>4. CASE \/ Browser!Select \/ Browser!EnterAgain \/ Browser!UpToBubble
           \/ Browser!UpToOverview \/ Browser!Search
           \/ \E b \in Homes : Browser!EnterBubble(b)
           \/ \E p \in Browser!Positions : Browser!OpenPosition(p) \/ Browser!OpenRelated(p)
  BY <1>4, ClickStep
<1>5. CASE Browser!ShowEvolution
  BY <1>5, ShowStep
<1>6. CASE \/ Browser!HideEvolution
           \/ \E s \in AnswerSlots : Browser!EvolutionEdges(s) \/ Browser!Paths(s)
  BY <1>6, TrendsStep
<1>7. CASE \E s \in AnswerSlots : Browser!Overview(s) \/ Browser!PositionsLoaded(s)
  BY <1>7, OverviewStep, PositionsStep
<1> QED BY <1>1, <1>2, <1>3, <1>4, <1>5, <1>6, <1>7 DEF Browser!Next, Homes

LEMMA PageInSum == (SumInit => Browser!Init) /\ ([SumNext]_allVars => [Browser!Next]_Browser!vars)
  BY DEF SumInit, SumNext, allVars, browserVars, Browser!vars

LEMMA PageHolds == SumSpec => []PageInv
<1>1. SumInit => PageInv
  BY PageInSum, PageStarts, RecordsAssumptions
<1>2. PageInv /\ [SumNext]_allVars => PageInv'
  BY PageInSum, PageStays, RecordsAssumptions
<1> QED BY <1>1, <1>2, PTL DEF SumSpec

\* For any modes, bubbles, positions and number of requests: an edge is in the pool once,
\* the user is below a bubble of the overview shown, an opened position is below a bubble
\* that holds it, the overview is of the mode chosen last and the paths are those of the
\* position in focus - but for loads, overviews and trends that overlapped, came too late
\* or failed (useGraphStore, HomePage).
THEOREM BrowserIsSound == SumSpec => []Browser!BrowserSound
<1>1. PageInv => Browser!EachEdgeOnce
  BY DEF PageInv, OneLoad, Browser!EachEdgeOnce
<1>2. PageInv => Browser!PlaceIsShown /\ Browser!OpenedBelow
  BY DEF PageInv, OnPlace
<1>3. PageInv => Browser!ChosenModeShown /\ Browser!PathsOfFocus
  BY DEF PageInv, OneOverview, OneTrend, Browser!ChosenModeShown, Browser!PathsOfFocus,
         Browser!UnderWay
<1>4. PageInv => Browser!BrowserSound
  BY <1>1, <1>2, <1>3 DEF Browser!BrowserSound
<1> QED BY <1>4, PageHolds, PTL


\* What the pages show is sound: the session of a tab, the events it polls for and its
\* place in the graph, for every value of the constants.
THEOREM PagesAreSound == SumSpec => []PagesSound
<1>1. Poll!CursorSound /\ Tab!SessionSound /\ Browser!BrowserSound => PagesSound
  BY DEF PagesSound
<1> QED BY <1>1, CursorIsSound, SessionIsSound, BrowserIsSound, PTL

-----------------------------------------------------------------------------
(* The overview that the API computes.                                     *)

Unread == [positions |-> {}, skills |-> {}]

\* The positions that bubble b has, read now.
AsRead(b) == {p \in Overview!Counts(b[1]) : Overview!Under(p, b)}

AllRead(kind) == \A b \in Overview!Bubbles : b[1] = kind => members[b].positions = AsRead(b)

OverTyped ==
    /\ inReview \in [PositionNodes -> {"absent", "pending", "approved"}]
    /\ required \subseteq Overview!Present \X SkillNodes /\ areas \subseteq Areas
    /\ groupBy \in {"none", "domain", "tech_stack", "level", "heat"}
    /\ query \in {"idle", "areas", "counts", "positions", "skills", "demand", "links",
                  "done", "empty", "error"}
    /\ groupBy = "none" <=> query = "idle"
    /\ query = "areas" => groupBy = "domain"
    /\ query = "demand" => groupBy = "heat"
    /\ query \in {"positions", "skills"} => groupBy \in {"domain", "tech_stack", "level"}
    /\ query = "links" => groupBy # "level"
    /\ members \in [Overview!Bubbles -> [positions : SUBSET PositionNodes, skills : SUBSET SkillNodes]]

\* A bubble with members is of the kind the request is about; by domain the areas
\* come first.
KindsRead ==
    \A b \in Overview!Bubbles :
        members[b] # Unread =>
            /\ groupBy # "none"
            /\ groupBy = "tech_stack" => b[1] = "stack"
            /\ groupBy = "level" => b[1] = "level"
            /\ groupBy = "heat" => b[1] = "skill"
            /\ groupBy = "domain" => b[1] \in {"area", "industry"}
            /\ groupBy = "domain" /\ query \in {"areas", "counts", "positions"} => b[1] = "area"

\* As long as nothing changes, what was read is what would be read now.
ReadNow ==
    ~moved =>
        /\ \A b \in Overview!Bubbles : members[b] # Unread => members[b].positions = AsRead(b)
        /\ query = "skills" => AllRead(Overview!Grouping)
        /\ groupBy = "tech_stack" /\ query \in {"links", "counts", "done"} => AllRead("stack")
        /\ groupBy = "level" /\ query \in {"counts", "done"} => AllRead("level")
        /\ groupBy = "domain" /\ query \in {"links", "done"} =>
              \/ \E b \in Overview!Bubbles : b[1] = "area" /\ members[b] # Unread
              \/ required = {}
              \/ AllRead("industry")

EndsMeet ==
    /\ connections # {} => query = "done" \/ (query = "counts" /\ groupBy = "tech_stack")
    /\ Overview!ConnectionsHaveEnds

CountsKept ==
    /\ query = "idle" => counts = Overview!NoCounts
    /\ ~moved => \/ counts = Overview!NoCounts
                 \/ /\ counts.positions = Cardinality(Overview!Present)
                    /\ counts.edges = Cardinality(required)

Shown == (listed # Overview!Closed => query = "done") /\ Overview!BubbleOpens

OverviewInv == OverTyped /\ KindsRead /\ ReadNow /\ EndsMeet /\ CountsKept /\ Shown

LEMMA BubbleKinds ==
    \A b \in Overview!Bubbles :
        /\ b[1] \in {"stack", "industry", "level", "area", "skill"}
        /\ b = <<b[1], b[2]>> /\ Overview!Nothing[b] = Unread
        /\ b[1] = "area" => b[2] \in Areas
  BY DEF Overview!Bubbles, Overview!Nothing, Unread

LEMMA KeptAre == Overview!Kept = {b \in Overview!Bubbles : members[b] # Unread}
  BY BubbleKinds DEF Overview!Kept

\* What is read depends on the positions and their edges only.
LEMMA ReadAgain ==
    ASSUME inReview' = inReview, required' = required
    PROVE  /\ Overview!Present' = Overview!Present /\ Overview!Approved' = Overview!Approved
           /\ \A b : AsRead(b)' = AsRead(b)
  BY DEF Overview!Present, Overview!Approved, AsRead, Overview!Counts, Overview!Under,
         Overview!SkillsOf

LEMMA OverviewSets ==
    /\ \A S : Overview!Cardinality(S) = Cardinality(S)
    /\ \A S : Overview!IsFiniteSet(S) <=> IsFiniteSet(S)
<1>1. \A S : Overview!Cardinality(S) = Cardinality(S)
  BY DEF Overview!Cardinality, Cardinality
<1>2. \A S : Overview!IsFiniteSet(S) <=> IsFiniteSet(S)
  BY DEF Overview!IsFiniteSet, IsFiniteSet
<1> QED BY <1>1, <1>2

LEMMA AsReadIn == \A b : AsRead(b) \in SUBSET PositionNodes
  BY DEF AsRead, Overview!Counts, Overview!Approved, Overview!Present

LEMMA OverviewStarts == Overview!OverviewAssumption /\ Overview!Init => OverviewInv
<1> SUFFICES ASSUME Overview!OverviewAssumption, Overview!Init PROVE OverviewInv
  OBVIOUS
<1>1. /\ inReview \in [PositionNodes -> {"absent", "pending", "approved"}]
      /\ required \subseteq Overview!Present \X SkillNodes /\ areas \subseteq Areas
      /\ groupBy = "none" /\ query = "idle" /\ members = Overview!Nothing
      /\ connections = {} /\ counts = Overview!NoCounts /\ listed = Overview!Closed
  BY DEF Overview!Init
<1>2. \A b \in Overview!Bubbles : members[b] = Unread
  BY <1>1, BubbleKinds
<1>3. members \in [Overview!Bubbles -> [positions : SUBSET PositionNodes, skills : SUBSET SkillNodes]]
  BY <1>1 DEF Overview!Nothing
<1>4. OverTyped
  BY <1>1, <1>3 DEF OverTyped
<1>5. KindsRead /\ ReadNow
  BY <1>1, <1>2 DEF KindsRead, ReadNow
<1>6. EndsMeet /\ CountsKept /\ Shown
  BY <1>1 DEF EndsMeet, Overview!ConnectionsHaveEnds, CountsKept, Shown, Overview!BubbleOpens
<1> QED BY <1>4, <1>5, <1>6 DEF OverviewInv

LEMMA ChangeStep == ASSUME OverviewInv, Overview!OverviewAssumption, Overview!Change PROVE OverviewInv'
<1>0. OverTyped /\ KindsRead /\ ReadNow /\ EndsMeet /\ CountsKept /\ Shown
  BY DEF OverviewInv
<1>1. /\ areas' = areas /\ groupBy' = groupBy /\ query' = query /\ members' = members
      /\ connections' = connections /\ counts' = counts /\ listed' = listed
      /\ moved' = (query # "idle")
  BY DEF Overview!Change
<1>2. /\ inReview' \in [PositionNodes -> {"absent", "pending", "approved"}]
      /\ required' \subseteq Overview!Present' \X SkillNodes
  <2>1. CASE \E p \in PositionNodes, s \in {"absent", "pending", "approved"} :
                /\ inReview' = [inReview EXCEPT ![p] = s]
                /\ required' = {e \in required : inReview'[e[1]] # "absent"}
    <3>1. inReview' \in [PositionNodes -> {"absent", "pending", "approved"}]
      BY <1>0, <2>1 DEF OverTyped
    <3>2. required' \subseteq PositionNodes \X SkillNodes /\ \A e \in required' : inReview'[e[1]] # "absent"
      BY <1>0, <2>1 DEF OverTyped, Overview!Present
    <3> QED BY <3>1, <3>2 DEF Overview!Present
  <2>2. CASE \E p \in Overview!Present, s \in SkillNodes :
                /\ required' \in {required \union {<<p, s>>}, required \ {<<p, s>>}}
                /\ inReview' = inReview
    BY <1>0, <2>2 DEF OverTyped, Overview!Present
  <2> QED BY <2>1, <2>2 DEF Overview!Change
<1>3. OverTyped'
  BY <1>0, <1>1, <1>2 DEF OverTyped, Overview!Bubbles
<1>4. KindsRead'
  BY <1>0, <1>1 DEF KindsRead, Unread, Overview!Bubbles
<1>5. ReadNow'
  <2>1. CASE query # "idle"
    BY <1>1, <2>1 DEF ReadNow
  <2>2. CASE query = "idle"
    <3>1. groupBy = "none"
      BY <1>0, <2>2 DEF OverTyped
    <3>2. \A b \in Overview!Bubbles : members'[b] = Unread
      BY <1>0, <1>1, <3>1 DEF KindsRead
    <3> QED BY <1>1, <2>2, <3>1, <3>2 DEF ReadNow, Unread
  <2> QED BY <2>1, <2>2
<1>6. EndsMeet'
  BY <1>0, <1>1 DEF EndsMeet, Overview!ConnectionsHaveEnds, Overview!Domains, Overview!Kept,
     Overview!OfKind, Overview!Nothing, Overview!Bubbles
<1>7. CountsKept'
  BY <1>0, <1>1 DEF CountsKept, Overview!NoCounts
<1>8. Shown'
  BY <1>0, <1>1 DEF Shown, Overview!Closed, Overview!BubbleOpens
<1> QED BY <1>3, <1>4, <1>5, <1>6, <1>7, <1>8 DEF OverviewInv

LEMMA BeginStep ==
    ASSUME OverviewInv, NEW m \in {"domain", "tech_stack", "level", "heat"}, Overview!Begin(m)
    PROVE  OverviewInv'
<1>0. OverTyped /\ KindsRead /\ ReadNow /\ EndsMeet /\ CountsKept /\ Shown
  BY DEF OverviewInv
<1>1. /\ query = "idle" /\ groupBy' = m /\ moved' = FALSE
      /\ query' = CASE m = "domain" -> "areas" [] m = "heat" -> "counts" [] OTHER -> "positions"
      /\ inReview' = inReview /\ required' = required /\ areas' = areas
      /\ members' = members /\ connections' = connections /\ counts' = counts
      /\ listed' = listed
  BY DEF Overview!Begin, Overview!store
<1>2. \A b \in Overview!Bubbles : members[b] = Unread
  BY <1>0, <1>1 DEF KindsRead, OverTyped
<1>3. connections = {} /\ counts = Overview!NoCounts /\ listed = Overview!Closed
  BY <1>0, <1>1 DEF EndsMeet, CountsKept, Shown
<1>4. OverTyped'
  BY <1>0, <1>1 DEF OverTyped, Overview!Present
<1>5. KindsRead'
  BY <1>1, <1>2 DEF KindsRead, Unread
<1>6. ReadNow'
  BY <1>1, <1>2 DEF ReadNow, Unread
<1>7. EndsMeet' /\ CountsKept' /\ Shown'
  BY <1>1, <1>3 DEF EndsMeet, CountsKept, Shown, Overview!ConnectionsHaveEnds, Overview!BubbleOpens,
     Overview!Closed, Overview!NoCounts
<1> QED BY <1>4, <1>5, <1>6, <1>7 DEF OverviewInv

\* A step of a request that is not over: nothing is connected but by stacks at the
\* counts, and nothing opened.
LEMMA Unfinished ==
    ASSUME OverviewInv, query # "done",
           counts' = counts /\ (query = "idle" <=> query' = "idle"),
           inReview' = inReview, required' = required, listed' = listed, moved' = moved
    PROVE  CountsKept' /\ Shown'
<1>1. CountsKept'
  BY ReadAgain DEF OverviewInv, CountsKept, Overview!NoCounts
<1>2. listed' = Overview!Closed'
  BY DEF OverviewInv, Shown, Overview!Closed
<1> QED BY <1>1, <1>2 DEF Shown, Overview!BubbleOpens

LEMMA ReadAreasStep ==
    ASSUME OverviewInv, Overview!OverviewAssumption, Overview!ReadAreas PROVE OverviewInv'
<1>0. OverTyped /\ KindsRead /\ ReadNow /\ EndsMeet
  BY DEF OverviewInv
<1>1. /\ query = "areas" /\ query' = "counts" /\ inReview' = inReview /\ required' = required
      /\ areas' = areas /\ groupBy' = groupBy /\ connections' = connections
      /\ counts' = counts /\ listed' = listed /\ moved' = moved
      /\ members' = [b \in Overview!Bubbles |->
            IF b[1] = "area" /\ b[2] \in areas
            THEN [positions |-> {p \in Overview!Counts("area") : Overview!Under(p, b)},
                  skills |-> Belongs[b[2]]]
            ELSE members[b]]
  BY DEF Overview!ReadAreas, Overview!store
<1>2. groupBy = "domain" /\ connections = {}
  BY <1>0, <1>1 DEF OverTyped, EndsMeet
<1>3. \A b \in Overview!Bubbles :
          \/ members'[b] = members[b]
          \/ b[1] = "area" /\ members'[b] = [positions |-> AsRead(b), skills |-> Belongs[b[2]]]
  BY <1>1 DEF AsRead
<1>4. \A b \in Overview!Bubbles : members'[b] \in [positions : SUBSET PositionNodes, skills : SUBSET SkillNodes]
  <2>1. \A b \in Overview!Bubbles : b[1] = "area" => Belongs[b[2]] \in SUBSET SkillNodes
    BY BubbleKinds DEF Overview!OverviewAssumption
  <2>2. \A b \in Overview!Bubbles : members[b] \in [positions : SUBSET PositionNodes, skills : SUBSET SkillNodes]
    BY <1>0 DEF OverTyped
  <2> TAKE b \in Overview!Bubbles
  <2>3. AsRead(b) \in SUBSET PositionNodes
    BY AsReadIn
  <2>4. CASE b[1] = "area" /\ members'[b] = [positions |-> AsRead(b), skills |-> Belongs[b[2]]]
    BY <2>1, <2>3, <2>4
  <2> QED BY <1>3, <2>2, <2>4
<1>5. members' \in [Overview!Bubbles -> [positions : SUBSET PositionNodes, skills : SUBSET SkillNodes]]
  BY <1>1, <1>4
<1>6. OverTyped'
  BY <1>0, <1>1, <1>2, <1>5 DEF OverTyped, Overview!Present
<1>7. KindsRead'
  BY <1>0, <1>1, <1>2, <1>3 DEF KindsRead, Unread
<1>8. ReadNow'
  BY <1>0, <1>1, <1>2, <1>3, ReadAgain DEF ReadNow, Unread
<1>9. EndsMeet'
  BY <1>1, <1>2 DEF EndsMeet, Overview!ConnectionsHaveEnds
<1> QED BY <1>1, <1>6, <1>7, <1>8, <1>9, Unfinished DEF OverviewInv

\* The answer to the counts.
LEMMA CountAllIs ==
    \/ Overview!CountAll = Overview!NoCounts /\ required = {}
    \/ /\ Overview!CountAll.positions = Cardinality(Overview!Present)
       /\ Overview!CountAll.edges = Cardinality(required)
<1>1. CASE required = {}
  BY <1>1 DEF Overview!CountAll
<1>2. CASE required # {}
  BY <1>2, OverviewSets DEF Overview!CountAll
<1> QED BY <1>1, <1>2

\* The ladder and the connections found are cut down to bubbles of the answer.
LEMMA Pruned ==
    ASSUME NEW found, connections' = Overview!Prune(found), query \notin {"empty", "error"},
           query' \notin {"empty", "error"}, members' = members, groupBy' = groupBy
    PROVE  Overview!ConnectionsHaveEnds'
<1>1. Overview!Domains' = Overview!Domains
  BY DEF Overview!Domains, Overview!Kept, Overview!OfKind, Overview!Nothing
<1> QED BY <1>1 DEF Overview!ConnectionsHaveEnds, Overview!Prune

LEMMA NoPositions ==
    ASSUME Overview!OverviewAssumption, OverTyped, ~ (Overview!CountAll.positions > 0)
    PROVE  required = {}
<1> SUFFICES ASSUME required # {} PROVE FALSE
  OBVIOUS
<1>1. PICK e \in required : e[1] \in Overview!Present
  BY DEF OverTyped
<1>2. Overview!Present \in SUBSET PositionNodes /\ IsFiniteSet(PositionNodes)
  BY OverviewSets DEF Overview!Present, Overview!OverviewAssumption
<1>3. IsFiniteSet(Overview!Present)
  BY <1>2, FS_Subset
<1>4. Cardinality(Overview!Present) \in Nat /\ Cardinality(Overview!Present) # 0
  BY <1>1, <1>3, FS_CardinalityType, FS_EmptySet
<1>5. Overview!CountAll.positions = Cardinality(Overview!Present)
  BY OverviewSets DEF Overview!CountAll
<1> QED BY <1>4, <1>5

LEMMA ReadCountsStep ==
    ASSUME OverviewInv, Overview!OverviewAssumption, Overview!ReadCounts PROVE OverviewInv'
<1>0. OverTyped /\ KindsRead /\ ReadNow /\ EndsMeet /\ CountsKept /\ Shown
  BY DEF OverviewInv
<1> DEFINE ladder == {{<<"level", l>> : l \in step_} : step_ \in Ladder}
<1>1. /\ query = "counts" /\ inReview' = inReview /\ required' = required
      /\ areas' = areas /\ groupBy' = groupBy /\ counts' = Overview!CountAll
      /\ listed' = listed /\ moved' = moved /\ members' = members
      /\ connections' = IF groupBy = "level" THEN Overview!Prune(ladder) ELSE connections
      /\ query' = CASE groupBy = "domain" ->
                          IF Overview!Kept = {} /\ Overview!CountAll.positions > 0
                          THEN "positions" ELSE "links"
                    [] groupBy = "heat" -> "demand"
                    [] OTHER -> "done"
  BY DEF Overview!ReadCounts, Overview!store
<1> HIDE DEF ladder
<1>2. groupBy # "none" /\ listed = Overview!Closed
  BY <1>0, <1>1 DEF OverTyped, Shown
<1>3. OverTyped'
  BY <1>0, <1>1, <1>2 DEF OverTyped, Overview!Present
<1>4. KindsRead'
  BY <1>0, <1>1, KeptAre DEF KindsRead
<1>5. ReadNow'
  <2> SUFFICES ASSUME ~moved PROVE ReadNow'
    BY <1>1 DEF ReadNow
  <2>1. \A b \in Overview!Bubbles : members'[b] # Unread => members'[b].positions = AsRead(b)'
    BY <1>0, <1>1, ReadAgain DEF ReadNow
  <2>2. /\ groupBy = "tech_stack" => AllRead("stack")'
        /\ groupBy = "level" => AllRead("level")'
    BY <1>0, <1>1, ReadAgain DEF ReadNow, AllRead
  <2>3. groupBy = "domain" /\ query' = "links" =>
           (\E b \in Overview!Bubbles : b[1] = "area" /\ members[b] # Unread) \/ required = {}
    <3> SUFFICES ASSUME groupBy = "domain", query' = "links"
                 PROVE (\E b \in Overview!Bubbles : b[1] = "area" /\ members[b] # Unread) \/ required = {}
      OBVIOUS
    <3>1. CASE Overview!Kept # {}
      <4>1. PICK b \in Overview!Bubbles : members[b] # Unread
        BY <3>1, KeptAre
      <4>2. query = "counts"
        BY <1>1
      <4> QED BY <1>0, <4>1, <4>2 DEF KindsRead
    <3>2. CASE ~ (Overview!CountAll.positions > 0)
      BY <1>0, <3>2, NoPositions
    <3> QED BY <1>1, <3>1, <3>2
  <2> QED BY <1>0, <1>1, <1>2, <2>1, <2>2, <2>3 DEF ReadNow, Unread, OverTyped
<1>6. EndsMeet'
  <2>1. CASE groupBy = "level"
    <3>1. connections' = Overview!Prune(ladder) /\ query' = "done"
      BY <1>1, <2>1
    <3> QED BY <1>1, <3>1, Pruned DEF EndsMeet
  <2>2. CASE groupBy = "tech_stack"
    BY <1>0, <1>1, <2>2 DEF EndsMeet, Overview!ConnectionsHaveEnds, Overview!Domains, Overview!Kept,
       Overview!OfKind, Overview!Nothing
  <2>3. CASE groupBy \in {"domain", "heat"}
    BY <1>0, <1>1, <2>3 DEF EndsMeet, Overview!ConnectionsHaveEnds
  <2> QED BY <1>0, <1>2, <2>1, <2>2, <2>3 DEF OverTyped
<1>7. CountsKept'
  BY <1>1, <1>2, <1>3, CountAllIs, ReadAgain DEF CountsKept, OverTyped, Overview!NoCounts
<1>8. Shown'
  BY <1>1, <1>2 DEF Shown, Overview!BubbleOpens, Overview!Closed
<1> QED BY <1>3, <1>4, <1>5, <1>6, <1>7, <1>8 DEF OverviewInv

LEMMA GroupingIs ==
    ASSUME groupBy \in {"domain", "tech_stack", "level"}
    PROVE  Overview!Grouping = CASE groupBy = "domain" -> "industry"
                                 [] groupBy = "tech_stack" -> "stack" [] OTHER -> "level"
  BY DEF Overview!Grouping, Overview!KindOf

LEMMA ReadPositionsStep ==
    ASSUME OverviewInv, Overview!ReadPositions PROVE OverviewInv'
<1>0. OverTyped /\ KindsRead /\ ReadNow /\ EndsMeet
  BY DEF OverviewInv
<1>1. /\ query = "positions" /\ query' = "skills" /\ inReview' = inReview
      /\ required' = required /\ areas' = areas /\ groupBy' = groupBy
      /\ connections' = connections /\ counts' = counts /\ listed' = listed /\ moved' = moved
      /\ members' = [b \in Overview!Bubbles |->
            IF b[1] = Overview!Grouping
            THEN [members[b] EXCEPT !.positions =
                     {p \in Overview!Counts(Overview!Grouping) : Overview!Under(p, b)}]
            ELSE members[b]]
  BY DEF Overview!ReadPositions, Overview!store
<1>2. groupBy \in {"domain", "tech_stack", "level"} /\ connections = {}
  BY <1>0, <1>1 DEF OverTyped, EndsMeet
<1>3. /\ Overview!Grouping' = Overview!Grouping
      /\ Overview!Grouping = CASE groupBy = "domain" -> "industry"
                               [] groupBy = "tech_stack" -> "stack" [] OTHER -> "level"
  BY <1>1, <1>2, GroupingIs DEF Overview!Grouping, Overview!KindOf
<1>4. \A b \in Overview!Bubbles :
          members'[b] = IF b[1] = Overview!Grouping
                        THEN [members[b] EXCEPT !.positions = AsRead(b)] ELSE members[b]
  BY <1>1 DEF AsRead
<1>5. \A b \in Overview!Bubbles :
          /\ members'[b] \in [positions : SUBSET PositionNodes, skills : SUBSET SkillNodes]
          /\ b[1] = Overview!Grouping => members'[b].positions = AsRead(b)
          /\ b[1] # Overview!Grouping => members'[b] = members[b]
  <2> TAKE b \in Overview!Bubbles
  <2>1. members[b] \in [positions : SUBSET PositionNodes, skills : SUBSET SkillNodes]
    BY <1>0 DEF OverTyped
  <2>2. AsRead(b) \in SUBSET PositionNodes
    BY AsReadIn
  <2>3. CASE b[1] = Overview!Grouping
    <3>1. members'[b] = [members[b] EXCEPT !.positions = AsRead(b)]
      BY <1>4, <2>3
    <3> QED BY <2>1, <2>2, <2>3, <3>1
  <2>4. CASE b[1] # Overview!Grouping
    BY <1>4, <2>1, <2>4
  <2> QED BY <2>3, <2>4
<1>6. members' \in [Overview!Bubbles -> [positions : SUBSET PositionNodes, skills : SUBSET SkillNodes]]
  BY <1>1, <1>5
<1>7. OverTyped'
  BY <1>0, <1>1, <1>2, <1>6 DEF OverTyped, Overview!Present
<1>8. KindsRead'
  BY <1>0, <1>1, <1>2, <1>3, <1>5 DEF KindsRead, Unread
<1>9. ReadNow'
  BY <1>0, <1>1, <1>2, <1>3, <1>5, ReadAgain DEF ReadNow, Unread, AllRead
<1>10. EndsMeet'
  BY <1>1, <1>2 DEF EndsMeet, Overview!ConnectionsHaveEnds
<1> QED BY <1>1, <1>7, <1>8, <1>9, <1>10, Unfinished DEF OverviewInv

LEMMA ReadSkillsStep ==
    ASSUME OverviewInv, Overview!ReadSkills PROVE OverviewInv'
<1>0. OverTyped /\ KindsRead /\ ReadNow /\ EndsMeet
  BY DEF OverviewInv
<1>1. /\ query = "skills" /\ inReview' = inReview
      /\ required' = required /\ areas' = areas /\ groupBy' = groupBy
      /\ connections' = connections /\ counts' = counts /\ listed' = listed /\ moved' = moved
      /\ members' = [b \in Overview!Bubbles |->
            IF b[1] = Overview!Grouping
            THEN [members[b] EXCEPT !.skills =
                     UNION {Overview!SkillsOf(p) : p \in
                              {q \in Overview!Counts(Overview!Grouping) : Overview!Under(q, b)}}]
            ELSE members[b]]
      /\ query' \in IF groupBy = "tech_stack" THEN {"links"}
                    ELSE IF groupBy = "level" THEN {"counts"} ELSE {"links", "done"}
  BY DEF Overview!ReadSkills, Overview!store
<1>2. groupBy \in {"domain", "tech_stack", "level"} /\ connections = {}
  BY <1>0, <1>1 DEF OverTyped, EndsMeet
<1>3. Overview!Grouping = CASE groupBy = "domain" -> "industry"
                            [] groupBy = "tech_stack" -> "stack" [] OTHER -> "level"
  BY <1>2, GroupingIs
<1>4. \A b \in Overview!Bubbles :
          /\ members'[b] \in [positions : SUBSET PositionNodes, skills : SUBSET SkillNodes]
          /\ members'[b].positions = members[b].positions
          /\ b[1] # Overview!Grouping => members'[b] = members[b]
  <2> TAKE b \in Overview!Bubbles
  <2> DEFINE some == UNION {Overview!SkillsOf(p) : p \in
                        {q \in Overview!Counts(Overview!Grouping) : Overview!Under(q, b)}}
  <2>1. some \subseteq SkillNodes
    BY DEF Overview!SkillsOf
  <2>2. members'[b] = IF b[1] = Overview!Grouping THEN [members[b] EXCEPT !.skills = some]
                      ELSE members[b]
    BY <1>1
  <2> HIDE DEF some
  <2> QED BY <1>0, <2>1, <2>2 DEF OverTyped
<1>5. members' \in [Overview!Bubbles -> [positions : SUBSET PositionNodes, skills : SUBSET SkillNodes]]
  BY <1>1, <1>4
<1>6. OverTyped'
  BY <1>0, <1>1, <1>2, <1>5 DEF OverTyped, Overview!Present
<1>7. KindsRead'
  BY <1>0, <1>1, <1>2, <1>3, <1>4 DEF KindsRead, Unread
<1>8. ReadNow'
  <2> SUFFICES ASSUME ~moved PROVE ReadNow'
    BY <1>1 DEF ReadNow
  <2>1. AllRead(Overview!Grouping)
    BY <1>0, <1>1 DEF ReadNow
  <2>2. \A b \in Overview!Bubbles : b[1] = Overview!Grouping => members'[b].positions = AsRead(b)'
    BY <1>1, <1>4, <2>1, ReadAgain DEF AllRead
  <2>3. \A b \in Overview!Bubbles : members'[b] # Unread => members'[b].positions = AsRead(b)'
    BY <1>0, <1>1, <1>4, <2>2, ReadAgain DEF ReadNow
  <2>4. /\ groupBy = "tech_stack" => AllRead("stack")'
        /\ groupBy = "level" => AllRead("level")'
        /\ groupBy = "domain" => AllRead("industry")'
    BY <1>3, <2>2 DEF AllRead
  <2> QED BY <1>1, <1>2, <2>3, <2>4 DEF ReadNow, Unread
<1>9. EndsMeet'
  BY <1>1, <1>2 DEF EndsMeet, Overview!ConnectionsHaveEnds
<1>10. query' # "idle"
  BY <1>1
<1> QED BY <1>1, <1>6, <1>7, <1>8, <1>9, <1>10, Unfinished DEF OverviewInv

LEMMA ReadDemandStep ==
    ASSUME OverviewInv, Overview!ReadDemand PROVE OverviewInv'
<1>0. OverTyped /\ KindsRead /\ ReadNow /\ EndsMeet
  BY DEF OverviewInv
<1>1. /\ query = "demand" /\ query' \in {"links", "done"} /\ inReview' = inReview
      /\ required' = required /\ areas' = areas /\ groupBy' = groupBy
      /\ connections' = connections /\ counts' = counts /\ listed' = listed /\ moved' = moved
      /\ members' = [b \in Overview!Bubbles |->
            IF b[1] = "skill" THEN [positions |-> {p \in Overview!Counts("skill") : Overview!Under(p, b)},
                                    skills |-> {}]
            ELSE members[b]]
  BY DEF Overview!ReadDemand, Overview!store
<1>2. groupBy = "heat" /\ connections = {}
  BY <1>0, <1>1 DEF OverTyped, EndsMeet
<1>3. \A b \in Overview!Bubbles :
          /\ b[1] = "skill" => members'[b] = [positions |-> AsRead(b), skills |-> {}]
          /\ b[1] # "skill" => members'[b] = members[b]
  BY <1>1 DEF AsRead
<1>4. \A b \in Overview!Bubbles : members'[b] \in [positions : SUBSET PositionNodes, skills : SUBSET SkillNodes]
  <2>1. \A b \in Overview!Bubbles : members[b] \in [positions : SUBSET PositionNodes, skills : SUBSET SkillNodes]
    BY <1>0 DEF OverTyped
  <2> TAKE b \in Overview!Bubbles
  <2>2. AsRead(b) \in SUBSET PositionNodes
    BY AsReadIn
  <2>3. CASE b[1] = "skill"
    <3>1. members'[b] = [positions |-> AsRead(b), skills |-> {}]
      BY <1>3, <2>3
    <3> QED BY <2>2, <3>1
  <2> QED BY <1>3, <2>1, <2>3
<1>5. members' \in [Overview!Bubbles -> [positions : SUBSET PositionNodes, skills : SUBSET SkillNodes]]
  BY <1>1, <1>4
<1>6. OverTyped'
  BY <1>0, <1>1, <1>2, <1>5 DEF OverTyped, Overview!Present
<1>7. KindsRead'
  BY <1>0, <1>1, <1>2, <1>3 DEF KindsRead, Unread
<1>8. ReadNow'
  BY <1>0, <1>1, <1>2, <1>3, ReadAgain DEF ReadNow, Unread
<1>9. EndsMeet'
  BY <1>1, <1>2 DEF EndsMeet, Overview!ConnectionsHaveEnds
<1> QED BY <1>1, <1>6, <1>7, <1>8, <1>9, Unfinished DEF OverviewInv

\* The members stay while the query moves on to or past the connections.
LEMMA MembersStay ==
    ASSUME OverviewInv, members' = members, groupBy' = groupBy, inReview' = inReview,
           required' = required, areas' = areas, moved' = moved,
           query \in {"links", "counts"},
           \/ query' = "done" /\ (query = "counts" => groupBy # "domain")
           \/ query' = "counts" /\ groupBy = "tech_stack"
           \/ query' = "demand" /\ groupBy = "heat"
           \/ query' \in {"empty", "error"}
    PROVE  OverTyped' /\ KindsRead' /\ ReadNow'
<1>0. OverTyped /\ KindsRead /\ ReadNow
  BY DEF OverviewInv
<1>1. OverTyped'
  BY <1>0 DEF OverTyped, Overview!Present
<1>2. KindsRead'
  BY <1>0 DEF KindsRead, Unread
<1>3. ReadNow'
  <2>1. \A kind : AllRead(kind)' <=> AllRead(kind)
    BY ReadAgain DEF AllRead
  <2> QED BY <1>0, <2>1, ReadAgain DEF ReadNow, OverTyped, Unread
<1> QED BY <1>1, <1>2, <1>3

LEMMA ReadLinksStep ==
    ASSUME OverviewInv, Overview!ReadLinks PROVE OverviewInv'
<1>0. OverTyped
  BY DEF OverviewInv
<1>1. /\ query = "links" /\ inReview' = inReview
      /\ required' = required /\ areas' = areas /\ groupBy' = groupBy
      /\ members' = members /\ counts' = counts /\ listed' = listed /\ moved' = moved
      /\ query' = IF groupBy = "tech_stack" THEN "counts" ELSE "done"
      /\ \E found : connections' = Overview!Prune(found)
  BY DEF Overview!ReadLinks, Overview!store
<1>2. OverTyped' /\ KindsRead' /\ ReadNow'
  BY <1>1, MembersStay
<1>3. query' \in {"counts", "done"}
  BY <1>1
<1>4. EndsMeet'
  BY <1>1, <1>3, Pruned DEF EndsMeet
<1> QED BY <1>1, <1>2, <1>3, <1>4, Unfinished DEF OverviewInv

LEMMA FailStep ==
    ASSUME OverviewInv, Overview!Fail PROVE OverviewInv'
<1>0. OverTyped /\ KindsRead /\ ReadNow /\ EndsMeet
  BY DEF OverviewInv
<1> DEFINE ladder == {{<<"level", l>> : l \in step_} : step_ \in Ladder}
<1>1. /\ query \notin {"idle", "done", "empty", "error"} /\ inReview' = inReview
      /\ required' = required /\ areas' = areas /\ groupBy' = groupBy
      /\ members' = members /\ counts' = counts /\ listed' = listed /\ moved' = moved
  BY DEF Overview!Fail, Overview!store
<1>2. CASE query = "counts" /\ groupBy # "domain"
  <2>1. /\ query' = IF groupBy = "heat" THEN "demand" ELSE "done"
        /\ connections' = IF groupBy = "level" THEN Overview!Prune(ladder) ELSE connections
    BY <1>2 DEF Overview!Fail
  <2> HIDE DEF ladder
  <2>2. OverTyped' /\ KindsRead' /\ ReadNow'
    BY <1>1, <1>2, <2>1, MembersStay
  <2>3. EndsMeet'
    <3>1. CASE groupBy = "level"
      BY <1>1, <1>2, <2>1, <3>1, Pruned DEF EndsMeet
    <3>2. CASE groupBy = "tech_stack"
      BY <1>0, <1>1, <1>2, <2>1, <3>2 DEF EndsMeet, Overview!ConnectionsHaveEnds, Overview!Domains,
         Overview!Kept, Overview!OfKind, Overview!Nothing
    <3>3. CASE groupBy = "heat"
      BY <1>0, <1>1, <1>2, <2>1, <3>3 DEF EndsMeet, Overview!ConnectionsHaveEnds
    <3> QED BY <1>0, <1>2, <3>1, <3>2, <3>3 DEF OverTyped
  <2>4. query' # "idle"
    BY <2>1
  <2> QED BY <1>1, <2>2, <2>3, <2>4, Unfinished DEF OverviewInv
<1>3. CASE ~ (query = "counts" /\ groupBy # "domain")
  <2>1. query' \in {"empty", "error"} /\ connections' = {}
    BY <1>3 DEF Overview!Fail
  <2>2. OverTyped'
    BY <1>0, <1>1, <2>1 DEF OverTyped, Overview!Present
  <2>3. KindsRead'
    BY <1>0, <1>1, <2>1 DEF KindsRead, Unread
  <2>4. ReadNow'
    BY <1>0, <1>1, <2>1, ReadAgain DEF ReadNow, Unread
  <2>5. EndsMeet'
    BY <2>1 DEF EndsMeet, Overview!ConnectionsHaveEnds
  <2> QED BY <1>1, <2>1, <2>2, <2>3, <2>4, <2>5, Unfinished DEF OverviewInv
<1> QED BY <1>2, <1>3

LEMMA OpenStep ==
    ASSUME OverviewInv, NEW b \in Overview!Bubbles, Overview!Open(b) PROVE OverviewInv'
<1>0. OverTyped /\ KindsRead /\ ReadNow /\ EndsMeet /\ CountsKept
  BY DEF OverviewInv
<1>1. /\ query = "done" /\ b \in Overview!Domains /\ query' = query /\ inReview' = inReview
      /\ required' = required /\ areas' = areas /\ groupBy' = groupBy
      /\ members' = members /\ counts' = counts /\ connections' = connections /\ moved' = moved
      /\ listed' = [bubble |-> b, positions |-> {p \in Overview!Lists(b[1]) : Overview!Under(p, b)}]
  BY DEF Overview!Open, Overview!store
<1>2. OverTyped' /\ KindsRead' /\ CountsKept'
  BY <1>0, <1>1, ReadAgain DEF OverTyped, KindsRead, CountsKept, Unread, Overview!NoCounts,
     Overview!Present
<1>3. ReadNow'
  <2>1. \A kind : AllRead(kind)' <=> AllRead(kind)
    BY <1>1, ReadAgain DEF AllRead
  <2> QED BY <1>0, <1>1, <2>1, ReadAgain DEF ReadNow, OverTyped, Unread
<1>4. EndsMeet'
  BY <1>0, <1>1 DEF EndsMeet, Overview!ConnectionsHaveEnds, Overview!Domains, Overview!Kept,
     Overview!OfKind, Overview!Nothing
<1>5. ~moved => members[b].positions = AsRead(b)
  <2>1. groupBy = "level" => b[1] = "level"
    BY <1>1 DEF Overview!Domains, Overview!OfKind
  <2>2. groupBy # "level" => members[b] # Unread
    BY <1>1, KeptAre DEF Overview!Domains
  <2> QED BY <1>0, <1>1, <2>1, <2>2 DEF ReadNow, AllRead
<1>6. {p \in Overview!Lists(b[1]) : Overview!Under(p, b)}
        = IF b[1] \in {"industry", "skill"} THEN AsRead(b) \intersect Overview!Approved ELSE AsRead(b)
  <2>1. Overview!Approved \subseteq Overview!Present
    BY DEF Overview!Approved, Overview!Present
  <2>2. /\ b[1] \in {"industry", "skill"} => Overview!Lists(b[1]) = Overview!Approved
                                             /\ Overview!Counts(b[1]) = Overview!Present
        /\ b[1] \in {"stack", "level", "area"} => Overview!Lists(b[1]) = Overview!Counts(b[1])
    BY DEF Overview!Lists, Overview!Counts
  <2> QED BY <2>1, <2>2, BubbleKinds DEF AsRead
<1>7. Shown'
  BY <1>1, <1>5, <1>6, ReadAgain DEF Shown, Overview!BubbleOpens
<1> QED BY <1>2, <1>3, <1>4, <1>7 DEF OverviewInv

LEMMA OverviewStays ==
    Overview!OverviewAssumption /\ OverviewInv /\ [Overview!Next]_Overview!vars => OverviewInv'
<1> SUFFICES ASSUME Overview!OverviewAssumption, OverviewInv, [Overview!Next]_Overview!vars
             PROVE OverviewInv'
  OBVIOUS
<1>1. CASE UNCHANGED Overview!vars
  <2>1. /\ inReview' = inReview /\ required' = required /\ areas' = areas /\ groupBy' = groupBy
        /\ query' = query /\ members' = members /\ connections' = connections
        /\ counts' = counts /\ listed' = listed /\ moved' = moved
    BY <1>1 DEF Overview!vars
  <2>2. OverTyped' /\ KindsRead' /\ CountsKept'
    BY <2>1, ReadAgain DEF OverviewInv, OverTyped, KindsRead, CountsKept, Unread, Overview!NoCounts,
       Overview!Present
  <2>3. ReadNow'
    <3>1. \A kind : AllRead(kind)' <=> AllRead(kind)
      BY <2>1, ReadAgain DEF AllRead
    <3>2. Overview!Grouping' = Overview!Grouping
      BY <2>1 DEF Overview!Grouping, Overview!KindOf
    <3> QED BY <2>1, <3>1, <3>2, ReadAgain DEF OverviewInv, ReadNow, Unread
  <2>4. EndsMeet'
    BY <2>1 DEF OverviewInv, EndsMeet, Overview!ConnectionsHaveEnds, Overview!Domains, Overview!Kept,
       Overview!OfKind, Overview!Nothing
  <2>5. Shown'
    BY <2>1, ReadAgain DEF OverviewInv, Shown, Overview!BubbleOpens, Overview!Closed
  <2> QED BY <2>2, <2>3, <2>4, <2>5 DEF OverviewInv
<1>2. CASE Overview!Change \/ Overview!Fail
  BY <1>2, ChangeStep, FailStep
<1>3. CASE \E m \in {"domain", "tech_stack", "level", "heat"} : Overview!Begin(m)
  BY <1>3, BeginStep
<1>4. CASE Overview!ReadAreas \/ Overview!ReadCounts \/ Overview!ReadPositions
  BY <1>4, ReadAreasStep, ReadCountsStep, ReadPositionsStep
<1>5. CASE Overview!ReadSkills \/ Overview!ReadDemand \/ Overview!ReadLinks
  BY <1>5, ReadSkillsStep, ReadDemandStep, ReadLinksStep
<1>6. CASE \E b \in Overview!Bubbles : Overview!Open(b)
  BY <1>6, OpenStep
<1> QED BY <1>1, <1>2, <1>3, <1>4, <1>5, <1>6 DEF Overview!Next

\* One position, one bubble.
LEMMA OneBubble ==
    ASSUME OverviewInv, NEW p \in PositionNodes, NEW kind \in {"stack", "industry", "level"},
           AllRead(kind), p \in Overview!Counts(kind), Overview!OverviewAssumption,
           query = "done", kind = "level" <=> groupBy = "level",
           \A b \in Overview!Domains : p \in members[b].positions => b[1] = kind
    PROVE  Cardinality({b \in Overview!Domains : p \in members[b].positions}) = 1
<1>0. OverTyped
  BY DEF OverviewInv
<1> DEFINE x == IF kind = "level" THEN LevelOf[p] ELSE StackOf[p]
           one == <<kind, x>>
<1>1. one \in Overview!Bubbles /\ one[1] = kind /\ one[2] = x
  BY DEF Overview!Bubbles, Overview!Range, Overview!OverviewAssumption
<1>2. \A b \in Overview!Bubbles : b[1] = kind => (p \in members[b].positions <=> b = one)
  <2> TAKE b \in Overview!Bubbles
  <2> HAVE b[1] = kind
  <2>1. members[b].positions = AsRead(b)
    BY DEF AllRead
  <2>2. p \in AsRead(b) <=> b[2] = x
    BY DEF AsRead, Overview!Under
  <2> QED BY <2>1, <2>2, BubbleKinds
<1> HIDE DEF one
<1>3. one \in Overview!Domains
  <2>1. CASE groupBy = "level"
    BY <1>1, <2>1 DEF Overview!Domains, Overview!OfKind
  <2>2. CASE groupBy # "level"
    <3>1. p \in members[one].positions
      BY <1>1, <1>2
    <3>2. one \in Overview!Kept
      BY <1>1, <3>1, KeptAre DEF Unread
    <3> QED BY <2>2, <3>2 DEF Overview!Domains
  <2> QED BY <2>1, <2>2
<1>4. Overview!Domains \subseteq Overview!Bubbles
  BY DEF Overview!Domains, Overview!Kept, Overview!OfKind
<1>5. {b \in Overview!Domains : p \in members[b].positions} = {one}
  BY <1>1, <1>2, <1>3, <1>4
<1> QED BY <1>5, FS_Singleton

LEMMA OnceEach == Overview!OverviewAssumption /\ OverviewInv => Overview!EveryPositionOnce
<1> DEFINE some == IF groupBy # "domain" THEN Overview!Approved
                  ELSE IF required = {} THEN {} ELSE Overview!Present
<1> SUFFICES ASSUME Overview!OverviewAssumption, OverviewInv, query = "done", ~moved,
                    groupBy # "heat", Overview!Kept \intersect Overview!OfKind({"area"}) = {},
                    NEW p \in some
             PROVE  Cardinality({b \in Overview!Domains : p \in members[b].positions}) = 1
  <2>1. ASSUME Overview!OverviewAssumption, OverviewInv PROVE Overview!EveryPositionOnce
    <3>1. ASSUME NEW p \in some, query = "done", ~moved, groupBy # "heat",
                 Overview!Kept \intersect Overview!OfKind({"area"}) = {}
          PROVE Overview!Cardinality({b \in Overview!Domains : p \in members[b].positions}) = 1
      BY <2>1, <3>1, OverviewSets, Zenon
    <3> QED BY <3>1, Zenon DEF Overview!EveryPositionOnce
  <2> QED BY <2>1
<1>0. OverTyped /\ KindsRead /\ ReadNow
  BY DEF OverviewInv
<1>1. p \in PositionNodes /\ Overview!Domains \subseteq Overview!Bubbles
  BY DEF Overview!Approved, Overview!Present, Overview!Domains, Overview!Kept, Overview!OfKind
<1>2. groupBy \in {"tech_stack", "level", "domain"}
  BY <1>0 DEF OverTyped
<1>3. \A b \in Overview!Bubbles : p \in members[b].positions => members[b] # Unread
  BY DEF Unread
<1>4. CASE groupBy = "tech_stack"
  <2>1. AllRead("stack") /\ p \in Overview!Counts("stack")
    BY <1>0, <1>4 DEF ReadNow, Overview!Counts
  <2>2. \A b \in Overview!Domains : p \in members[b].positions => b[1] = "stack"
    BY <1>0, <1>1, <1>3, <1>4 DEF KindsRead
  <2> QED BY <1>1, <1>4, <2>1, <2>2, OneBubble
<1>5. CASE groupBy = "level"
  <2>1. AllRead("level") /\ p \in Overview!Counts("level")
    BY <1>0, <1>5 DEF ReadNow, Overview!Counts
  <2>2. \A b \in Overview!Domains : p \in members[b].positions => b[1] = "level"
    BY <1>0, <1>1, <1>3, <1>5 DEF KindsRead
  <2> QED BY <1>1, <1>5, <2>1, <2>2, OneBubble
<1>6. CASE groupBy = "domain"
  <2>1. required # {} /\ p \in Overview!Counts("industry")
    BY <1>6 DEF Overview!Counts
  <2>2. \A b \in Overview!Bubbles : members[b] # Unread => b[1] # "area"
    BY KeptAre DEF Overview!OfKind
  <2>3. AllRead("industry")
    BY <1>0, <1>6, <2>1, <2>2 DEF ReadNow
  <2>4. \A b \in Overview!Domains : p \in members[b].positions => b[1] = "industry"
    BY <1>0, <1>1, <1>3, <1>6, <2>2 DEF KindsRead
  <2> QED BY <1>1, <1>6, <2>1, <2>3, <2>4, OneBubble
<1> QED BY <1>2, <1>4, <1>5, <1>6

LEMMA OverviewInSum ==
    /\ SumInit => (focus = "overview" => Overview!Init)
    /\ [SumNext]_allVars => focus' = focus /\ (focus = "overview" => [Overview!Next]_Overview!vars)
  BY DEF SumInit, SumNext, allVars, overviewVars, Overview!vars

LEMMA OverviewHolds == SumSpec => [](focus = "overview" => OverviewInv)
<1>1. SumInit => (focus = "overview" => OverviewInv)
  BY OverviewInSum, OverviewStarts, RecordsAssumptions
<1>2. (focus = "overview" => OverviewInv) /\ [SumNext]_allVars
        => (focus = "overview" => OverviewInv)'
  BY OverviewInSum, OverviewStays, RecordsAssumptions
<1> QED BY <1>1, <1>2, PTL DEF SumSpec

\* For any positions, skills, areas, classifications and number of changes: the overview
\* has both ends of every connection, whatever changed between its queries; and when
\* nothing did, it has every position in one bubble - but by areas and skills -, its
\* bubbles open on what they announce and its counts are those of the graph or zero
\* (services/graph_overview.py, get_ka_positions).
THEOREM GraphOverviewIsSound == SumSpec => []OverviewSound
<1>1. OverviewInv => Overview!ConnectionsHaveEnds /\ Overview!BubbleOpens
  BY Zenon DEF OverviewInv, EndsMeet, Shown
<1>4. OverviewInv => Overview!CountsTrue
  BY OverviewSets DEF OverviewInv, CountsKept, Overview!CountsTrue
<1>2. OverviewInv => Overview!EveryPositionOnce
  BY OnceEach, RecordsAssumptions
<1>3. (focus = "overview" => OverviewInv) => OverviewSound
  BY <1>1, <1>2, <1>4 DEF OverviewSound, Overview!OverviewSound
<1> QED BY <1>3, OverviewHolds, PTL

-----------------------------------------------------------------------------
(* Types of the graph page.  An edge is in the pool as often as requests   *)
(* were under way that did not have its key: a request made later has it.  *)

AnswerRecord ==
    [kind : {"idle", "overview", "positions", "edges", "paths"},
     of : Modes \union DOMAIN EdgesUnder \union Browser!Positions \union {Browser!None},
     keys : SUBSET Browser!Edges]

PanelTyped ==
    /\ overview \in Modes /\ chosen \in Modes
    /\ opened \in Browser!Positions \union {Browser!None}
    /\ named \in BOOLEAN /\ known \subseteq Browser!Positions
    /\ panel \in Browser!Positions \union {Browser!None, "island", "skill"}

TrendsTyped ==
    /\ evolution \in BOOLEAN /\ edgesLoaded \in BOOLEAN
    /\ paths \in Browser!Positions \union {Browser!None}
    /\ inFocus \in Browser!Positions \union {Browser!None}

AnswersTyped ==
    /\ requested \in 0 .. MaxAsked
    /\ answer \in [AnswerSlots -> AnswerRecord]
    /\ \A s \in AnswerSlots : answer[s].kind = "paths" => answer[s].of \in Browser!Positions

\* The answers that are going to add edge e.
Adding(e) ==
    {s \in AnswerSlots :
        answer[s].kind = "positions" /\ e \in EdgesUnder[answer[s].of] \ answer[s].keys}

LinksBounded ==
    \A e \in Browser!Edges : links[e] + Cardinality(Adding(e)) <= Cardinality(AnswerSlots)

PageTypes == PanelTyped /\ TrendsTyped /\ AnswersTyped /\ LinksBounded

LEMMA SlotsFinite ==
    /\ IsFiniteSet(AnswerSlots) /\ Cardinality(AnswerSlots) \in Nat
    /\ Browser!Cardinality(AnswerSlots) = Cardinality(AnswerSlots)
    /\ \A S \in SUBSET AnswerSlots :
           IsFiniteSet(S) /\ Cardinality(S) \in Nat /\ Cardinality(S) <= Cardinality(AnswerSlots)
<1>1. Browser!IsFiniteSet(AnswerSlots) <=> IsFiniteSet(AnswerSlots)
  BY DEF Browser!IsFiniteSet, IsFiniteSet
<1>2. IsFiniteSet(AnswerSlots)
  BY <1>1, RecordsAssumptions DEF Browser!BrowserAssumption
<1>3. Browser!Cardinality(AnswerSlots) = Cardinality(AnswerSlots)
  BY DEF Browser!Cardinality, Cardinality
<1> QED BY <1>2, <1>3, FS_CardinalityType, FS_Subset

LEMMA IdleRecord == Browser!Idle \in AnswerRecord /\ Browser!Idle.kind = "idle"
  BY DEF Browser!Idle, AnswerRecord

LEMMA PageTypesStart == Browser!Init => PageTypes
<1> SUFFICES ASSUME Browser!Init PROVE PageTypes
  OBVIOUS
<1>1. PanelTyped /\ TrendsTyped
  BY RecordsAssumptions DEF Browser!Init, Browser!BrowserAssumption, PanelTyped, TrendsTyped
<1>2. answer = [s \in AnswerSlots |-> Browser!Idle] /\ requested = 0
  BY DEF Browser!Init
<1>3. MaxAsked \in Nat
  BY RecordsAssumptions DEF Browser!BrowserAssumption
<1>4. AnswersTyped
  BY <1>2, <1>3, IdleRecord DEF AnswersTyped
<1>5. \A e \in Browser!Edges : links[e] = 0 /\ Adding(e) = {}
  BY <1>2, IdleRecord DEF Browser!Init, Adding
<1>6. LinksBounded
  BY <1>5, SlotsFinite, FS_EmptySet DEF LinksBounded
<1> QED BY <1>1, <1>4, <1>6 DEF PageTypes

\* The focus is moved to a position.
LEMMA FocusAsks ==
  ASSUME PageInv, PanelTyped, NEW s \in AnswerSlots, Browser!Focus(s)
  PROVE  \E r \in AnswerRecord :
            /\ answer' = [answer EXCEPT ![s] = r]
            /\ r.kind \in {"idle", "paths"}
            /\ r.kind = "paths" => r.of \in Browser!Positions
            /\ inFocus' = IF r.kind = "paths" THEN r.of ELSE inFocus
<1> DEFINE p == IF panel \in Browser!Positions THEN panel ELSE Browser!FirstOf(island)
           r == [kind |-> "paths", of |-> p, keys |-> {}]
           below == /\ island # Browser!None /\ Browser!Contains(cached, island)
                    /\ Browser!PositionsIn(island) # {}
<1>1. IF panel \in Browser!Positions \/ below
      THEN inFocus' = p /\ answer' = [answer EXCEPT ![s] = r]
      ELSE inFocus' = inFocus /\ answer' = [answer EXCEPT ![s] = Browser!Idle]
  BY DEF Browser!Focus
<1>2. ASSUME panel \in Browser!Positions \/ below PROVE p \in Browser!Positions
  <2>1. CASE panel \in Browser!Positions
    BY <2>1
  <2>2. CASE panel \notin Browser!Positions
    <3>1. island \in Homes /\ Browser!PositionsIn(island) # {}
      BY <1>2, <2>2 DEF PageInv, PageTyped
    <3>2. Browser!FirstOf(island) \in Browser!PositionsIn(island)
      BY <3>1 DEF Browser!FirstOf
    <3>3. Browser!PositionsIn(island) \subseteq Browser!Positions
      BY <3>1 DEF Browser!PositionsIn, Browser!Positions, Browser!Edges, Homes
    <3> QED BY <2>2, <3>2, <3>3
  <2> QED BY <2>1, <2>2
<1>3. p \in Browser!Positions => r \in AnswerRecord /\ r.kind = "paths" /\ r.of = p
  BY DEF AnswerRecord
<1> HIDE DEF p, r, below
<1> QED BY <1>1, <1>2, <1>3, IdleRecord

\* How a step changes the requests and the pool: not at all, or by one slot.
SlotChange(s, r) ==
    /\ answer' = [answer EXCEPT ![s] = r]
    /\ r.kind = "paths" => r.of \in Browser!Positions
    /\ requested' \in 0 .. MaxAsked
    /\ \/ /\ links' = links
          /\ r.kind = "positions" => r.keys = {e \in Browser!Edges : links[e] > 0}
       \/ /\ r.kind = "idle" /\ answer[s].kind = "positions"
          /\ links' = [e \in Browser!Edges |->
                 links[e] + IF e \in EdgesUnder[answer[s].of] \ answer[s].keys THEN 1 ELSE 0]

LEMMA AskChanges ==
  ASSUME PageTypes, NEW kind \in {"overview", "positions"},
         NEW of \in Modes \union DOMAIN EdgesUnder, NEW keys \in SUBSET Browser!Edges,
         kind = "positions" => keys = {e \in Browser!Edges : links[e] > 0},
         Browser!Ask(kind, of, keys), links' = links
  PROVE  \E s \in AnswerSlots, r \in AnswerRecord : SlotChange(s, r)
<1> DEFINE r == [kind |-> kind, of |-> of, keys |-> keys]
<1>1. r \in AnswerRecord /\ r.kind = kind /\ r.keys = keys
  BY DEF AnswerRecord
<1>2. /\ \E s \in AnswerSlots : answer' = [answer EXCEPT ![s] = r]
      /\ requested < MaxAsked /\ requested' = requested + 1
  BY DEF Browser!Ask
<1>3. requested \in 0 .. MaxAsked /\ MaxAsked \in Nat
  BY RecordsAssumptions DEF PageTypes, AnswersTyped, Browser!BrowserAssumption
<1> HIDE DEF r
<1>4. requested' \in 0 .. MaxAsked
  BY <1>2, <1>3
<1> QED BY <1>1, <1>2, <1>4 DEF SlotChange

LEMMA PageChanges ==
  ASSUME PageInv, PageTypes, [Browser!Next]_Browser!vars
  PROVE  \/ UNCHANGED <<answer, requested, links>>
         \/ \E s \in AnswerSlots, r \in AnswerRecord : SlotChange(s, r)
<1> USE DEF Browser!pool, Browser!requests, Browser!loads
<1>a. Browser!BrowserAssumption
  BY RecordsAssumptions
<1>b. requested \in 0 .. MaxAsked /\ MaxAsked \in Nat
  BY <1>a DEF PageTypes, AnswersTyped, Browser!BrowserAssumption
<1>c. requested' = requested => requested' \in 0 .. MaxAsked
  BY <1>b
<1>1. ASSUME NEW b \in Homes, NEW name, Browser!GoToPositionLayer(b, name), links' = links
      PROVE  \/ UNCHANGED <<answer, requested, links>>
             \/ \E s \in AnswerSlots, r \in AnswerRecord : SlotChange(s, r)
  <2>1. CASE UNCHANGED Browser!requests
    BY <1>1, <2>1
  <2>2. CASE Browser!FetchPositions(b)
    BY <1>1, <2>2, AskChanges DEF Browser!FetchPositions, Homes
  <2> QED BY <1>1, <2>1, <2>2 DEF Browser!GoToPositionLayer
<1>2. CASE Browser!OpenPage \/ \E mode \in Modes : Browser!ChooseMode(mode)
  BY <1>2, <1>a, AskChanges
     DEF Browser!OpenPage, Browser!ChooseMode, Browser!FetchOverview, Browser!BrowserAssumption
<1>3. CASE \/ Browser!EnterAgain \/ Browser!UpToBubble
           \/ (\E b \in DOMAIN EdgesUnder : Browser!EnterBubble(b))
           \/ \E b \in domains : Browser!GoToPositionLayer(b, TRUE) /\ links' = links
  <2>1. domains \subseteq Homes /\ island \in Homes \union {Browser!None}
        /\ (named => island # Browser!None)
    BY DEF PageInv, PageTyped
  <2>2. \E b \in Homes, name \in BOOLEAN : Browser!GoToPositionLayer(b, name) /\ links' = links
    BY <1>3, <2>1 DEF Browser!EnterAgain, Browser!UpToBubble, Browser!EnterBubble, Homes
  <2> QED BY <1>1, <2>2
<1>4. CASE \/ Browser!Select \/ Browser!UpToOverview \/ Browser!HideEvolution
           \/ (\E p \in Browser!Positions : Browser!OpenPosition(p) \/ Browser!OpenRelated(p))
           \/ UNCHANGED Browser!vars
           \/ UNCHANGED <<Browser!pool, Browser!requests>>
  BY <1>4 DEF Browser!Select, Browser!UpToOverview, Browser!HideEvolution,
              Browser!OpenPosition, Browser!OpenRelated, Browser!vars
<1>5. CASE \E s \in AnswerSlots : Browser!Overview(s) \/ Browser!PositionsLoaded(s)
  <2>1. PICK s \in AnswerSlots : Browser!Overview(s) \/ Browser!PositionsLoaded(s)
    BY <1>5
  <2>2. SlotChange(s, Browser!Idle)
    BY <2>1, <1>c, IdleRecord DEF Browser!Overview, Browser!PositionsLoaded, SlotChange
  <2> QED BY <2>2, IdleRecord
<1>6. CASE Browser!ShowEvolution \/ \E s \in AnswerSlots : Browser!EvolutionEdges(s)
  <2>1. PICK s \in AnswerSlots :
          \/ Browser!Focus(s)
          \/ answer' = [answer EXCEPT ![s] = [Browser!Idle EXCEPT !.kind = "edges"]]
    BY <1>6 DEF Browser!ShowEvolution, Browser!EvolutionEdges
  <2>2. links' = links /\ requested' \in 0 .. MaxAsked
    BY <1>6, <1>b, <1>c DEF Browser!ShowEvolution, Browser!EvolutionEdges
  <2>3. CASE Browser!Focus(s)
    BY <2>2, <2>3, FocusAsks DEF PageTypes, SlotChange
  <2>4. CASE answer' = [answer EXCEPT ![s] = [Browser!Idle EXCEPT !.kind = "edges"]]
    <3> DEFINE r == [Browser!Idle EXCEPT !.kind = "edges"]
    <3>1. r \in AnswerRecord /\ r.kind = "edges"
      BY DEF Browser!Idle, AnswerRecord
    <3> HIDE DEF r
    <3>2. SlotChange(s, r)
      BY <2>2, <2>4, <3>1 DEF SlotChange, r
    <3> QED BY <3>1, <3>2
  <2> QED BY <2>1, <2>3, <2>4
<1>7. CASE \E s \in AnswerSlots : Browser!Paths(s)
  <2>1. PICK s \in AnswerSlots : Browser!Paths(s)
    BY <1>7
  <2>2. SlotChange(s, Browser!Idle)
    BY <2>1, <1>c, IdleRecord DEF Browser!Paths, SlotChange
  <2> QED BY <2>2, IdleRecord
<1>8. CASE Browser!Search
  BY <1>3, <1>4, <1>8 DEF Browser!Search
<1> QED BY <1>2, <1>3, <1>4, <1>5, <1>6, <1>7, <1>8 DEF Browser!Next

LEMMA AnswersStay ==
  ASSUME PageTypes,
         \/ UNCHANGED <<answer, requested, links>>
         \/ \E s \in AnswerSlots, r \in AnswerRecord : SlotChange(s, r)
  PROVE  AnswersTyped'
  BY DEF PageTypes, AnswersTyped, SlotChange

LEMMA LinksStay ==
  ASSUME PageInv, PageTypes,
         \/ UNCHANGED <<answer, requested, links>>
         \/ \E s \in AnswerSlots, r \in AnswerRecord : SlotChange(s, r)
  PROVE  LinksBounded'
<1> SUFFICES ASSUME NEW e \in Browser!Edges
             PROVE  links'[e] + Cardinality(Adding(e)') <= Cardinality(AnswerSlots)
  BY DEF LinksBounded
<1>1. /\ links[e] \in Nat /\ links \in [Browser!Edges -> Nat]
      /\ links[e] + Cardinality(Adding(e)) <= Cardinality(AnswerSlots)
      /\ answer \in [AnswerSlots -> AnswerRecord]
  BY DEF PageInv, PageTyped, PageTypes, LinksBounded, AnswersTyped
<1>2. Adding(e) \in SUBSET AnswerSlots /\ Adding(e)' \in SUBSET AnswerSlots
  BY DEF Adding
<1>3. /\ IsFiniteSet(Adding(e)) /\ Cardinality(Adding(e)) \in Nat
      /\ IsFiniteSet(Adding(e)') /\ Cardinality(Adding(e)') \in Nat
      /\ Cardinality(Adding(e)') <= Cardinality(AnswerSlots)
      /\ Cardinality(AnswerSlots) \in Nat
  BY <1>2, SlotsFinite
<1>4. CASE UNCHANGED <<answer, requested, links>>
  BY <1>1, <1>4 DEF Adding
<1>5. ASSUME NEW s \in AnswerSlots, NEW r \in AnswerRecord, SlotChange(s, r)
      PROVE  links'[e] + Cardinality(Adding(e)') <= Cardinality(AnswerSlots)
  <2>1. answer'[s] = r /\ \A t \in AnswerSlots \ {s} : answer'[t] = answer[t]
    BY <1>1, <1>5 DEF SlotChange
  <2>2. Adding(e)' \subseteq Adding(e) =>
            Cardinality(Adding(e)') <= Cardinality(Adding(e))
    BY <1>3, FS_Subset
  <2>3. CASE links' = links /\ (r.kind = "positions" => e \in r.keys)
    <3>1. Adding(e)' \subseteq Adding(e)
      BY <2>1, <2>3 DEF Adding
    <3> QED BY <1>1, <1>3, <2>2, <2>3, <3>1
  <2>4. CASE links' = links /\ links[e] = 0
    BY <1>3, <2>4
  <2>5. CASE /\ r.kind = "idle" /\ answer[s].kind = "positions"
             /\ links' = [x \in Browser!Edges |->
                    links[x] + IF x \in EdgesUnder[answer[s].of] \ answer[s].keys THEN 1 ELSE 0]
    <3>1. Adding(e)' = Adding(e) \ {s}
      BY <2>1, <2>5 DEF Adding
    <3>2. CASE s \in Adding(e)
      <4>1. links'[e] = links[e] + 1
        BY <1>1, <2>5, <3>2 DEF Adding
      <4>2. Cardinality(Adding(e)') = Cardinality(Adding(e)) - 1
        BY <1>3, <3>1, <3>2, FS_RemoveElement
      <4> QED BY <1>1, <1>3, <4>1, <4>2
    <3>3. CASE s \notin Adding(e)
      <4>1. links'[e] = links[e]
        BY <1>1, <2>5, <3>3 DEF Adding
      <4>2. Adding(e)' = Adding(e)
        BY <3>1, <3>3
      <4> QED BY <1>1, <4>1, <4>2
    <3> QED BY <3>2, <3>3
  <2> QED BY <1>1, <1>5, <2>3, <2>4, <2>5 DEF SlotChange
<1> QED BY <1>4, <1>5

LEMMA IsBoolean == ASSUME NEW x, NEW S PROVE (x \in S) \in BOOLEAN
  OBVIOUS

\* The place that is gone to has a position that exists, or none.
LEMMA PanelStays ==
  ASSUME PageInv, PageTypes, [Browser!Next]_Browser!vars PROVE PanelTyped'
<1> USE DEF Browser!pool, Browser!requests, Browser!loads, Browser!place
<1>0. PanelTyped /\ domains \subseteq Homes /\ cached \in Seq(Homes)
  BY DEF PageTypes, PageInv, PageTyped
<1>a. \A b \in Homes : Browser!PositionsIn(b) \subseteq Browser!Positions
  BY DEF Browser!PositionsIn, Browser!Positions, Browser!Edges, Homes
<1>1. CASE \/ Browser!OpenPage \/ (\E mode \in Modes : Browser!ChooseMode(mode))
           \/ Browser!ShowEvolution \/ Browser!HideEvolution
           \/ (\E s \in AnswerSlots : Browser!EvolutionEdges(s) \/ Browser!Paths(s))
           \/ UNCHANGED Browser!vars
  BY <1>0, <1>1, RecordsAssumptions
     DEF PanelTyped, Browser!OpenPage, Browser!ChooseMode, Browser!FetchOverview,
         Browser!ShowEvolution, Browser!HideEvolution, Browser!EvolutionEdges, Browser!Paths,
         Browser!vars, Browser!BrowserAssumption
<1>2. CASE \E s \in AnswerSlots : Browser!Overview(s) \/ Browser!PositionsLoaded(s)
  <2>1. PICK s \in AnswerSlots : Browser!Overview(s) \/ Browser!PositionsLoaded(s)
    BY <1>2
  <2>2. /\ answer[s].kind = "overview" => answer[s].of \in Modes
        /\ answer[s].kind = "positions" => answer[s].of \in Homes
    BY DEF PageInv, PageTyped
  <2> QED BY <1>0, <1>a, <2>1, <2>2
          DEF PanelTyped, Browser!Overview, Browser!PositionsLoaded, Browser!Regroup
<1>3. ASSUME NEW b, Browser!GoToPositionLayer(b, TRUE), overview' = overview,
             chosen' = chosen, known' = known,
             panel' \in Browser!Positions \union {Browser!None, "island", "skill"}
      PROVE  PanelTyped'
  BY <1>0, <1>3 DEF PanelTyped, Browser!GoToPositionLayer
<1>4. ASSUME NEW p \in Browser!Positions, NEW b, NEW name \in BOOLEAN,
             Browser!GoToDetailLayer(p, b, name), overview' = overview,
             chosen' = chosen, known' = known, domains' = domains,
             panel' \in Browser!Positions \union {Browser!None, "island", "skill"}
      PROVE  PanelTyped'
  <2>1. opened' = p /\ (named' = name \/ named' = (island' \in domains))
    BY <1>4 DEF Browser!GoToDetailLayer
  <2>2. named' \in BOOLEAN
    <3>1. (island' \in domains) \in BOOLEAN
      BY IsBoolean
    <3> QED BY <1>4, <2>1, <3>1, Zenon
  <2> QED BY <1>0, <1>4, <2>1, <2>2 DEF PanelTyped
<1>5. CASE \/ Browser!EnterAgain \/ Browser!UpToBubble
           \/ \E b \in DOMAIN EdgesUnder : Browser!EnterBubble(b)
  BY <1>0, <1>3, <1>5
     DEF PanelTyped, Browser!EnterAgain, Browser!UpToBubble, Browser!EnterBubble
<1>6. CASE \/ Browser!Select \/ Browser!UpToOverview
  BY <1>0, <1>6
     DEF PanelTyped, Browser!Select, Browser!UpToOverview, Browser!GoToDomainLayer
<1>7. CASE \E p \in Browser!Positions : Browser!OpenPosition(p) \/ Browser!OpenRelated(p)
  <2>1. PICK p \in Browser!Positions :
          /\ Browser!GoToDetailLayer(p, island, named)
          /\ overview' = overview /\ chosen' = chosen /\ known' = known /\ domains' = domains
          /\ panel' = p
    BY <1>7 DEF Browser!OpenPosition, Browser!OpenRelated
  <2>2. named \in BOOLEAN
    BY <1>0 DEF PanelTyped
  <2> QED BY <1>4, <2>1, <2>2
<1>8. CASE Browser!Search
  <2>1. CASE \E b \in domains : Browser!GoToPositionLayer(b, TRUE)
                                  /\ UNCHANGED <<Browser!loads, cached, Browser!pool, panel>>
    BY <1>0, <1>3, <2>1 DEF PanelTyped
  <2>2. ASSUME NEW p \in known,
               Browser!GoToDetailLayer(p, Browser!FirstHolding(p),
                                       Browser!FirstHolding(p) \in domains),
               panel' \in {p, "skill"},
               UNCHANGED <<Browser!loads, cached, Browser!pool, Browser!requests>>
        PROVE  PanelTyped'
    <3>1. p \in Browser!Positions
      BY <1>0 DEF PanelTyped
    <3>2. (Browser!FirstHolding(p) \in domains) \in BOOLEAN
      BY IsBoolean
    <3>3. /\ overview' = overview /\ chosen' = chosen /\ known' = known /\ domains' = domains
          /\ panel' \in Browser!Positions \union {Browser!None, "island", "skill"}
      BY <2>2, <3>1
    <3> DEFINE name == Browser!FirstHolding(p) \in domains
    <3>4. name \in BOOLEAN /\ Browser!GoToDetailLayer(p, Browser!FirstHolding(p), name)
      BY <2>2, <3>2, Zenon
    <3> HIDE DEF name
    <3> QED BY <1>4, <3>1, <3>3, <3>4
  <2> QED BY <1>8, <2>1, <2>2 DEF Browser!Search
<1> QED BY <1>1, <1>2, <1>5, <1>6, <1>7, <1>8 DEF Browser!Next

LEMMA TrendsStay ==
  ASSUME PageInv, PageTypes, [Browser!Next]_Browser!vars PROVE TrendsTyped'
<1> USE DEF Browser!pool, Browser!requests, Browser!loads, Browser!trends
<1>0. TrendsTyped /\ PanelTyped /\ AnswersTyped
  BY DEF PageTypes
<1>1. CASE UNCHANGED <<evolution, edgesLoaded, paths, inFocus>>
  BY <1>0, <1>1 DEF TrendsTyped
<1>2. CASE \/ Browser!Select \/ Browser!EnterAgain \/ Browser!UpToBubble
           \/ Browser!UpToOverview \/ Browser!Search
           \/ (\E mode \in Modes : Browser!ChooseMode(mode))
           \/ (\E b \in DOMAIN EdgesUnder : Browser!EnterBubble(b))
           \/ (\E p \in Browser!Positions : Browser!OpenPosition(p) \/ Browser!OpenRelated(p))
           \/ (\E s \in AnswerSlots : Browser!PositionsLoaded(s))
           \/ UNCHANGED Browser!vars
  BY <1>1, <1>2
     DEF Browser!Select, Browser!EnterAgain, Browser!UpToBubble, Browser!UpToOverview,
         Browser!Search, Browser!ChooseMode, Browser!FetchOverview, Browser!EnterBubble,
         Browser!OpenPosition, Browser!OpenRelated, Browser!PositionsLoaded, Browser!vars
<1>3. CASE Browser!OpenPage \/ Browser!HideEvolution
  BY <1>0, <1>3 DEF TrendsTyped, Browser!OpenPage, Browser!HideEvolution
<1>4. CASE \E s \in AnswerSlots : Browser!Overview(s) \/ Browser!Paths(s)
  BY <1>0, <1>4 DEF TrendsTyped, AnswersTyped, Browser!Overview, Browser!Regroup, Browser!Paths
<1>5. CASE Browser!ShowEvolution \/ \E s \in AnswerSlots : Browser!EvolutionEdges(s)
  <2>1. /\ evolution' \in BOOLEAN /\ edgesLoaded' \in BOOLEAN /\ paths' = paths
        /\ inFocus' = inFocus \/ \E s \in AnswerSlots : Browser!Focus(s)
    BY <1>0, <1>5 DEF TrendsTyped, Browser!ShowEvolution, Browser!EvolutionEdges
  <2>2. inFocus' = inFocus \/ inFocus' \in Browser!Positions
    BY <1>0, <2>1, FocusAsks
  <2> QED BY <1>0, <2>1, <2>2 DEF TrendsTyped
<1> QED BY <1>2, <1>3, <1>4, <1>5 DEF Browser!Next

LEMMA PageTypesHold == SumSpec => []PageTypes
<1>1. SumInit => PageTypes
  BY PageInSum, PageTypesStart
<1>2. PageInv /\ PageTypes /\ [SumNext]_allVars => PageTypes'
  <2> SUFFICES ASSUME PageInv, PageTypes, [Browser!Next]_Browser!vars PROVE PageTypes'
    BY PageInSum
  <2>1. AnswersTyped' /\ LinksBounded'
    BY PageChanges, AnswersStay, LinksStay
  <2> QED BY <2>1, PanelStays, TrendsStay DEF PageTypes
<1> QED BY <1>1, <1>2, PageHolds, PTL DEF SumSpec

LEMMA BrowserTypes == PageInv /\ PageTypes => Browser!TypeOK
<1> SUFFICES ASSUME PageInv, PageTypes PROVE Browser!TypeOK
  OBVIOUS
<1>1. links \in [Browser!Edges -> 0 .. Browser!Cardinality(AnswerSlots)]
  <2>1. ASSUME NEW e \in Browser!Edges
        PROVE  links[e] \in 0 .. Browser!Cardinality(AnswerSlots)
    <3>1. Adding(e) \in SUBSET AnswerSlots
      BY DEF Adding
    <3>2. Cardinality(Adding(e)) \in Nat
      BY <3>1, SlotsFinite
    <3> QED BY <3>2, SlotsFinite DEF PageInv, PageTyped, PageTypes, LinksBounded
  <2> QED BY <2>1 DEF PageInv, PageTyped
<1>2. Browser!ToSet(cached) \subseteq DOMAIN EdgesUnder
  BY DEF PageInv, PageTyped, Browser!ToSet, Homes
<1> QED BY <1>1, <1>2 DEF Browser!TypeOK, PageInv, PageTyped, PageTypes, PanelTyped,
           TrendsTyped, AnswersTyped, AnswerRecord, Homes

-----------------------------------------------------------------------------
(* Types of all the records.                                               *)

LEMMA AccountsInSum == SumSpec => Spec
<1>1. (SumInit => Init) /\ ([SumNext]_allVars => [Next]_vars)
  BY DEF SumInit, SumNext, allVars, vars
<1> QED BY <1>1, PTL DEF SumSpec, Spec

LEMMA WebTypes == WebInv => Web!TypeOK
  BY DEF WebInv, WebTyped, Web!TypeOK

LEMMA PollTypes == PollInv => Poll!TypeOK
  BY DEF PollInv, PollTyped, PollRecord, Poll!TypeOK

LEMMA OverviewTypes == OverviewInv => Overview!TypeOK
<1> SUFFICES ASSUME OverviewInv PROVE Overview!TypeOK
  OBVIOUS
<1>1. Overview!Domains \subseteq Overview!Bubbles
  BY DEF Overview!Domains, Overview!Kept, Overview!OfKind
<1>2. connections \subseteq SUBSET Overview!Bubbles
  BY <1>1 DEF OverviewInv, EndsMeet, Overview!ConnectionsHaveEnds
<1>3. OverTyped
  BY DEF OverviewInv
<1> QED BY <1>2, <1>3 DEF OverTyped, Overview!TypeOK

\* Every record keeps its types, for every value of the constants; those of the rows
\* of jd_raw and of the edges of the graph page bound how often a row is extracted by
\* an execution (run_batch_extract_jd) and an edge is fetched (fetchKAPositions).
THEOREM AllRecordsAreTyped == SumSpec => []AllTypesOK
<1> DEFINE Typed == /\ TypeOK /\ Flow!TypeOK /\ Months!TypeOK /\ Prompts!TypeOK
                    /\ Outbox!TypeOK /\ Stats!TypeOK /\ Crawl!TypeOK /\ Web!TypeOK
                    /\ Tab!TypeOK /\ Poll!TypeOK /\ Browser!TypeOK
                    /\ (focus = "overview" => Overview!TypeOK)
<1>1. SumSpec => []TypeOK
  BY AccountsInSum, AccountTypes, PTL
<1>2. JdInv /\ JdTypes => Flow!TypeOK
  BY JdFlowTypes
<1>3. MonthsInv => Months!TypeOK
  BY DEF MonthsInv, MonthsTyped
<1>4. PromptInv => Prompts!TypeOK
  BY DEF PromptInv, PromptTyped
<1>5. OutboxInv => Outbox!TypeOK
  BY DEF OutboxInv, OutboxTyped
<1>6. StatsInv => Stats!TypeOK
  BY DEF StatsInv
<1>7. CrawlInv => Crawl!TypeOK
  BY DEF CrawlInv, CrawlTyped
<1>8. TabInv => Tab!TypeOK
  BY TabTypes DEF TabInv
<1>9. Typed => AllTypesOK
  BY DEF AllTypesOK
<1>10. (focus = "overview" => OverviewInv) => (focus = "overview" => Overview!TypeOK)
  BY OverviewTypes
<1>11. /\ TypeOK /\ JdInv /\ JdTypes /\ MonthsInv /\ PromptInv /\ OutboxInv /\ StatsInv
       /\ CrawlInv /\ WebInv /\ TabInv /\ PollInv /\ PageInv /\ PageTypes
       /\ (focus = "overview" => OverviewInv)
       => Typed
  BY <1>2, <1>3, <1>4, <1>5, <1>6, <1>7, <1>8, <1>10, WebTypes, PollTypes, BrowserTypes
<1> HIDE DEF Typed
<1> QED BY <1>1, <1>9, <1>11, JdHolds, JdTypesHold, MonthsHold, PromptHolds, OutboxHolds,
           StatsHold, CrawlHolds, WebHolds, TabHolds, PollHolds, PageHolds, PageTypesHold,
           OverviewHolds, PTL

=============================================================================
