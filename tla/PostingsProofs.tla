--------------------------- MODULE PostingsProofs ---------------------------
(***************************************************************************)
(* Theorems about what becomes of job postings, for any number of postings *)
(* and executions: the statistics of the source they come from, their rows *)
(* on the way through dedup, clean and import, the snapshots that the      *)
(* evolution of a skill is told by, and what a crawl reports.              *)
(***************************************************************************)
EXTENDS MCRecords, Sequences, FiniteSetTheorems, TLAPS

-----------------------------------------------------------------------------
(* The statistics of a source are bounded by the postings that exist.      *)
(* What makes it inductive: counts and copies age, but postings are never  *)
(* deleted, so the bound that held when they were taken holds ever after.  *)


Bounded(r) ==
    /\ r.total <= Stats!All(postings) + byHand
    /\ r.valid <= extracted + byHand

CountBounded(p) ==
    /\ Stats!All(p) <= Stats!All(postings)
    /\ p.extracted <= extracted

StatsInv ==
    /\ Stats!TypeOK
    /\ Bounded(source)
    /\ CountBounded(postings)
    /\ \A w \in Requests : Bounded(loadedRow[w]) /\ CountBounded(counted[w])

\* The new bounds of a step are no smaller.
Grows ==
    /\ Stats!All(postings) <= Stats!All(postings)'
    /\ byHand <= byHand' /\ extracted <= extracted'
    /\ postings' \in Stats!Postings /\ byHand' \in Nat /\ extracted' \in Nat

-----------------------------------------------------------------------------
LEMMA NewRecords == Stats!NewRow \in Stats!Row /\ Stats!NoPostings \in Stats!Postings
  BY DEF Stats!NewRow, Stats!Row, Stats!Switch, Stats!NoPostings, Stats!Postings

LEMMA AllIsNat == ASSUME NEW p \in Stats!Postings PROVE Stats!All(p) \in Nat
  BY DEF Stats!All, Stats!Postings

\* A committed column is the one of the new row or the one of the old.
LEMMA MergedRow ==
    ASSUME Stats!TypeOK, NEW w \in Requests, NEW made \in Stats!Row
    PROVE  /\ Stats!Merged(w, made) \in Stats!Row
           /\ Stats!Merged(w, made).total \in {made.total, source.total}
           /\ Stats!Merged(w, made).valid \in {made.valid, source.valid}
  BY DEF Stats!TypeOK, Stats!Merged, Stats!Row, Stats!Columns

\* The rows that sessions write.
LEMMA Written ==
    ASSUME NEW r \in Stats!Row
    PROVE  /\ \A p \in Stats!Postings :
                /\ Stats!Refreshed(r, p) \in Stats!Row
                /\ Stats!Refreshed(r, p).total \in {0, r.total, Stats!All(p)}
                /\ Stats!Refreshed(r, p).valid \in {0, r.valid, p.extracted}
           /\ \A n \in Nat :
                /\ Stats!Added(r, n) \in Stats!Row
                /\ Stats!Added(r, n).total = r.total + n
                /\ Stats!Added(r, n).valid = r.valid + n
           /\ \A made \in {Stats!Paused(r), Stats!Resumed(r), Stats!Deleted(r)} :
                made \in Stats!Row /\ made.total = r.total /\ made.valid = r.valid
<1>1. ASSUME NEW n \in Nat
      PROVE  /\ Stats!Added(r, n) \in Stats!Row
             /\ Stats!Added(r, n).total = r.total + n
             /\ Stats!Added(r, n).valid = r.valid + n
  <2>1. r.total + n \in Nat /\ r.valid + n \in Nat
    BY DEF Stats!Row
  <2>2. Stats!Added(r, n) = [r EXCEPT !.total = r.total + n, !.valid = r.valid + n]
    BY DEF Stats!Added, Stats!Row
  <2>3. QED
    BY <2>1, <2>2 DEF Stats!Row
<1>2. ASSUME NEW made \in {Stats!Paused(r), Stats!Resumed(r), Stats!Deleted(r)}
      PROVE  made \in Stats!Row /\ made.total = r.total /\ made.valid = r.valid
  <2>1. r.config \in Stats!Switch
    BY DEF Stats!Row
  <2>2. Stats!Paused(r) \in Stats!Row /\ Stats!Paused(r).total = r.total /\ Stats!Paused(r).valid = r.valid
    <3> DEFINE c == [r.config EXCEPT !.autoPaused = TRUE]
    <3>1. c \in Stats!Switch
      BY <2>1 DEF Stats!Switch
    <3>2. Stats!Paused(r) = [r EXCEPT !.status = "paused", !.config = c]
      BY DEF Stats!Paused, Stats!Row
    <3> HIDE DEF c
    <3>3. QED
      BY <3>1, <3>2 DEF Stats!Row
  <2>3. Stats!Resumed(r) \in Stats!Row /\ Stats!Resumed(r).total = r.total /\ Stats!Resumed(r).valid = r.valid
    <3> DEFINE c == [r.config EXCEPT !.autoPaused = FALSE]
    <3>1. c \in Stats!Switch
      BY <2>1 DEF Stats!Switch
    <3>2. Stats!Resumed(r) = [r EXCEPT !.status = "active", !.config = c]
      BY DEF Stats!Resumed, Stats!Row
    <3> HIDE DEF c
    <3>3. QED
      BY <3>1, <3>2 DEF Stats!Row
  <2>4. Stats!Deleted(r) \in Stats!Row /\ Stats!Deleted(r).total = r.total /\ Stats!Deleted(r).valid = r.valid
    <3> DEFINE c == [r.config EXCEPT !.disabled = TRUE]
    <3>1. c \in Stats!Switch
      BY <2>1 DEF Stats!Switch
    <3>2. Stats!Deleted(r) = [r EXCEPT !.status = "inactive", !.config = c]
      BY DEF Stats!Deleted, Stats!Row
    <3> HIDE DEF c
    <3>3. QED
      BY <3>1, <3>2 DEF Stats!Row
  <2>5. QED
    BY <2>2, <2>3, <2>4
<1>3. ASSUME NEW p \in Stats!Postings
      PROVE  /\ Stats!Refreshed(r, p) \in Stats!Row
             /\ Stats!Refreshed(r, p).total \in {0, r.total, Stats!All(p)}
             /\ Stats!Refreshed(r, p).valid \in {0, r.valid, p.extracted}
  <2>1. Stats!All(p) \in Nat /\ p.extracted \in Nat /\ p.duplicate \in Nat
    BY AllIsNat DEF Stats!Postings
  <2>2. CASE Stats!All(p) = 0
    <3>1. Stats!Refreshed(r, p) \in {r, [r EXCEPT !.total = 0, !.valid = 0]}
      BY <2>2 DEF Stats!Refreshed
    <3>2. /\ [r EXCEPT !.total = 0, !.valid = 0] \in Stats!Row
          /\ [r EXCEPT !.total = 0, !.valid = 0].total = 0
          /\ [r EXCEPT !.total = 0, !.valid = 0].valid = 0
      BY DEF Stats!Row
    <3>3. QED
      BY <3>1, <3>2
  <2>3. CASE Stats!All(p) # 0
    <3> DEFINE rates == [good |-> p.extracted, twice |-> p.duplicate]
    <3>1. rates \in [good : Nat, twice : Nat]
      BY <2>1
    <3>2. Stats!Refreshed(r, p) =
            [r EXCEPT !.total = Stats!All(p), !.valid = p.extracted, !.rates = rates]
      BY <2>3 DEF Stats!Refreshed
    <3> HIDE DEF rates
    <3>3. QED
      BY <2>1, <3>1, <3>2 DEF Stats!Row
  <2>4. QED  BY <2>2, <2>3
<1>4. QED  BY <1>1, <1>2, <1>3

\* Bounds that have grown still bound what they bounded.
LEMMA StillBounded ==
    ASSUME StatsInv, Grows
    PROVE  /\ \A r \in Stats!Row : Bounded(r) =>
                 /\ r.total <= Stats!All(postings)' + byHand'
                 /\ r.valid <= extracted' + byHand'
           /\ \A p \in Stats!Postings : CountBounded(p) =>
                 /\ Stats!All(p) <= Stats!All(postings)'
                 /\ p.extracted <= extracted'
<1>1. Stats!All(postings) \in Nat /\ Stats!All(postings') \in Nat /\ byHand \in Nat /\ extracted \in Nat
  BY AllIsNat DEF StatsInv, Stats!TypeOK, Grows
<1>2. \A p \in Stats!Postings : Stats!All(p) \in Nat /\ p.extracted \in Nat
  BY AllIsNat DEF Stats!Postings
<1>3. \A r \in Stats!Row : r.total \in Nat /\ r.valid \in Nat
  BY DEF Stats!Row
<1>4. Stats!All(postings)' = Stats!All(postings')
  BY DEF Stats!All
<1>5. QED
  BY <1>1, <1>2, <1>3, <1>4 DEF Grows, Bounded, CountBounded

\* A step that only lets the bounds grow, ends a session or loads a row keeps
\* the invariant, if the row it leaves is bounded.
LEMMA Keeps ==
    ASSUME StatsInv, Grows,
           source' \in Stats!Row, Bounded(source)', CountBounded(postings)',
           task' \in [Requests -> Stats!Tasks \cup {"none", "counted"}], jobs' \in Nat,
           loadedRow' \in [Requests -> Stats!Row], counted' \in [Requests -> Stats!Postings],
           \A w \in Requests : loadedRow'[w] \in {loadedRow[w], source, Stats!NewRow},
           \A w \in Requests : counted'[w] \in {counted[w], postings, Stats!NoPostings}
    PROVE  StatsInv'
<1>1. Stats!TypeOK'
  BY DEF Grows, Stats!TypeOK
<1>2. ASSUME NEW w \in Requests
      PROVE  Bounded(loadedRow[w])' /\ CountBounded(counted[w])'
  <2>1. Bounded(source) /\ Bounded(loadedRow[w]) /\ CountBounded(postings) /\ CountBounded(counted[w])
    BY DEF StatsInv
  <2>2. Bounded(Stats!NewRow) /\ CountBounded(Stats!NoPostings)
    BY AllIsNat DEF Bounded, CountBounded, Stats!NewRow, Stats!NoPostings, Stats!All, StatsInv, Stats!TypeOK, Stats!Postings
  <2>3. loadedRow'[w] \in Stats!Row /\ counted'[w] \in Stats!Postings
    OBVIOUS
  <2>4. Bounded(loadedRow'[w]) /\ CountBounded(counted'[w])
    BY <2>1, <2>2
  <2>5. QED
    BY <2>3, <2>4, StillBounded DEF Bounded, CountBounded, Stats!All
<1>3. QED
  BY <1>1, <1>2 DEF StatsInv

\* A session that ends with a commit of a made row that is bounded by then.
LEMMA Commits ==
    ASSUME StatsInv, Grows, NEW w \in Requests, NEW made \in Stats!Row,
           source' = Stats!Merged(w, made),
           made.total <= Stats!All(postings)' + byHand', made.valid <= extracted' + byHand',
           CountBounded(postings)', Stats!End(w), jobs' = jobs
    PROVE  StatsInv'
<1>1. source' \in Stats!Row /\ source'.total \in {made.total, source.total}
                   /\ source'.valid \in {made.valid, source.valid}
  BY MergedRow DEF StatsInv
<1>2. source \in Stats!Row /\ Bounded(source)
  BY DEF StatsInv, Stats!TypeOK
<1>3. source.total <= Stats!All(postings)' + byHand' /\ source.valid <= extracted' + byHand'
  BY <1>2, StillBounded
<1>4. Bounded(source)'
  BY <1>1, <1>3 DEF Bounded
<1>5. QED
  BY <1>1, <1>4, Keeps, NewRecords DEF StatsInv, Stats!TypeOK, Stats!End, Stats!Goto

\* A posting that changes its status.
LEMMA Moved ==
    ASSUME NEW p \in Stats!Postings, NEW q
    PROVE  /\ p.raw > 0 /\ q = [p EXCEPT !.raw = @ - 1, !.duplicate = @ + 1] =>
                q \in Stats!Postings /\ Stats!All(q) = Stats!All(p) /\ q.extracted = p.extracted
           /\ p.raw > 0 /\ q = [p EXCEPT !.raw = @ - 1, !.extracted = @ + 1] =>
                q \in Stats!Postings /\ Stats!All(q) = Stats!All(p) /\ q.extracted = p.extracted + 1
           /\ p.extracted > 0 /\ q = [p EXCEPT !.extracted = @ - 1, !.raw = @ + 1] =>
                q \in Stats!Postings /\ Stats!All(q) = Stats!All(p) /\ q.extracted = p.extracted - 1
<1>1. p.raw \in Nat /\ p.duplicate \in Nat /\ p.extracted \in Nat
  BY DEF Stats!Postings
<1>2. ASSUME p.raw > 0, q = [p EXCEPT !.raw = @ - 1, !.duplicate = @ + 1]
      PROVE  q \in Stats!Postings /\ Stats!All(q) = Stats!All(p) /\ q.extracted = p.extracted
  <2>1. q = [raw |-> p.raw - 1, duplicate |-> p.duplicate + 1, extracted |-> p.extracted]
    BY <1>2 DEF Stats!Postings
  <2>2. QED
    BY <2>1, <1>1, <1>2 DEF Stats!Postings, Stats!All
<1>3. ASSUME p.raw > 0, q = [p EXCEPT !.raw = @ - 1, !.extracted = @ + 1]
      PROVE  q \in Stats!Postings /\ Stats!All(q) = Stats!All(p) /\ q.extracted = p.extracted + 1
  <2>1. q = [raw |-> p.raw - 1, duplicate |-> p.duplicate, extracted |-> p.extracted + 1]
    BY <1>3 DEF Stats!Postings
  <2>2. QED
    BY <2>1, <1>1, <1>3 DEF Stats!Postings, Stats!All
<1>4. ASSUME p.extracted > 0, q = [p EXCEPT !.extracted = @ - 1, !.raw = @ + 1]
      PROVE  q \in Stats!Postings /\ Stats!All(q) = Stats!All(p) /\ q.extracted = p.extracted - 1
  <2>1. q = [raw |-> p.raw + 1, duplicate |-> p.duplicate, extracted |-> p.extracted - 1]
    BY <1>4 DEF Stats!Postings
  <2>2. QED
    BY <2>1, <1>1, <1>4 DEF Stats!Postings, Stats!All
<1>5. QED
  BY <1>2, <1>3, <1>4

LEMMA StatsStarts == Stats!Init => StatsInv
  BY NewRecords
  DEF Stats!Init, StatsInv, Stats!TypeOK, Bounded, CountBounded, Stats!All, Stats!NewRow,
      Stats!NoPostings, Stats!Postings, Stats!Tasks

LEMMA StatsStay == StatsInv /\ [Stats!Next]_Stats!vars => StatsInv'
<1> SUFFICES ASSUME StatsInv, [Stats!Next]_Stats!vars PROVE StatsInv'
  OBVIOUS
<1>1. CASE Stats!Crawled
  <2>1. Grows /\ CountBounded(postings)'
    BY <1>1 DEF Stats!Crawled, Grows, StatsInv, Stats!TypeOK, Stats!All, Stats!Postings, CountBounded
  <2>2. Bounded(source)'
    BY <1>1, <2>1, StillBounded DEF Stats!Crawled, StatsInv, Stats!TypeOK, Bounded
  <2>3. QED
    BY <1>1, <2>1, <2>2, Keeps DEF Stats!Crawled, StatsInv, Stats!TypeOK
<1>2. CASE Stats!Worked
  <2> postings \in Stats!Postings /\ byHand \in Nat /\ extracted \in Nat /\ UNCHANGED byHand
    BY <1>2 DEF Stats!Worked, StatsInv, Stats!TypeOK
  <2> CountBounded(postings)
    BY DEF StatsInv
  <2>a. ASSUME postings.raw > 0, UNCHANGED extracted,
               postings' = [postings EXCEPT !.raw = @ - 1, !.duplicate = @ + 1]
        PROVE  Grows /\ CountBounded(postings)'
    <3>1. /\ postings' \in Stats!Postings /\ Stats!All(postings') = Stats!All(postings)
          /\ postings'.extracted = postings.extracted
      BY <2>a, Moved
    <3>2. postings.extracted \in Nat /\ Stats!All(postings) \in Nat
      BY AllIsNat DEF Stats!Postings
    <3>3. Stats!All(postings)' = Stats!All(postings')
      BY DEF Stats!All
    <3>4. QED
      BY <2>a, <3>1, <3>2, <3>3 DEF Grows, CountBounded
  <2>b. ASSUME postings.raw > 0, extracted' = extracted + 1,
               postings' = [postings EXCEPT !.raw = @ - 1, !.extracted = @ + 1]
        PROVE  Grows /\ CountBounded(postings)'
    <3>1. /\ postings' \in Stats!Postings /\ Stats!All(postings') = Stats!All(postings)
          /\ postings'.extracted = postings.extracted + 1
      BY <2>b, Moved
    <3>2. postings.extracted \in Nat /\ Stats!All(postings) \in Nat
      BY AllIsNat DEF Stats!Postings
    <3>3. Stats!All(postings)' = Stats!All(postings')
      BY DEF Stats!All
    <3>4. QED
      BY <2>b, <3>1, <3>2, <3>3 DEF Grows, CountBounded
  <2>c. ASSUME postings.extracted > 0, UNCHANGED extracted,
               postings' = [postings EXCEPT !.extracted = @ - 1, !.raw = @ + 1]
        PROVE  Grows /\ CountBounded(postings)'
    <3>1. /\ postings' \in Stats!Postings /\ Stats!All(postings') = Stats!All(postings)
          /\ postings'.extracted = postings.extracted - 1
      BY <2>c, Moved
    <3>2. postings.extracted \in Nat /\ Stats!All(postings) \in Nat
      BY AllIsNat DEF Stats!Postings
    <3>3. Stats!All(postings)' = Stats!All(postings')
      BY DEF Stats!All
    <3>4. QED
      BY <2>c, <3>1, <3>2, <3>3 DEF Grows, CountBounded
  <2>1. Grows /\ CountBounded(postings)'
    BY <1>2, <2>a, <2>b, <2>c DEF Stats!Worked
  <2>2. Bounded(source)'
    BY <1>2, <2>1, StillBounded DEF Stats!Worked, StatsInv, Stats!TypeOK, Bounded
  <2>3. QED
    BY <1>2, <2>1, <2>2, Keeps DEF Stats!Worked, StatsInv, Stats!TypeOK
<1>3. ASSUME NEW w \in Requests, Stats!Session(w) PROVE StatsInv'
  <2> loadedRow[w] \in Stats!Row /\ counted[w] \in Stats!Postings /\ source \in Stats!Row
    BY DEF StatsInv, Stats!TypeOK
  <2> Bounded(loadedRow[w]) /\ Bounded(source) /\ CountBounded(counted[w]) /\ CountBounded(postings)
    BY DEF StatsInv
  <2>1. ASSUME UNCHANGED <<postings, byHand, extracted>>
        PROVE  /\ Grows /\ CountBounded(postings)'
               /\ Stats!All(postings)' = Stats!All(postings)
    BY <2>1, AllIsNat DEF Grows, StatsInv, Stats!TypeOK, CountBounded, Stats!All, Stats!Postings
  <2>2. CASE Stats!Begin(w) \/ Stats!SyncCounts(w) \/ Stats!SyncLoads(w)
    <3>1. UNCHANGED <<source, postings, byHand, extracted>> /\ Bounded(source)'
      BY <2>2 DEF Stats!Begin, Stats!SyncCounts, Stats!SyncLoads, Bounded
    <3>2. QED
      BY <2>1, <2>2, <3>1, Keeps
      DEF Stats!Begin, Stats!SyncCounts, Stats!SyncLoads, Stats!Load, Stats!Goto, StatsInv, Stats!TypeOK, Stats!Tasks
  <2>3. CASE Stats!Sync(w)
    <3> DEFINE made == Stats!Refreshed(loadedRow[w], counted[w])
    <3>1. /\ made \in Stats!Row
          /\ made.total \in {0, loadedRow[w].total, Stats!All(counted[w])}
          /\ made.valid \in {0, loadedRow[w].valid, counted[w].extracted}
      BY Written
    <3>2. Stats!All(postings) \in Nat /\ byHand \in Nat /\ extracted \in Nat
          /\ Stats!All(counted[w]) \in Nat /\ counted[w].extracted \in Nat
      BY AllIsNat DEF StatsInv, Stats!TypeOK, Stats!Postings
    <3>3. made.total <= Stats!All(postings) + byHand /\ made.valid <= extracted + byHand
      BY <3>1, <3>2 DEF Bounded, CountBounded
    <3> HIDE DEF made
    <3>4. source' = Stats!Merged(w, made) /\ Stats!End(w) /\ UNCHANGED <<postings, byHand, extracted, jobs>>
      BY <2>3 DEF Stats!Sync, Stats!Flush, made
    <3>5. QED
      BY <2>1, <3>1, <3>3, <3>4, Commits
  <2>4. CASE Stats!CompleteRun(w) \/ Stats!Resume(w) \/ Stats!Delete(w)
    <3>1. UNCHANGED <<postings, byHand, extracted, jobs>> /\ Stats!End(w)
      BY <2>4 DEF Stats!CompleteRun, Stats!Resume, Stats!Delete
    <3>2. CASE source' = source
      <4>1. Bounded(source)'
        BY <3>1, <3>2, <2>1 DEF Bounded
      <4>2. QED
        BY <2>1, <3>1, <3>2, <4>1, Keeps, NewRecords DEF StatsInv, Stats!TypeOK, Stats!End, Stats!Goto
    <3>3. ASSUME NEW made \in {Stats!Paused(loadedRow[w]), Stats!Resumed(loadedRow[w]), Stats!Deleted(loadedRow[w])},
                 source' = Stats!Merged(w, made)
          PROVE  StatsInv'
      <4>1. made \in Stats!Row /\ made.total = loadedRow[w].total /\ made.valid = loadedRow[w].valid
        BY <3>3, Written
      <4>2. made.total <= Stats!All(postings)' + byHand' /\ made.valid <= extracted' + byHand'
        BY <4>1, <3>1, <2>1 DEF Bounded
      <4>3. QED
        BY <2>1, <3>1, <3>3, <4>1, <4>2, Commits
    <3>4. QED
      BY <2>4, <3>2, <3>3 DEF Stats!CompleteRun, Stats!Resume, Stats!Delete, Stats!Flush
  <2>5. CASE Stats!Put(w)
    <3>1. UNCHANGED <<postings, byHand, extracted, jobs>> /\ Stats!End(w)
      BY <2>5 DEF Stats!Put
    <3>2. source' \in Stats!Row /\ source'.total = source.total /\ source'.valid = source.valid
      <4>1. \A s \in {"active", "paused", "inactive"} :
              LET r == [source EXCEPT !.status = s]
              IN  r \in Stats!Row /\ r.total = source.total /\ r.valid = source.valid
        BY DEF Stats!Row
      <4>2. \A c \in Stats!Switch :
              LET r == [source EXCEPT !.config = c]
              IN  r \in Stats!Row /\ r.total = source.total /\ r.valid = source.valid
        BY DEF Stats!Row
      <4>3. \A off \in BOOLEAN : [disabled |-> off, autoPaused |-> FALSE] \in Stats!Switch
        BY DEF Stats!Switch
      <4>4. QED
        BY <2>5, <4>1, <4>2, <4>3 DEF Stats!Put
    <3>3. Bounded(source)'
      BY <3>1, <3>2, <2>1 DEF Bounded
    <3>4. QED
      BY <2>1, <3>1, <3>2, <3>3, Keeps, NewRecords DEF StatsInv, Stats!TypeOK, Stats!End, Stats!Goto
  <2>6. CASE Stats!ManualImport(w)
    <3>1. PICK n \in Nat : /\ byHand' = byHand + n
                           /\ source' = Stats!Merged(w, Stats!Added(loadedRow[w], n))
      <4>1. PICK inserted \in 0..(MaxByHand - byHand), failed \in BOOLEAN :
              /\ byHand' = byHand + (IF failed THEN 0 ELSE inserted)
              /\ Stats!Flush(w, Stats!Added(loadedRow[w], Stats!Counted(inserted, failed)))
        BY <2>6 DEF Stats!ManualImport
      <4>2. Stats!Counted(inserted, failed) \in Nat
            /\ byHand' = byHand + Stats!Counted(inserted, failed)
        BY <4>1 DEF Stats!Counted
      <4>3. QED
        BY <4>1, <4>2 DEF Stats!Flush
    <3>2. UNCHANGED <<postings, extracted, jobs>> /\ Stats!End(w)
      BY <2>6 DEF Stats!ManualImport
    <3>3. /\ Stats!Added(loadedRow[w], n) \in Stats!Row
          /\ Stats!Added(loadedRow[w], n).total = loadedRow[w].total + n
          /\ Stats!Added(loadedRow[w], n).valid = loadedRow[w].valid + n
      BY <3>1, Written
    <3>4. Stats!All(postings) \in Nat /\ byHand \in Nat /\ extracted \in Nat
          /\ loadedRow[w].total \in Nat /\ loadedRow[w].valid \in Nat
      BY AllIsNat DEF StatsInv, Stats!TypeOK, Stats!Row
    <3>5. Grows /\ CountBounded(postings)' /\ Stats!All(postings)' = Stats!All(postings)
      BY <3>1, <3>2, <3>4 DEF Grows, StatsInv, Stats!TypeOK, CountBounded, Stats!All
    <3>6. /\ Stats!Added(loadedRow[w], n).total <= Stats!All(postings)' + byHand'
          /\ Stats!Added(loadedRow[w], n).valid <= extracted' + byHand'
      BY <3>1, <3>2, <3>3, <3>4, <3>5 DEF Bounded
    <3>7. QED
      BY <3>1, <3>2, <3>3, <3>5, <3>6, Commits
  <2>7. CASE Stats!SessionFails(w)
    <3>1. UNCHANGED <<source, postings, byHand, extracted, jobs>> /\ Stats!End(w)
      BY <2>7 DEF Stats!SessionFails
    <3>2. Bounded(source)'
      BY <3>1, <2>1 DEF Bounded
    <3>3. QED
      BY <2>1, <3>1, <3>2, Keeps, NewRecords DEF StatsInv, Stats!TypeOK, Stats!End, Stats!Goto
  <2>8. QED
    BY <1>3, <2>2, <2>3, <2>4, <2>5, <2>6, <2>7 DEF Stats!Session
<1>4. CASE UNCHANGED Stats!vars
  BY <1>4 DEF Stats!vars, StatsInv, Stats!TypeOK, Bounded, CountBounded, Stats!All
<1>5. QED
  BY <1>1, <1>2, <1>3, <1>4 DEF Stats!Next

-----------------------------------------------------------------------------
LEMMA StatsInSum ==
    (SumInit => Stats!Init) /\ ([SumNext]_allVars => [Stats!Next]_Stats!vars)
  BY DEF SumInit, SumNext, allVars, sourceVars, Stats!vars

LEMMA StatsHold == SumSpec => []StatsInv
<1>1. SumInit => StatsInv
  BY StatsInSum, StatsStarts
<1>2. StatsInv /\ [SumNext]_allVars => StatsInv'
  BY StatsInSum, StatsStay
<1> QED BY <1>1, <1>2, PTL DEF SumSpec

\* The statistics of a source never promise postings that are not stored, for any
\* number of sessions that count, import and write back what they loaded
\* (sync_source_quality, manual_import_jds).
THEOREM StatsAreBounded == SumSpec => []StatsBounded
<1>1. StatsInv => StatsBounded
  BY DEF StatsInv, Bounded, StatsBounded, Stats!StatsBounded
<1> QED BY <1>1, StatsHold, PTL

-----------------------------------------------------------------------------
\* What says that the source was paused automatically was written after a posting
\* had been extracted or imported.
Earned(r) == r.config.autoPaused => extracted + byHand > 0
PauseInv == Earned(source) /\ \A w \in Requests : Earned(loadedRow[w])

\* A committed column is the one of the new row only if it differs from the copy.
LEMMA MergedSwitch ==
    ASSUME Stats!TypeOK, NEW w \in Requests, NEW made \in Stats!Row,
           source' = Stats!Merged(w, made)
    PROVE  /\ source'.config \in {source.config, made.config}
           /\ source'.config # source.config => made.config # loadedRow[w].config
           /\ source'.status \in {source.status, made.status}
           /\ source'.status # source.status => made.status # loadedRow[w].status
  BY DEF Stats!TypeOK, Stats!Merged, Stats!Row, Stats!Columns

\* The switch and the status that sessions write.
LEMMA WrittenSwitch ==
    ASSUME NEW r \in Stats!Row
    PROVE  /\ \A p \in Stats!Postings :
                Stats!Refreshed(r, p).config = r.config
                /\ Stats!Refreshed(r, p).status = r.status
           /\ \A n \in Nat :
                Stats!Added(r, n).config = r.config /\ Stats!Added(r, n).status = r.status
           /\ Stats!Paused(r).status = "paused"
           /\ Stats!Resumed(r).config.autoPaused = FALSE
           /\ Stats!Deleted(r).config.autoPaused = r.config.autoPaused
           /\ Stats!Deleted(r).status = "inactive"
<1>1. ASSUME NEW p \in Stats!Postings
      PROVE  Stats!Refreshed(r, p).config = r.config
             /\ Stats!Refreshed(r, p).status = r.status
  BY DEF Stats!Refreshed, Stats!Row
<1>2. ASSUME NEW n \in Nat
      PROVE  Stats!Added(r, n).config = r.config /\ Stats!Added(r, n).status = r.status
  BY DEF Stats!Added, Stats!Row
<1>3. Stats!Paused(r).status = "paused"
  BY DEF Stats!Paused, Stats!Row
<1>4. Stats!Resumed(r).config = [r.config EXCEPT !.autoPaused = FALSE]
  BY DEF Stats!Resumed, Stats!Row
<1>5. Stats!Deleted(r).config = [r.config EXCEPT !.disabled = TRUE]
      /\ Stats!Deleted(r).status = "inactive"
  BY DEF Stats!Deleted, Stats!Row
<1>6. r.config \in [disabled : BOOLEAN, autoPaused : BOOLEAN]
  BY DEF Stats!Row, Stats!Switch
<1> QED BY <1>1, <1>2, <1>3, <1>4, <1>5, <1>6

LEMMA Sums ==
    ASSUME NEW a \in Nat, NEW b \in Nat, NEW c \in Nat, NEW d \in Nat
    PROVE  /\ a + b <= c + d => (a + b > 0 => c + d > 0)
           /\ a = c /\ b <= d => a + b <= c + d
  OBVIOUS

\* What the two halves of the property say of one step.
Step ==
    /\ extracted + byHand <= extracted' + byHand'
    /\ extracted' \in Nat /\ byHand' \in Nat
    /\ source'.config.autoPaused =>
            source.config.autoPaused \/ extracted + byHand > 0
    /\ source.status # "active" /\ source'.status = "active" =>
            \E w \in Requests : task[w] \in {"resume", "put"} /\ task'[w] = "none"
    /\ \A w \in Requests : loadedRow'[w] \in {loadedRow[w], source, Stats!NewRow}

LEMMA PauseSteps == StatsInv /\ PauseInv /\ [Stats!Next]_Stats!vars => Step
<1> SUFFICES ASSUME StatsInv, PauseInv, [Stats!Next]_Stats!vars PROVE Step
  OBVIOUS
<1>t. /\ Stats!TypeOK /\ extracted \in Nat /\ byHand \in Nat
      /\ task \in [Requests -> Stats!Tasks \cup {"none", "counted"}]
      /\ loadedRow \in [Requests -> Stats!Row] /\ counted \in [Requests -> Stats!Postings]
  BY DEF StatsInv, Stats!TypeOK
<1>1. CASE Stats!Crawled \/ Stats!Worked \/ UNCHANGED Stats!vars
  BY <1>1, <1>t DEF Stats!Crawled, Stats!Worked, Stats!vars, Step
<1>2. ASSUME NEW w \in Requests, Stats!Begin(w) \/ Stats!SyncCounts(w) \/ Stats!SyncLoads(w)
      PROVE  Step
  BY <1>2, <1>t DEF Stats!Begin, Stats!SyncCounts, Stats!SyncLoads, Stats!Load, Step
<1>3. ASSUME NEW w \in Requests, Stats!End(w)
      PROVE  /\ \A v \in Requests : loadedRow'[v] \in {loadedRow[v], source, Stats!NewRow}
             /\ task'[w] = "none"
  BY <1>3, <1>t DEF Stats!End, Stats!Goto
<1>4. ASSUME NEW w \in Requests, Stats!End(w), extracted' = extracted,
             byHand' \in Nat, byHand <= byHand',
             NEW made \in Stats!Row, source' = Stats!Merged(w, made),
             made.config # loadedRow[w].config => Earned(made),
             made.status = "active" =>
                made.status = loadedRow[w].status \/ task[w] \in {"resume", "put"}
      PROVE  Step
  <2>0. extracted' = extracted /\ byHand' \in Nat /\ byHand <= byHand'
    BY <1>4
  <2>1. extracted + byHand <= extracted' + byHand' /\ extracted' \in Nat
    BY <2>0, <1>t, Sums
  <2>2. source'.config.autoPaused => source.config.autoPaused \/ extracted + byHand > 0
    BY <1>4, <1>t, MergedSwitch DEF Earned
  <2>3. source.status # "active" /\ source'.status = "active" =>
            \E v \in Requests : task[v] \in {"resume", "put"} /\ task'[v] = "none"
    BY <1>3, <1>4, <1>t, MergedSwitch
  <2> QED BY <1>3, <1>4, <2>1, <2>2, <2>3 DEF Step
<1>5. ASSUME NEW w \in Requests, Stats!End(w), extracted' = extracted, byHand' = byHand,
             source' = source
      PROVE  Step
  BY <1>3, <1>5, <1>t DEF Step
<1>6. ASSUME NEW w \in Requests, Stats!Sync(w) PROVE Step
  <2> DEFINE made == Stats!Refreshed(loadedRow[w], counted[w])
  <2>0. loadedRow[w] \in Stats!Row /\ counted[w] \in Stats!Postings
    BY <1>t
  <2>1. made \in Stats!Row /\ made.config = loadedRow[w].config
        /\ made.status = loadedRow[w].status
    BY <2>0, Written, WrittenSwitch
  <2>2. source' = Stats!Merged(w, made)
    BY <1>6 DEF Stats!Sync, Stats!Flush
  <2> HIDE DEF made
  <2>3. Stats!End(w) /\ extracted' = extracted /\ byHand' = byHand
    BY <1>6 DEF Stats!Sync
  <2> QED BY <1>4, <1>t, <2>1, <2>2, <2>3
<1>7. ASSUME NEW w \in Requests, Stats!CompleteRun(w) PROVE Step
  <2>1. Stats!End(w) /\ extracted' = extracted /\ byHand' = byHand
    BY <1>7 DEF Stats!CompleteRun
  <2>2. CASE Stats!HasHistory(loadedRow[w]) /\ Stats!Flush(w, Stats!Paused(loadedRow[w]))
    <3> DEFINE made == Stats!Paused(loadedRow[w])
    <3>1. made \in Stats!Row /\ made.status = "paused"
      BY <1>t, Written, WrittenSwitch
    <3>2. source' = Stats!Merged(w, made)
      BY <2>2 DEF Stats!Flush
    <3> HIDE DEF made
    <3>3. loadedRow[w].valid <= extracted + byHand /\ loadedRow[w].valid > 0
          /\ loadedRow[w].valid \in Nat
      BY <2>2, <1>t DEF StatsInv, Bounded, Stats!HasHistory, Stats!Row
    <3>4. Earned(made)
      BY <1>t, <3>3 DEF Earned
    <3> QED BY <1>4, <1>t, <2>1, <3>1, <3>2, <3>4
  <2> QED BY <1>5, <1>7, <2>1, <2>2 DEF Stats!CompleteRun
<1>8. ASSUME NEW w \in Requests, Stats!Resume(w) PROVE Step
  <2>1. Stats!End(w) /\ extracted' = extracted /\ byHand' = byHand /\ task[w] = "resume"
    BY <1>8 DEF Stats!Resume
  <2>2. CASE Stats!Flush(w, Stats!Resumed(loadedRow[w]))
    <3> DEFINE made == Stats!Resumed(loadedRow[w])
    <3>1. made \in Stats!Row /\ made.config.autoPaused = FALSE
      BY <1>t, Written, WrittenSwitch
    <3>2. source' = Stats!Merged(w, made)
      BY <2>2 DEF Stats!Flush
    <3> HIDE DEF made
    <3> QED BY <1>4, <1>t, <2>1, <3>1, <3>2 DEF Earned
  <2> QED BY <1>5, <1>8, <2>1, <2>2 DEF Stats!Resume
<1>9. ASSUME NEW w \in Requests, Stats!Delete(w) PROVE Step
  <2>1. Stats!End(w) /\ extracted' = extracted /\ byHand' = byHand
    BY <1>9 DEF Stats!Delete
  <2>2. CASE Stats!Flush(w, Stats!Deleted(loadedRow[w]))
    <3> DEFINE made == Stats!Deleted(loadedRow[w])
    <3>1. made \in Stats!Row /\ made.config.autoPaused = loadedRow[w].config.autoPaused
          /\ made.status = "inactive"
      BY <1>t, Written, WrittenSwitch
    <3>2. source' = Stats!Merged(w, made)
      BY <2>2 DEF Stats!Flush
    <3> HIDE DEF made
    <3>3. Earned(made)
      BY <3>1 DEF PauseInv, Earned
    <3> QED BY <1>4, <1>t, <2>1, <3>1, <3>2, <3>3
  <2> QED BY <1>5, <1>9, <2>1, <2>2 DEF Stats!Delete
<1>10. ASSUME NEW w \in Requests, Stats!Put(w) PROVE Step
  <2>1. Stats!End(w) /\ extracted' = extracted /\ byHand' = byHand /\ task[w] = "put"
    BY <1>10 DEF Stats!Put
  <2>2. source'.config.autoPaused => source.config.autoPaused
    <3>1. source \in Stats!Row
      BY <1>t DEF Stats!TypeOK
    <3> QED BY <1>10, <3>1 DEF Stats!Put, Stats!Row
  <2> QED BY <1>3, <1>t, <2>1, <2>2 DEF Step
<1>11. ASSUME NEW w \in Requests, Stats!ManualImport(w) PROVE Step
  <2>1. PICK n \in Nat : byHand' = byHand + n
                         /\ source' = Stats!Merged(w, Stats!Added(loadedRow[w], n))
    <3>1. PICK inserted \in 0..(MaxByHand - byHand), failed \in BOOLEAN :
            /\ byHand' = byHand + (IF failed THEN 0 ELSE inserted)
            /\ Stats!Flush(w, Stats!Added(loadedRow[w], Stats!Counted(inserted, failed)))
      BY <1>11 DEF Stats!ManualImport
    <3>2. Stats!Counted(inserted, failed) \in Nat
          /\ byHand' = byHand + Stats!Counted(inserted, failed)
      BY <3>1 DEF Stats!Counted
    <3> QED BY <3>1, <3>2 DEF Stats!Flush
  <2> DEFINE made == Stats!Added(loadedRow[w], n)
  <2>2. made \in Stats!Row /\ made.config = loadedRow[w].config
        /\ made.status = loadedRow[w].status
    BY <1>t, Written, WrittenSwitch
  <2>3. source' = Stats!Merged(w, made)
    BY <2>1
  <2> HIDE DEF made
  <2>4. Stats!End(w) /\ extracted' = extracted
    BY <1>11 DEF Stats!ManualImport
  <2> QED BY <1>4, <1>t, <2>1, <2>2, <2>3, <2>4
<1>12. ASSUME NEW w \in Requests, Stats!SessionFails(w) PROVE Step
  BY <1>5, <1>12 DEF Stats!SessionFails
<1> QED BY <1>1, <1>2, <1>6, <1>7, <1>8, <1>9, <1>10, <1>11, <1>12
        DEF Stats!Next, Stats!Session

LEMMA PauseStays == StatsInv /\ PauseInv /\ [Stats!Next]_Stats!vars => PauseInv'
<1> SUFFICES ASSUME StatsInv, PauseInv, Step PROVE PauseInv'
  BY PauseSteps
<1>1. extracted + byHand > 0 => extracted' + byHand' > 0
  <2>1. /\ extracted \in Nat /\ byHand \in Nat /\ extracted' \in Nat /\ byHand' \in Nat
        /\ extracted + byHand <= extracted' + byHand'
    BY DEF StatsInv, Stats!TypeOK, Step
  <2> QED BY <2>1, Sums
<1>2. Earned(source)'
  BY <1>1 DEF Step, PauseInv, Earned
<1>3. ASSUME NEW w \in Requests PROVE Earned(loadedRow[w])'
  <2>1. loadedRow'[w] \in {loadedRow[w], source, Stats!NewRow}
    BY DEF Step
  <2>2. ~Stats!NewRow.config.autoPaused
    BY DEF Stats!NewRow
  <2>3. loadedRow'[w].config.autoPaused => extracted + byHand > 0
    BY <2>1, <2>2 DEF PauseInv, Earned
  <2> QED BY <1>1, <2>3 DEF Earned
<1> QED BY <1>2, <1>3 DEF PauseInv

\* A source is paused automatically only after a posting of it has been extracted or
\* imported, and only an administrator activates it again, for any number of sessions
\* that write back rows they loaded long ago (complete_run, sync_source_quality).
THEOREM PausesAreEarned == SumSpec => PausedAndRevivedRightly
<1>1. SumInit => StatsInv /\ PauseInv
  <2>1. Stats!Init => PauseInv
    BY DEF Stats!Init, PauseInv, Earned, Stats!NewRow
  <2> QED BY <2>1, StatsInSum, StatsStarts
<1>2. StatsInv /\ PauseInv /\ [SumNext]_allVars => (StatsInv /\ PauseInv)'
  BY StatsInSum, StatsStay, PauseStays
<1>3. StatsInv /\ PauseInv /\ [SumNext]_allVars =>
        [/\ ~source.config.autoPaused /\ source'.config.autoPaused => extracted + byHand > 0
         /\ source.status # "active" /\ source'.status = "active" =>
                \E w \in Requests : task[w] \in {"resume", "put"} /\ task'[w] = "none"]_Stats!vars
  BY StatsInSum, PauseSteps DEF Step
<1> QED BY <1>1, <1>2, <1>3, PTL DEF SumSpec, PausedAndRevivedRightly,
                                     Stats!PausedAndRevivedRightly

-----------------------------------------------------------------------------
(* The rows of jd_raw on their way through dedup, clean and import.        *)

JdTyped ==
    /\ status \in [Jds -> {"absent", "raw", "duplicate", "cleaned", "extracted"}]
    /\ extractions \in [Jds -> Nat]
    /\ stage \in [Executions -> {"idle", "dedup", "fuzzy", "clean", "import"}]
    /\ loaded \in [Executions -> SUBSET Jds]
    /\ marks \in [Executions -> SUBSET Jds]
    /\ looking \in [Executions -> SUBSET Jds]
    /\ DOMAIN accepted = Executions

\* What execution x may hold at its stage.
Shape(x) ==
    /\ stage[x] = "idle" =>
          loaded[x] = {} /\ marks[x] = {} /\ accepted[x] = {} /\ looking[x] = {}
    /\ stage[x] = "dedup" =>
          /\ accepted[x] \subseteq kept \cap Jds
          /\ loaded[x] \cap (marks[x] \cup accepted[x] \cup looking[x]) = {}
          /\ marks[x] \cap (accepted[x] \cup looking[x]) = {}
    /\ stage[x] = "fuzzy" => loaded[x] = {} /\ looking[x] = {} /\ accepted[x] \subseteq Jds
    /\ stage[x] = "clean" => marks[x] = {} /\ accepted[x] = {} /\ looking[x] = {}
    /\ stage[x] = "import" => looking[x] = {} /\ loaded[x] \cap marks[x] = {}

OneHolder ==
    \A x, y \in Executions :
        \A j \in Flow!Holds(x) \cap Flow!Holds(y) : j \in shared \/ x = y

\* Nobody changes the status of a row that one execution holds.
HeldStatus ==
    \A x \in Executions : \A j \in Flow!Holds(x) \ shared :
        status[j] = IF stage[x] = "import" THEN "cleaned" ELSE "raw"

JdHeld == JdTyped /\ (\A x \in Executions : Shape(x)) /\ OneHolder /\ HeldStatus

\* A row is extracted once: it is marked, or the execution that did it has it.
Single(j) ==
    j \notin unmarked \cup shared =>
        /\ extractions[j] \in {0, 1}
        /\ extractions[j] = 1 =>
              \/ status[j] = "extracted"
              \/ \E x \in Executions : stage[x] = "import" /\ j \in marks[x]

Condemned(j) == \E x \in Executions : stage[x] \in {"dedup", "fuzzy"} /\ j \in marks[x]

\* The key of its content condemns row j when it is looked at.
AtRisk(j) ==
    \E x \in Executions : stage[x] = "dedup" /\ j \in loaded[x] /\ TextOf[j] \in seen

Firm(j) ==
    \/ j \in rechecked \cup shared
    \/ /\ j \in kept /\ status[j] \in {"raw", "cleaned", "extracted"}
       /\ ~Condemned(j) /\ ~AtRisk(j)

Touched(likeness) ==
    \/ seen \cap likeness # {}
    \/ \E j \in Jds : TextOf[j] \in likeness /\ (status[j] = "duplicate" \/ Condemned(j))

Outlived(likeness) == Touched(likeness) => \E j \in Jds : TextOf[j] \in likeness /\ Firm(j)

JdInv ==
    /\ JdHeld
    /\ \A j \in Jds : Single(j)
    /\ \A likeness \in Flow!Likenesses : Outlived(likeness)

LEMMA JdStarts == Flow!Init => JdInv
<1> SUFFICES ASSUME Flow!Init PROVE JdInv
  OBVIOUS
<1>1. JdTyped /\ \A x \in Executions : Shape(x)
  BY DEF Flow!Init, JdTyped, Shape
<1>2. \A x \in Executions : Flow!Holds(x) = {}
  BY DEF Flow!Init, Flow!Holds
<1>3. \A j \in Jds : Single(j)
  BY DEF Flow!Init, Single
<1>4. \A likeness : ~Touched(likeness)
  BY DEF Flow!Init, Touched, Condemned
<1> QED BY <1>1, <1>2, <1>3, <1>4 DEF JdInv, JdHeld, OneHolder, HeldStatus, Outlived

-----------------------------------------------------------------------------
\* The others keep what they have.
Aside(x) ==
    \A y \in Executions \ {x} :
        /\ stage'[y] = stage[y] /\ loaded'[y] = loaded[y] /\ marks'[y] = marks[y]
        /\ accepted'[y] = accepted[y] /\ looking'[y] = looking[y]

LEMMA AsideHolds ==
    ASSUME NEW x \in Executions, Aside(x), NEW y \in Executions, y # x
    PROVE  Flow!Holds(y)' = Flow!Holds(y) /\ (kept \subseteq kept' /\ Shape(y) => Shape(y)')
  BY DEF Aside, Flow!Holds, Shape

\* Execution x goes on with what it has.
LEMMA GoesOn ==
    ASSUME JdHeld, NEW x \in Executions, Aside(x), JdTyped', Shape(x)',
           Flow!Holds(x)' \subseteq Flow!Holds(x), kept \subseteq kept',
           status' = status, shared' = shared,
           stage'[x] = "import" <=> stage[x] = "import"
    PROVE  JdHeld'
<1>1. \A y \in Executions : Flow!Holds(y)' \subseteq Flow!Holds(y)
  BY AsideHolds
<1>2. \A y \in Executions : stage'[y] = "import" <=> stage[y] = "import"
  BY DEF Aside
<1>3. \A y \in Executions : Shape(y)'
  BY AsideHolds DEF JdHeld
<1>4. OneHolder'
  BY <1>1 DEF JdHeld, OneHolder
<1>5. HeldStatus'
  BY <1>1, <1>2 DEF JdHeld, HeldStatus
<1> QED BY <1>3, <1>4, <1>5 DEF JdHeld

\* Execution x ends and gives the rows `set' that it held another status.
LEMMA EndsHeld ==
    ASSUME JdHeld, NEW x \in Executions, Flow!Finish(x), NEW set \in SUBSET Flow!Holds(x),
           NEW s \in {"duplicate", "cleaned", "extracted"},
           status' = [j \in Jds |-> IF j \in set THEN s ELSE status[j]],
           UNCHANGED <<extractions, shared, kept>>
    PROVE  JdHeld' /\ Aside(x) /\ Shape(x)' /\ marks'[x] = {} /\ loaded'[x] = {} /\ stage'[x] = "idle"
<1>1. Aside(x) /\ marks'[x] = {} /\ loaded'[x] = {} /\ stage'[x] = "idle"
      /\ accepted'[x] = {} /\ looking'[x] = {}
  BY DEF Flow!Finish, Aside, JdHeld, JdTyped
<1>2. JdTyped'
  BY DEF Flow!Finish, JdHeld, JdTyped
<1>3. Shape(x)' /\ Flow!Holds(x)' = {}
  BY <1>1 DEF Shape, Flow!Holds
<1>4. \A y \in Executions : Shape(y)'
  BY <1>1, <1>3, AsideHolds DEF JdHeld
<1>5. OneHolder'
  BY <1>1, <1>3, AsideHolds DEF JdHeld, OneHolder
<1>6. ASSUME NEW y \in Executions, NEW j \in Flow!Holds(y)' \ shared'
      PROVE  status'[j] = IF stage'[y] = "import" THEN "cleaned" ELSE "raw"
  <2>1. y # x
    BY <1>3, <1>6
  <2>2. j \in Flow!Holds(y) /\ stage'[y] = stage[y]
    BY <1>1, <2>1, <1>6, AsideHolds DEF Aside
  <2>3. j \notin Flow!Holds(x)
    BY <1>6, <2>1, <2>2 DEF JdHeld, OneHolder
  <2>4. status[j] = IF stage[y] = "import" THEN "cleaned" ELSE "raw"
    BY <1>6, <2>2 DEF JdHeld, HeldStatus
  <2>5. j \in Jds
    BY <2>2 DEF Flow!Holds, JdHeld, JdTyped, Shape
  <2> QED BY <2>2, <2>3, <2>4, <2>5
<1>7. HeldStatus'
  BY <1>6 DEF HeldStatus
<1> QED BY <1>1, <1>2, <1>3, <1>4, <1>5, <1>7 DEF JdHeld

\* Execution x begins with rows of one status.
LEMMA LoadHeld ==
    ASSUME JdHeld, NEW x \in Executions, NEW what \in {"dedup", "clean", "import"},
           NEW batch \in SUBSET Jds, Flow!Load(x, what, batch),
           \A j \in batch : status[j] = IF what = "import" THEN "cleaned" ELSE "raw"
    PROVE  JdHeld' /\ Aside(x) /\ marks'[x] = {}
<1>1. /\ stage[x] = "idle" /\ stage' = [stage EXCEPT ![x] = what]
      /\ loaded' = [loaded EXCEPT ![x] = batch]
      /\ shared' = shared \cup {j \in batch : \E y \in Executions \ {x} : j \in Flow!Holds(y)}
      /\ UNCHANGED <<status, seen, extractions, marks, accepted, looking, kept, unmarked>>
  BY DEF Flow!Load
<1>2. loaded[x] = {} /\ marks[x] = {} /\ accepted[x] = {} /\ looking[x] = {}
  BY <1>1 DEF JdHeld, Shape
<1>3. JdTyped'
  BY <1>1 DEF JdHeld, JdTyped
<1>4. Aside(x) /\ stage'[x] = what /\ loaded'[x] = batch
  BY <1>1 DEF Aside, JdHeld, JdTyped
<1>5. Shape(x)' /\ Flow!Holds(x)' = batch
  BY <1>1, <1>2, <1>4 DEF Shape, Flow!Holds
<1>6. \A y \in Executions : Shape(y)'
  BY <1>1, <1>4, <1>5, AsideHolds DEF JdHeld
<1>7. ASSUME NEW y \in Executions, NEW z \in Executions, y # z,
             NEW j \in Flow!Holds(y)' \cap Flow!Holds(z)'
      PROVE  j \in shared'
  <2>1. CASE y # x /\ z # x
    BY <1>1, <1>4, <1>7, <2>1, AsideHolds DEF JdHeld, OneHolder
  <2>2. CASE y = x
    BY <1>1, <1>4, <1>5, <1>7, <2>2, AsideHolds
  <2>3. CASE z = x
    BY <1>1, <1>4, <1>5, <1>7, <2>3, AsideHolds
  <2> QED BY <2>1, <2>2, <2>3
<1>8. OneHolder'
  BY <1>7 DEF OneHolder
<1>9. ASSUME NEW y \in Executions, NEW j \in Flow!Holds(y)' \ shared'
      PROVE  status'[j] = IF stage'[y] = "import" THEN "cleaned" ELSE "raw"
  <2>1. CASE y = x
    BY <1>1, <1>4, <1>5, <1>9, <2>1
  <2>2. CASE y # x
    <3>1. j \in Flow!Holds(y) \ shared /\ stage'[y] = stage[y]
      BY <1>1, <1>4, <1>9, <2>2, AsideHolds DEF Aside
    <3> QED BY <1>1, <3>1 DEF JdHeld, HeldStatus
  <2> QED BY <2>1, <2>2
<1>10. HeldStatus'
  BY <1>9 DEF HeldStatus
<1> QED BY <1>1, <1>2, <1>3, <1>4, <1>6, <1>8, <1>10 DEF JdHeld

-----------------------------------------------------------------------------
\* A step that condemns nobody and sets no key.
LEMMA Spares ==
    ASSUME JdInv,
           kept \subseteq kept', rechecked \subseteq rechecked', shared \subseteq shared',
           seen' \subseteq seen,
           \A j \in Jds : /\ Condemned(j)' => Condemned(j)
                          /\ AtRisk(j)' => AtRisk(j) \/ j \in rechecked' \/ j \notin kept'
                          /\ status'[j] = "duplicate" => status[j] = "duplicate" \/ Condemned(j)
                          /\ status[j] \in {"raw", "cleaned", "extracted"} =>
                                \/ status'[j] \in {"raw", "cleaned", "extracted"}
                                \/ Condemned(j)
    PROVE  \A likeness \in Flow!Likenesses : Outlived(likeness)'
<1> SUFFICES ASSUME NEW likeness \in Flow!Likenesses, Touched(likeness)'
             PROVE  \E j \in Jds : TextOf[j] \in likeness /\ Firm(j)'
  BY DEF Outlived
<1>1. Touched(likeness)
  BY DEF Touched
<1>2. PICK j \in Jds : TextOf[j] \in likeness /\ Firm(j)
  BY <1>1 DEF JdInv, Outlived
<1>3. Firm(j)'
  BY <1>2 DEF Firm
<1> QED BY <1>2, <1>3

\* An extraction under way stays where it is.
LEMMA StaysSingle ==
    ASSUME JdInv, unmarked \subseteq unmarked', shared \subseteq shared',
           NEW j \in Jds,
           j \notin unmarked' \cup shared' => extractions'[j] = extractions[j],
           j \notin unmarked' \cup shared' /\ status[j] = "extracted" => status'[j] = "extracted",
           \A x \in Executions :
              stage[x] = "import" /\ j \in marks[x] =>
                 \/ j \in unmarked' \cup shared' \/ status'[j] = "extracted"
                 \/ stage'[x] = "import" /\ j \in marks'[x]
    PROVE  Single(j)'
  BY DEF JdInv, Single

LEMMA HoldsAtStage ==
    ASSUME NEW x \in Executions
    PROVE  /\ stage[x] \in {"dedup", "fuzzy"} =>
                 Flow!Holds(x) = loaded[x] \cup marks[x] \cup accepted[x] \cup looking[x]
           /\ stage[x] \notin {"dedup", "fuzzy"} =>
                 Flow!Holds(x) = loaded[x] \cup marks[x] \cup looking[x]
  BY DEF Flow!Holds

LEMMA JdCrawlOne ==
    ASSUME JdInv, NEW j \in Jds, Flow!CrawlOne(j) PROVE JdInv'
<1>1. /\ status[j] = "absent" /\ status' = [status EXCEPT ![j] = "raw"]
      /\ UNCHANGED <<seen, extractions, stage, loaded, marks, accepted, looking,
                     executions, kept, rechecked, shared, unmarked>>
  BY DEF Flow!CrawlOne
<1>2. JdTyped' /\ \A x \in Executions : Shape(x)'
  BY <1>1 DEF JdInv, JdHeld, JdTyped, Shape
<1>3. \A x \in Executions : Flow!Holds(x)' = Flow!Holds(x)
  BY <1>1 DEF Flow!Holds
<1>4. OneHolder'
  BY <1>1, <1>3 DEF JdInv, JdHeld, OneHolder
<1>5. HeldStatus'
  BY <1>1, <1>3 DEF JdInv, JdHeld, HeldStatus, JdTyped
<1>6. ASSUME NEW k \in Jds PROVE Single(k)'
  BY <1>1, StaysSingle DEF JdInv, JdHeld, JdTyped
<1>7. \A k \in Jds : Condemned(k)' = Condemned(k) /\ AtRisk(k)' = AtRisk(k)
  BY <1>1 DEF Condemned, AtRisk
<1>8. \A k \in Jds : k # j => status'[k] = status[k]
  BY <1>1 DEF JdInv, JdHeld, JdTyped
<1>9. status'[j] = "raw"
  BY <1>1 DEF JdInv, JdHeld, JdTyped
<1>10. \A likeness \in Flow!Likenesses : Outlived(likeness)'
  BY <1>1, <1>7, <1>8, <1>9, Spares
<1> QED BY <1>2, <1>4, <1>5, <1>6, <1>10 DEF JdInv, JdHeld

LEMMA JdSeenExpires ==
    ASSUME JdInv, NEW t \in Texts, Flow!SeenExpires(t) PROVE JdInv'
<1>1. /\ seen' = seen \ {t}
      /\ UNCHANGED <<status, extractions, stage, loaded, marks, accepted, looking,
                     executions, kept, rechecked, shared, unmarked>>
  BY DEF Flow!SeenExpires
<1>2. JdHeld'
  BY <1>1 DEF JdInv, JdHeld, JdTyped, Shape, OneHolder, HeldStatus, Flow!Holds
<1>3. \A j \in Jds : Single(j)'
  BY <1>1 DEF JdInv, Single
<1>4. \A j \in Jds : Condemned(j)' = Condemned(j) /\ (AtRisk(j)' => AtRisk(j))
  BY <1>1 DEF Condemned, AtRisk
<1>5. \A likeness \in Flow!Likenesses : Outlived(likeness)'
  BY <1>1, <1>4, Spares
<1> QED BY <1>2, <1>3, <1>5 DEF JdInv

LEMMA JdLoads ==
    ASSUME JdInv, NEW x \in Executions,
           Flow!DedupLoad(x) \/ Flow!CleanLoad(x) \/ Flow!ImportLoad(x)
    PROVE  JdInv'
<1>1. PICK what \in {"dedup", "clean", "import"}, batch \in SUBSET Jds :
            /\ Flow!Load(x, what, batch)
            /\ \A j \in batch : status[j] = IF what = "import" THEN "cleaned" ELSE "raw"
            /\ rechecked \subseteq rechecked'
            /\ what = "dedup" => \A j \in batch \cap kept : TextOf[j] \in seen => j \in rechecked'
  <2>1. CASE Flow!DedupLoad(x)
    BY <2>1 DEF Flow!DedupLoad, Flow!InStatus
  <2>2. CASE Flow!CleanLoad(x)
    BY <2>2 DEF Flow!CleanLoad, Flow!ToClean, Flow!InStatus
  <2>3. CASE Flow!ImportLoad(x)
    BY <2>3 DEF Flow!ImportLoad, Flow!InStatus
  <2> QED BY <2>1, <2>2, <2>3
<1>2. JdHeld' /\ Aside(x) /\ marks'[x] = {}
  BY <1>1, LoadHeld DEF JdInv
<1>3. /\ UNCHANGED <<status, seen, extractions, kept, unmarked>>
      /\ shared \subseteq shared' /\ stage'[x] = what /\ loaded'[x] = batch /\ stage[x] = "idle"
  BY <1>1 DEF Flow!Load, JdInv, JdHeld, JdTyped
<1>4. ASSUME NEW j \in Jds PROVE Single(j)'
  <2>1. \A y \in Executions : stage[y] = "import" => stage'[y] = "import" /\ marks'[y] = marks[y]
    BY <1>2, <1>3 DEF Aside
  <2> QED BY <1>3, <2>1, StaysSingle
<1>5. ASSUME NEW j \in Jds PROVE Condemned(j)' => Condemned(j)
  BY <1>2 DEF Condemned, Aside
<1>6. ASSUME NEW j \in Jds, AtRisk(j)' PROVE AtRisk(j) \/ j \in rechecked' \/ j \notin kept'
  <2>1. PICK y \in Executions : stage'[y] = "dedup" /\ j \in loaded'[y] /\ TextOf[j] \in seen
    BY <1>3, <1>6 DEF AtRisk
  <2>2. CASE y = x
    BY <1>1, <1>3, <2>1, <2>2
  <2>3. CASE y # x
    BY <1>2, <2>1, <2>3 DEF Aside, AtRisk
  <2> QED BY <2>2, <2>3
<1>7. \A likeness \in Flow!Likenesses : Outlived(likeness)'
  BY <1>1, <1>3, <1>5, <1>6, Spares
<1> QED BY <1>2, <1>4, <1>7 DEF JdInv

LEMMA ImportMarks ==
    ASSUME JdInv, NEW x \in Executions, Flow!ImportMark(x) PROVE JdInv'
<1>1. /\ stage[x] = "import" /\ Flow!Finish(x)
      /\ status' = [j \in Jds |-> IF j \in marks[x] THEN "extracted" ELSE status[j]]
      /\ UNCHANGED <<seen, extractions, executions, kept, rechecked, shared, unmarked>>
  BY DEF Flow!ImportMark
<1>2. marks[x] \subseteq Flow!Holds(x)
  BY DEF Flow!Holds
<1>3. /\ JdHeld' /\ Aside(x) /\ marks'[x] = {} /\ loaded'[x] = {} /\ stage'[x] = "idle"
  BY <1>1, <1>2, EndsHeld DEF JdInv
<1>4. ASSUME NEW j \in Jds PROVE Single(j)'
  <2>1. status[j] = "extracted" => status'[j] = "extracted"
    BY <1>1
  <2>2. \A y \in Executions : stage[y] = "import" /\ j \in marks[y] =>
            status'[j] = "extracted" \/ (stage'[y] = "import" /\ j \in marks'[y])
    BY <1>1, <1>3 DEF Aside
  <2> QED BY <1>1, <2>1, <2>2, StaysSingle
<1>5. \A j \in Jds : (Condemned(j)' => Condemned(j)) /\ (AtRisk(j)' => AtRisk(j))
  BY <1>1, <1>3 DEF Condemned, AtRisk, Aside
<1>6. \A likeness \in Flow!Likenesses : Outlived(likeness)'
  BY <1>1, <1>5, Spares
<1> QED BY <1>3, <1>4, <1>6 DEF JdInv

LEMMA CleanCommits ==
    ASSUME JdInv, NEW x \in Executions, Flow!CleanCommit(x) PROVE JdInv'
<1>1. /\ stage[x] = "clean" /\ Flow!Finish(x)
      /\ status' = [j \in Jds |-> IF j \in loaded[x] THEN "cleaned" ELSE status[j]]
      /\ UNCHANGED <<seen, extractions, executions, kept, rechecked, shared, unmarked>>
  BY DEF Flow!CleanCommit
<1>2. loaded[x] \subseteq Flow!Holds(x)
  BY DEF Flow!Holds
<1>3. /\ JdHeld' /\ Aside(x) /\ marks'[x] = {} /\ loaded'[x] = {} /\ stage'[x] = "idle"
  BY <1>1, <1>2, EndsHeld DEF JdInv
<1>4. ASSUME NEW j \in Jds PROVE Single(j)'
  <2>1. j \notin shared /\ status[j] = "extracted" => status'[j] = "extracted"
    BY <1>1, <1>2 DEF JdInv, JdHeld, HeldStatus
  <2>2. \A y \in Executions : stage[y] = "import" /\ j \in marks[y] =>
            stage'[y] = "import" /\ j \in marks'[y]
    BY <1>1, <1>3 DEF Aside
  <2> QED BY <1>1, <2>1, <2>2, StaysSingle
<1>5. \A j \in Jds : (Condemned(j)' => Condemned(j)) /\ (AtRisk(j)' => AtRisk(j))
  BY <1>1, <1>3 DEF Condemned, AtRisk, Aside
<1>6. \A likeness \in Flow!Likenesses : Outlived(likeness)'
  BY <1>1, <1>5, Spares
<1> QED BY <1>3, <1>4, <1>6 DEF JdInv

LEMMA DedupCommits ==
    ASSUME JdInv, NEW x \in Executions, Flow!DedupCommit(x) PROVE JdInv'
<1>1. /\ stage[x] = "fuzzy" /\ Flow!Finish(x)
      /\ status' = [j \in Jds |-> IF j \in marks[x] THEN "duplicate" ELSE status[j]]
      /\ UNCHANGED <<seen, extractions, executions, kept, rechecked, shared, unmarked>>
  BY DEF Flow!DedupCommit
<1>2. marks[x] \subseteq Flow!Holds(x)
  BY DEF Flow!Holds
<1>3. /\ JdHeld' /\ Aside(x) /\ marks'[x] = {} /\ loaded'[x] = {} /\ stage'[x] = "idle"
  BY <1>1, <1>2, EndsHeld DEF JdInv
<1>4. ASSUME NEW j \in Jds PROVE Single(j)'
  <2>1. j \notin shared /\ status[j] = "extracted" => status'[j] = "extracted"
    BY <1>1, <1>2 DEF JdInv, JdHeld, HeldStatus
  <2>2. \A y \in Executions : stage[y] = "import" /\ j \in marks[y] =>
            stage'[y] = "import" /\ j \in marks'[y]
    BY <1>1, <1>3 DEF Aside
  <2> QED BY <1>1, <2>1, <2>2, StaysSingle
<1>5. \A j \in Jds : (Condemned(j)' => Condemned(j)) /\ (AtRisk(j)' => AtRisk(j))
  BY <1>1, <1>3 DEF Condemned, AtRisk, Aside
<1>6. \A j \in marks[x] : Condemned(j)
  BY <1>1 DEF Condemned
<1>7. \A likeness \in Flow!Likenesses : Outlived(likeness)'
  BY <1>1, <1>5, <1>6, Spares
<1> QED BY <1>3, <1>4, <1>7 DEF JdInv

LEMMA ExecutionLost ==
    ASSUME JdInv, NEW x \in Executions, Flow!Lost(x) PROVE JdInv'
<1>1. /\ Flow!Finish(x)
      /\ unmarked' = IF stage[x] = "import" THEN unmarked \cup marks[x] ELSE unmarked
      /\ UNCHANGED <<status, seen, extractions, executions, kept, rechecked, shared>>
  BY DEF Flow!Lost
<1>2. status' = [j \in Jds |-> IF j \in {} THEN "cleaned" ELSE status[j]]
  BY <1>1 DEF JdInv, JdHeld, JdTyped
<1>3. /\ JdHeld' /\ Aside(x) /\ marks'[x] = {} /\ loaded'[x] = {} /\ stage'[x] = "idle"
  <2>1. {} \in SUBSET Flow!Holds(x)
    OBVIOUS
  <2>2. UNCHANGED <<extractions, shared, kept>>
    BY <1>1
  <2>3. JdHeld
    BY DEF JdInv
  <2> QED BY <1>1, <1>2, <2>1, <2>2, <2>3, EndsHeld
<1>4. ASSUME NEW j \in Jds PROVE Single(j)'
  <2>1. \A y \in Executions : stage[y] = "import" /\ j \in marks[y] =>
            j \in unmarked' \/ (stage'[y] = "import" /\ j \in marks'[y])
    BY <1>1, <1>3 DEF Aside
  <2> QED BY <1>1, <2>1, StaysSingle
<1>5. \A j \in Jds : (Condemned(j)' => Condemned(j)) /\ (AtRisk(j)' => AtRisk(j))
  BY <1>1, <1>3 DEF Condemned, AtRisk, Aside
<1>6. \A likeness \in Flow!Likenesses : Outlived(likeness)'
  BY <1>1, <1>5, Spares
<1> QED BY <1>3, <1>4, <1>6 DEF JdInv

-----------------------------------------------------------------------------
\* A step of import x on row j.
LEMMA ImportMoves ==
    ASSUME JdInv, NEW x \in Executions, NEW j \in Jds, stage[x] = "import", j \in loaded[x],
           loaded' = [loaded EXCEPT ![x] = @ \ {j}],
           marks' = [marks EXCEPT ![x] = @ \cup {j}] \/ marks' = marks,
           DOMAIN accepted' = Executions,
           \A y \in Executions \ {x} : accepted'[y] = accepted[y],
           extractions' \in [Jds -> Nat],
           UNCHANGED <<status, seen, stage, looking, kept, rechecked, shared>>,
           unmarked \subseteq unmarked',
           \A k \in Jds \ {j} : extractions'[k] = extractions[k],
           j \notin unmarked' => extractions'[j] = extractions[j]
                                  \/ (extractions'[j] = extractions[j] + 1 /\ j \in marks'[x])
    PROVE  JdInv'
<1>0. /\ loaded \in [Executions -> SUBSET Jds] /\ marks \in [Executions -> SUBSET Jds]
      /\ Shape(x) /\ stage'[x] = "import"
  BY DEF JdInv, JdHeld, JdTyped
<1>1. JdTyped'
  BY <1>0 DEF JdInv, JdHeld, JdTyped
<1>2. Aside(x) /\ loaded'[x] = loaded[x] \ {j}
      /\ marks'[x] \in {marks[x], marks[x] \cup {j}}
  BY <1>0 DEF Aside
<1>3. Shape(x)'
  BY <1>0, <1>2 DEF Shape
<1>4. Flow!Holds(x)' \subseteq Flow!Holds(x)
  BY <1>0, <1>2 DEF Flow!Holds
<1>5. JdHeld'
  BY <1>0, <1>1, <1>2, <1>3, <1>4, GoesOn DEF JdInv
<1>6. \A y \in Executions : marks[y] \subseteq marks'[y]
  BY <1>0
<1>7. ASSUME NEW k \in Jds, k # j PROVE Single(k)'
  BY <1>6, <1>7, StaysSingle
<1>8. Single(j)'
  <2>1. CASE j \in unmarked' \cup shared
    BY <2>1 DEF Single
  <2>2. CASE j \notin unmarked' \cup shared
    <3>1. j \in Flow!Holds(x)
      BY DEF Flow!Holds
    <3>2. status[j] = "cleaned"
      BY <2>2, <3>1 DEF JdInv, JdHeld, HeldStatus
    <3>3. \A y \in Executions : stage[y] = "import" /\ j \in marks[y] => y = x
      BY <2>2, <3>1 DEF JdInv, JdHeld, OneHolder, Flow!Holds
    <3>4. j \notin marks[x]
      BY <1>0 DEF Shape
    <3>5. Single(j) /\ j \notin unmarked
      BY <2>2 DEF JdInv
    <3>6. extractions[j] = 0
      BY <2>2, <3>2, <3>3, <3>4, <3>5 DEF Single
    <3>7. extractions'[j] = 0 \/ (extractions'[j] = 1 /\ j \in marks'[x])
      BY <2>2, <3>6
    <3> QED BY <1>0, <3>7 DEF Single
  <2> QED BY <2>1, <2>2
<1>9. ASSUME NEW k \in Jds PROVE (Condemned(k)' => Condemned(k)) /\ (AtRisk(k)' => AtRisk(k))
  <2>1. \A y \in Executions : stage'[y] = stage[y]
                              /\ (y # x => marks'[y] = marks[y] /\ loaded'[y] = loaded[y])
    BY <1>2 DEF Aside
  <2> QED BY <2>1 DEF Condemned, AtRisk
<1>10. \A likeness \in Flow!Likenesses : Outlived(likeness)'
  BY <1>9, Spares
<1> QED BY <1>5, <1>7, <1>8, <1>10 DEF JdInv

LEMMA ImportSteps ==
    ASSUME JdInv, NEW x \in Executions, NEW j \in Jds,
           Flow!ImportReuse(x, j) \/ Flow!ImportExtract(x, j) \/ Flow!ImportFails(x, j)
    PROVE  JdInv'
<1>0. extractions \in [Jds -> Nat] /\ DOMAIN accepted = Executions
      /\ marks \in [Executions -> SUBSET Jds]
  BY DEF JdInv, JdHeld, JdTyped
<1>1. CASE Flow!ImportReuse(x, j)
  BY <1>0, <1>1, ImportMoves DEF Flow!ImportReuse
<1>2. CASE Flow!ImportExtract(x, j)
  <2>1. extractions' = [extractions EXCEPT ![j] = @ + 1]
    BY <1>2 DEF Flow!ImportExtract
  <2>2. /\ extractions' \in [Jds -> Nat] /\ extractions'[j] = extractions[j] + 1
        /\ \A k \in Jds \ {j} : extractions'[k] = extractions[k]
    BY <1>0, <2>1
  <2>3. j \in marks'[x]
    BY <1>0, <1>2 DEF Flow!ImportExtract
  <2>4. DOMAIN accepted' = Executions /\ \A y \in Executions \ {x} : accepted'[y] = accepted[y]
    BY <1>0, <1>2 DEF Flow!ImportExtract
  <2> QED BY <1>2, <2>2, <2>3, <2>4, ImportMoves DEF Flow!ImportExtract
<1>3. CASE Flow!ImportFails(x, j)
  <2>1. PICK persisted \in BOOLEAN :
          /\ extractions' = IF persisted THEN [extractions EXCEPT ![j] = @ + 1] ELSE extractions
          /\ unmarked' = IF persisted THEN unmarked \cup {j} ELSE unmarked
    BY <1>3 DEF Flow!ImportFails
  <2>2. /\ extractions' \in [Jds -> Nat] /\ unmarked \subseteq unmarked'
        /\ \A k \in Jds \ {j} : extractions'[k] = extractions[k]
        /\ j \notin unmarked' => extractions'[j] = extractions[j]
    BY <1>0, <2>1
  <2> QED BY <1>0, <1>3, <2>2, ImportMoves DEF Flow!ImportFails
<1> QED BY <1>1, <1>2, <1>3

-----------------------------------------------------------------------------
\* A step of dedup x leaves what is being extracted.
LEMMA DedupKeepsSingle ==
    ASSUME JdInv, NEW x \in Executions, stage[x] \in {"dedup", "fuzzy"}, Aside(x),
           UNCHANGED <<status, extractions, shared, unmarked>>
    PROVE  \A j \in Jds : Single(j)'
<1>1. \A y \in Executions : stage[y] = "import" => stage'[y] = "import" /\ marks'[y] = marks[y]
  BY DEF Aside
<1> QED BY <1>1, StaysSingle

LEMMA DedupLooks ==
    ASSUME JdInv, NEW x \in Executions, NEW j \in Jds, Flow!DedupLook(x, j) PROVE JdInv'
<1>0. /\ loaded \in [Executions -> SUBSET Jds] /\ marks \in [Executions -> SUBSET Jds]
      /\ looking \in [Executions -> SUBSET Jds] /\ Shape(x) /\ JdHeld
  BY DEF JdInv, JdHeld, JdTyped
<1>1. /\ stage[x] = "dedup" /\ looking[x] = {} /\ j \in loaded[x]
      /\ loaded' = [loaded EXCEPT ![x] = @ \ {j}]
      /\ \/ TextOf[j] \in seen /\ marks' = [marks EXCEPT ![x] = @ \cup {j}] /\ looking' = looking
         \/ TextOf[j] \notin seen /\ looking' = [looking EXCEPT ![x] = {j}] /\ marks' = marks
      /\ UNCHANGED <<status, seen, extractions, stage, accepted, executions, kept,
                     rechecked, shared, unmarked>>
  BY DEF Flow!DedupLook
<1>2. JdTyped' /\ Aside(x)
  BY <1>0, <1>1 DEF JdHeld, JdTyped, Aside
<1>3. /\ loaded'[x] = loaded[x] \ {j} /\ accepted'[x] = accepted[x]
      /\ \/ marks'[x] = marks[x] \cup {j} /\ looking'[x] = looking[x]
         \/ marks'[x] = marks[x] /\ looking'[x] = {j}
  BY <1>0, <1>1
<1>4. Shape(x)' /\ Flow!Holds(x)' \subseteq Flow!Holds(x)
  BY <1>0, <1>1, <1>3 DEF Shape, Flow!Holds
<1>5. JdHeld'
  BY <1>0, <1>1, <1>2, <1>4, GoesOn
<1>6. \A k \in Jds : Single(k)'
  BY <1>1, <1>2, DedupKeepsSingle
<1>7. ASSUME NEW k \in Jds, k # j
      PROVE  (Condemned(k)' => Condemned(k)) /\ (AtRisk(k)' => AtRisk(k))
  <2>1. \A y \in Executions : stage'[y] = stage[y] /\ (k \in loaded'[y] => k \in loaded[y])
                              /\ (k \in marks'[y] => k \in marks[y])
    BY <1>0, <1>1, <1>3, <1>7
  <2> QED BY <1>1, <2>1 DEF Condemned, AtRisk
<1>8. TextOf[j] \in seen => AtRisk(j)
  BY <1>1 DEF AtRisk
<1>9. TextOf[j] \notin seen => (Condemned(j)' => Condemned(j)) /\ (AtRisk(j)' => AtRisk(j))
  <2>1. \A y \in Executions : TextOf[j] \notin seen => marks'[y] = marks[y] /\ stage'[y] = stage[y]
    BY <1>1
  <2> QED BY <1>1, <2>1 DEF Condemned, AtRisk
<1>10. ASSUME NEW likeness \in Flow!Likenesses, Touched(likeness)'
       PROVE  \E k \in Jds : TextOf[k] \in likeness /\ Firm(k)'
  <2>1. Touched(likeness)
    BY <1>1, <1>7, <1>9, <1>10 DEF Touched
  <2>2. PICK k \in Jds : TextOf[k] \in likeness /\ Firm(k)
    BY <2>1 DEF JdInv, Outlived
  <2>3. Firm(k)'
    BY <1>1, <1>7, <1>8, <1>9, <2>2 DEF Firm
  <2> QED BY <2>2, <2>3
<1> QED BY <1>5, <1>6, <1>10 DEF JdInv, Outlived

LEMMA DedupAccepts ==
    ASSUME JdInv, NEW x \in Executions, Flow!DedupAccept(x) PROVE JdInv'
<1>0. /\ loaded \in [Executions -> SUBSET Jds] /\ marks \in [Executions -> SUBSET Jds]
      /\ looking \in [Executions -> SUBSET Jds] /\ Shape(x) /\ JdHeld
      /\ DOMAIN accepted = Executions
  BY DEF JdInv, JdHeld, JdTyped
<1>1. /\ stage[x] = "dedup" /\ looking[x] # {}
      /\ seen' = seen \cup {TextOf[j] : j \in looking[x]}
      /\ accepted' = [accepted EXCEPT ![x] = @ \cup looking[x]]
      /\ looking' = [looking EXCEPT ![x] = {}]
      /\ kept' = kept \cup looking[x]
      /\ UNCHANGED <<status, extractions, stage, loaded, marks, executions,
                     rechecked, shared, unmarked>>
  BY DEF Flow!DedupAccept
<1>2. JdTyped' /\ Aside(x)
  BY <1>0, <1>1 DEF JdHeld, JdTyped, Aside
<1>3. accepted'[x] = accepted[x] \cup looking[x] /\ looking'[x] = {}
  BY <1>0, <1>1
<1>4. Shape(x)' /\ Flow!Holds(x)' \subseteq Flow!Holds(x)
  BY <1>0, <1>1, <1>3 DEF Shape, Flow!Holds
<1>5. JdHeld'
  BY <1>0, <1>1, <1>2, <1>4, GoesOn
<1>6. \A k \in Jds : Single(k)'
  BY <1>1, <1>2, DedupKeepsSingle
<1>7. \A k \in Jds : Condemned(k)' = Condemned(k)
  BY <1>1 DEF Condemned
\* The row whose key is set now is firm.
<1>8. ASSUME NEW j \in looking[x] PROVE j \in Jds /\ Firm(j)'
  <2>1. j \in Jds /\ j \in Flow!Holds(x)
    BY <1>0 DEF Flow!Holds
  <2>2. CASE j \in shared
    BY <1>1, <2>1, <2>2 DEF Firm
  <2>3. CASE j \notin shared
    <3>1. status[j] = "raw"
      BY <1>1, <2>1, <2>3 DEF JdInv, JdHeld, HeldStatus
    <3>2. \A y \in Executions : j \in loaded[y] \cup marks[y] => y = x
      BY <2>1, <2>3 DEF JdInv, JdHeld, OneHolder, Flow!Holds
    <3>3. j \notin loaded[x] /\ j \notin marks[x]
      BY <1>0, <1>1 DEF Shape
    <3>4. ~Condemned(j)' /\ ~AtRisk(j)'
      BY <1>1, <3>2, <3>3 DEF Condemned, AtRisk
    <3> QED BY <1>1, <2>1, <3>1, <3>4 DEF Firm
  <2> QED BY <2>1, <2>2, <2>3
<1>9. ASSUME NEW likeness \in Flow!Likenesses, Touched(likeness)'
      PROVE  \E k \in Jds : TextOf[k] \in likeness /\ Firm(k)'
  <2>1. CASE \E j \in looking[x] : TextOf[j] \in likeness
    BY <1>8, <2>1
  <2>2. CASE \A j \in looking[x] : TextOf[j] \notin likeness
    <3>1. Touched(likeness)
      BY <1>1, <1>7, <1>9, <2>2 DEF Touched
    <3>2. PICK k \in Jds : TextOf[k] \in likeness /\ Firm(k)
      BY <3>1 DEF JdInv, Outlived
    <3>3. AtRisk(k)' => AtRisk(k)
      BY <1>1, <2>2, <3>2 DEF AtRisk
    <3> QED BY <1>1, <1>7, <3>2, <3>3 DEF Firm
  <2> QED BY <2>1, <2>2
<1> QED BY <1>5, <1>6, <1>9 DEF JdInv, Outlived

LEMMA DedupKeepsAll ==
    ASSUME JdInv, NEW x \in Executions, Flow!DedupWithoutRedis(x) PROVE JdInv'
<1>0. /\ loaded \in [Executions -> SUBSET Jds] /\ Shape(x) /\ JdHeld
      /\ DOMAIN accepted = Executions
  BY DEF JdInv, JdHeld, JdTyped
<1>1. /\ stage[x] = "dedup" /\ looking[x] = {} /\ marks[x] = {} /\ accepted[x] = {}
      /\ accepted' = [accepted EXCEPT ![x] = loaded[x]]
      /\ loaded' = [loaded EXCEPT ![x] = {}]
      /\ kept' = kept \cup loaded[x]
      /\ UNCHANGED <<status, seen, extractions, stage, marks, looking, executions,
                     rechecked, shared, unmarked>>
  BY DEF Flow!DedupWithoutRedis
<1>2. JdTyped' /\ Aside(x)
  BY <1>0, <1>1 DEF JdHeld, JdTyped, Aside
<1>3. accepted'[x] = loaded[x] /\ loaded'[x] = {}
  BY <1>0, <1>1
<1>4. Shape(x)' /\ Flow!Holds(x)' \subseteq Flow!Holds(x)
  BY <1>0, <1>1, <1>3 DEF Shape, Flow!Holds
<1>5. JdHeld'
  BY <1>0, <1>1, <1>2, <1>4, GoesOn
<1>6. \A k \in Jds : Single(k)'
  BY <1>1, <1>2, DedupKeepsSingle
<1>7. ASSUME NEW k \in Jds PROVE (Condemned(k)' => Condemned(k)) /\ (AtRisk(k)' => AtRisk(k))
  <2>1. \A y \in Executions : k \in loaded'[y] => k \in loaded[y]
    BY <1>0, <1>1
  <2> QED BY <1>1, <2>1 DEF Condemned, AtRisk
<1>8. \A likeness \in Flow!Likenesses : Outlived(likeness)'
  BY <1>1, <1>7, Spares
<1> QED BY <1>5, <1>6, <1>8 DEF JdInv

\* Of the rows that look alike one stays.
LEMMA DedupFuzzes ==
    ASSUME JdInv, NEW x \in Executions, Flow!DedupFuzzy(x) PROVE JdInv'
<1>0. /\ loaded \in [Executions -> SUBSET Jds] /\ marks \in [Executions -> SUBSET Jds]
      /\ stage \in [Executions -> {"idle", "dedup", "fuzzy", "clean", "import"}]
      /\ Shape(x) /\ JdHeld
  BY DEF JdInv, JdHeld, JdTyped
<1>1. /\ stage[x] = "dedup" /\ loaded[x] = {} /\ looking[x] = {}
      /\ stage' = [stage EXCEPT ![x] = "fuzzy"]
      /\ UNCHANGED <<status, seen, extractions, loaded, accepted, looking,
                     executions, kept, rechecked, shared, unmarked>>
  BY DEF Flow!DedupFuzzy
<1>2. PICK dups \in SUBSET accepted[x] :
          /\ \A j \in dups : \E k \in accepted[x] \ dups : TextOf[k] \in Alike[TextOf[j]]
          /\ marks' = [marks EXCEPT ![x] = @ \cup dups]
  BY DEF Flow!DedupFuzzy, Flow!FuzzyDuplicates
<1>3. accepted[x] \subseteq kept \cap Jds /\ accepted[x] \cap marks[x] = {}
  BY <1>0, <1>1 DEF Shape
<1>4. JdTyped' /\ Aside(x)
  BY <1>0, <1>1, <1>2, <1>3 DEF JdHeld, JdTyped, Aside
<1>5. stage'[x] = "fuzzy" /\ marks'[x] = marks[x] \cup dups
  BY <1>0, <1>1, <1>2
<1>6. Shape(x)' /\ Flow!Holds(x)' \subseteq Flow!Holds(x)
  BY <1>0, <1>1, <1>2, <1>3, <1>5 DEF Shape, Flow!Holds
<1>7. JdHeld'
  BY <1>0, <1>1, <1>4, <1>5, <1>6, GoesOn
<1>8. \A k \in Jds : Single(k)'
  BY <1>1, <1>4, DedupKeepsSingle
<1>9. ASSUME NEW k \in Jds
      PROVE  (Condemned(k)' => Condemned(k) \/ k \in dups) /\ (AtRisk(k)' => AtRisk(k))
  <2>1. \A y \in Executions : y # x => stage'[y] = stage[y] /\ marks'[y] = marks[y]
    BY <1>4 DEF Aside
  <2> QED BY <1>1, <1>5, <2>1 DEF Condemned, AtRisk
\* A row the execution keeps is firm.
<1>10. ASSUME NEW m \in accepted[x] \ dups PROVE m \in Jds /\ Firm(m)'
  <2>1. m \in Jds /\ m \in kept /\ m \in Flow!Holds(x)
    BY <1>1, <1>3 DEF Flow!Holds
  <2>2. CASE m \in shared
    BY <1>1, <2>1, <2>2 DEF Firm
  <2>3. CASE m \notin shared
    <3>1. status[m] = "raw"
      BY <1>1, <2>1, <2>3 DEF JdInv, JdHeld, HeldStatus
    <3>2. \A y \in Executions : m \in loaded[y] \cup marks[y] => y = x
      BY <2>1, <2>3 DEF JdInv, JdHeld, OneHolder, Flow!Holds
    <3>3. ~Condemned(m) /\ ~AtRisk(m)
      BY <1>1, <1>3, <3>2 DEF Condemned, AtRisk
    <3>4. ~Condemned(m)' /\ ~AtRisk(m)'
      BY <1>9, <2>1, <3>3
    <3> QED BY <1>1, <2>1, <3>1, <3>4 DEF Firm
  <2> QED BY <2>1, <2>2, <2>3
<1>11. ASSUME NEW likeness \in Flow!Likenesses, NEW j \in dups, TextOf[j] \in likeness
       PROVE  \E k \in Jds : TextOf[k] \in likeness /\ Firm(k)'
  <2>1. PICK m \in accepted[x] \ dups : TextOf[m] \in Alike[TextOf[j]]
    BY <1>2
  <2>2. TextOf[m] \in likeness
    BY <1>11, <2>1 DEF Flow!Likenesses
  <2> QED BY <1>10, <2>2
<1>12. ASSUME NEW likeness \in Flow!Likenesses, Touched(likeness)'
       PROVE  \E k \in Jds : TextOf[k] \in likeness /\ Firm(k)'
  <2>1. CASE \E j \in dups : TextOf[j] \in likeness
    BY <1>11, <2>1
  <2>2. CASE \A j \in dups : TextOf[j] \notin likeness
    <3>1. Touched(likeness)
      BY <1>1, <1>9, <1>12, <2>2 DEF Touched
    <3>2. PICK k \in Jds : TextOf[k] \in likeness /\ Firm(k)
      BY <3>1 DEF JdInv, Outlived
    <3>3. Firm(k)'
      BY <1>1, <1>9, <2>2, <3>2 DEF Firm
    <3> QED BY <3>2, <3>3
  <2> QED BY <2>1, <2>2
<1> QED BY <1>7, <1>8, <1>12 DEF JdInv, Outlived

-----------------------------------------------------------------------------
LEMMA JdStays == JdInv /\ [Flow!Next]_Flow!jdVars => JdInv'
<1> SUFFICES ASSUME JdInv, [Flow!Next]_Flow!jdVars PROVE JdInv'
  OBVIOUS
<1>1. CASE UNCHANGED Flow!jdVars
  BY <1>1 DEF Flow!jdVars, JdInv, JdHeld, JdTyped, Shape, OneHolder, HeldStatus, Flow!Holds,
              Single, Outlived, Touched, Condemned, AtRisk, Firm
<1>2. ASSUME NEW x \in Executions, Flow!ExecutionStep(x) PROVE JdInv'
  BY <1>2, JdLoads, DedupKeepsAll, DedupAccepts, DedupFuzzes, DedupCommits, CleanCommits,
     ImportMarks, ExecutionLost, DedupLooks, ImportSteps DEF Flow!ExecutionStep
<1> QED BY <1>1, <1>2, JdCrawlOne, JdSeenExpires DEF Flow!Next

LEMMA JdInSum == (SumInit => Flow!Init) /\ ([SumNext]_allVars => [Flow!Next]_Flow!jdVars)
  BY DEF SumInit, SumNext, allVars, jdVars, Flow!jdVars

LEMMA JdHolds == SumSpec => []JdInv
<1>1. SumInit => JdInv
  BY JdInSum, JdStarts
<1>2. JdInv /\ [SumNext]_allVars => JdInv'
  BY JdInSum, JdStays
<1> QED BY <1>1, <1>2, PTL DEF SumSpec

\* Dedup keeps a row of every likeness it removes rows of, for any number of executions
\* that overlap, die, lose Redis or find their keys expired (execute_dedup,
\* dedup_jd_records).
THEOREM DedupLosesNone == SumSpec => []NoneLost
<1>1. JdInv => NoneLost
  <2> SUFFICES ASSUME JdInv, NEW likeness \in Flow!Likenesses, NEW j \in Jds,
                      TextOf[j] \in likeness, status[j] = "duplicate"
               PROVE  \E k \in {k \in Jds : TextOf[k] \in likeness} :
                         \/ status[k] \in {"raw", "cleaned", "extracted"}
                         \/ k \in rechecked \cup shared
    BY DEF NoneLost, Flow!NoneLost
  <2> QED BY DEF JdInv, Outlived, Touched, Firm
<1> QED BY <1>1, JdHolds, PTL

\* No extraction is paid twice for a row that one execution has and marks, whatever the
\* other executions do (execute_import, run_batch_extract_jd).
THEOREM RowsAreExtractedOnce == SumSpec => []ExtractedOnce
<1>1. JdInv => ExtractedOnce
  BY DEF JdInv, Single, ExtractedOnce, Flow!ExtractedOnce
<1> QED BY <1>1, JdHolds, PTL

-----------------------------------------------------------------------------
(* The snapshots of a skill and the row that follows them.                 *)

Taken == {m \in Months!Months : snapshots[m] # Months!NoSnapshot}

Active == run # Months!NoRun

\* The first month that a run started now would do.
Floor == IF month > MonthsBack THEN month - MonthsBack ELSE 1

MonthsTyped ==
    /\ Months!TypeOK
    /\ \A m \in Months!Months : m > month => mentioned[m] = {} /\ m \notin others
    /\ Active => 1 <= run.next /\ run.next <= run.last /\ run.last <= month

\* The snapshots before month k, if any, have a latest one.
HasLatest(k) ==
    Months!Earlier(k) # {} =>
        \E m \in Months!Earlier(k) : \A other \in Months!Earlier(k) : other <= m

\* A snapshot taken now would be the one there is.
Final(m) == snapshots[m] = IF Months!Empty(m) THEN Months!NoSnapshot ELSE mentioned[m]

Retakable(m) == m >= Floor \/ (Active /\ m >= run.next)

Before(m) == snapshots[Months!Latest(Months!Earlier(m))]

\* The change that the snapshot of month m brought is recorded.
Told(m) ==
    Months!Earlier(m) # {} =>
        LET type == Months!Classify(Before(m), snapshots[m])
        IN  type = "none" \/ changelog[type].status # "none"

LatestExist == \A k \in 1..(MaxMonth + 1) : HasLatest(k)

TakenAreFull ==
    \A m \in Taken : ~Months!Empty(m) /\ snapshots[m] \subseteq mentioned[m] /\ m <= month

\* Behind a snapshot and behind a run there is nothing to do again.
FinalBehind == \A l \in Taken : \A m \in 1..(l - 1) : Retakable(m) => Final(m)
RunLeavesFinal == Active => \A m \in Months!Months : m >= Floor /\ m < run.next => Final(m)

PrevIsBefore ==
    Active /\ run.hasPrev =>
        Months!Earlier(run.next) # {} /\ run.prev = Before(run.next)

AllTold == \A m \in Taken : Told(m)

ChangesHavePairs ==
    \A t \in Months!ChangeTypes : changelog[t].status # "none" =>
        changelog[t].month \in Taken /\ Months!Earlier(changelog[t].month) # {}

History ==
    /\ LatestExist /\ TakenAreFull /\ FinalBehind /\ RunLeavesFinal
    /\ PrevIsBefore /\ AllTold /\ ChangesHavePairs
    /\ approving # "none" => missed

\* The row of a month that no later snapshot follows.
Followed(m) ==
    /\ snapshots[m] # {} => Months!Main(snapshots[m]) \in relations
    /\ mentioned[m] # {} => Months!Main(mentioned[m]) \in relations

NothingRecorded == \A t \in Months!ChangeTypes : changelog[t].status = "none"

Follows ==
    ~missed =>
        /\ \A m \in Taken : (\A l \in Taken : l <= m) => Followed(m)
        /\ NothingRecorded => \A m \in Months!Months : mentioned[m] \subseteq relations

MonthsInv == MonthsTyped /\ History /\ Follows

LEMMA MonthsBounds == MaxMonth \in Nat \ {0} /\ MonthsBack \in Nat
  BY RecordsAssumptions DEF Months!EvolutionAssumption

LEMMA MonthFacts ==
    ASSUME MonthsTyped
    PROVE  /\ month \in 1..MaxMonth /\ month \in Nat /\ Floor \in Nat /\ Floor >= 1
           /\ Months!Months = 1..MaxMonth
           /\ snapshots \in [1..MaxMonth -> {Months!NoSnapshot} \cup SUBSET Months!Requirements]
           /\ mentioned \in [1..MaxMonth -> SUBSET Months!Requirements]
           /\ run.next \in Nat /\ run.last \in Nat /\ run.prev \subseteq Months!Requirements
           /\ Taken \subseteq 1..MaxMonth
           /\ \A k \in Nat : Months!Earlier(k) \subseteq Nat
<1>1. /\ month \in 1..MaxMonth /\ Months!Months = 1..MaxMonth
  BY DEF MonthsTyped, Months!TypeOK, Months!Months
<1>2. month \in Nat /\ Floor \in Nat /\ Floor >= 1
  BY <1>1, MonthsBounds DEF Floor
<1>3. run.next \in Nat /\ run.last \in Nat /\ run.prev \subseteq Months!Requirements
  BY MonthsBounds DEF MonthsTyped, Months!TypeOK
<1>4. /\ snapshots \in [1..MaxMonth -> {Months!NoSnapshot} \cup SUBSET Months!Requirements]
      /\ mentioned \in [1..MaxMonth -> SUBSET Months!Requirements]
  BY DEF MonthsTyped, Months!TypeOK, Months!Months
<1> QED BY <1>1, <1>2, <1>3, <1>4 DEF Taken, Months!Earlier

LEMMA LatestOf ==
    ASSUME NEW k, HasLatest(k), Months!Earlier(k) # {}
    PROVE  /\ Months!Latest(Months!Earlier(k)) \in Months!Earlier(k)
           /\ \A other \in Months!Earlier(k) : other <= Months!Latest(Months!Earlier(k))
<1>1. \E m \in Months!Earlier(k) : \A other \in Months!Earlier(k) : other <= m
  BY DEF HasLatest
<1> QED BY <1>1 DEF Months!Latest

LEMMA MonthsStart == Months!Init => MonthsInv
<1> SUFFICES ASSUME Months!Init PROVE MonthsInv
  OBVIOUS
<1>1. Taken = {} /\ ~Active /\ \A k \in 1..(MaxMonth + 1) : Months!Earlier(k) = {}
  <2>1. \A m \in Months!Months : snapshots[m] = Months!NoSnapshot
    BY DEF Months!Init
  <2>2. \A k \in 1..(MaxMonth + 1) : Months!Earlier(k) = {}
    <3> SUFFICES ASSUME NEW k \in 1..(MaxMonth + 1), NEW e \in Months!Earlier(k) PROVE FALSE
      OBVIOUS
    <3>1. e \in 1..MaxMonth /\ snapshots[e] # Months!NoSnapshot
      BY MonthsBounds DEF Months!Earlier
    <3> QED BY <2>1, <3>1 DEF Months!Months
  <2> QED BY <2>1, <2>2 DEF Taken, Active, Months!Init
<1>2. Months!TypeOK
  <2>1. changelog \in [Months!ChangeTypes ->
           [status : {"none", "pending", "approved", "rejected"}, month : 0..MaxMonth]]
    BY MonthsBounds DEF Months!Init
  <2>2. run \in [next : 0..MaxMonth, last : 0..MaxMonth,
                prev : SUBSET Months!Requirements, hasPrev : BOOLEAN]
    BY MonthsBounds DEF Months!Init, Months!NoRun
  <2>3. month \in Months!Months
    BY MonthsBounds DEF Months!Init, Months!Months
  <2>4. /\ mentioned \in [Months!Months -> SUBSET Months!Requirements]
        /\ snapshots \in [Months!Months -> {Months!NoSnapshot} \cup SUBSET Months!Requirements]
    BY DEF Months!Init
  <2> QED BY <2>1, <2>2, <2>3, <2>4 DEF Months!Init, Months!TypeOK
<1>3. MonthsTyped
  BY <1>1, <1>2 DEF MonthsTyped, Months!Init
<1>4. History
  BY <1>1 DEF History, LatestExist, HasLatest, TakenAreFull, FinalBehind, RunLeavesFinal,
              PrevIsBefore, AllTold, ChangesHavePairs, Months!Init
<1>5. Follows
  BY <1>1 DEF Follows, Months!Init
<1> QED BY <1>3, <1>4, <1>5 DEF MonthsInv

-----------------------------------------------------------------------------
\* No snapshot is taken.
LEMMA SnapshotsStay ==
    ASSUME snapshots' = snapshots
    PROVE  /\ Taken' = Taken
           /\ \A k : /\ Months!Earlier(k)' = Months!Earlier(k)
                     /\ HasLatest(k)' = HasLatest(k)
                     /\ Before(k)' = Before(k)
  BY DEF Taken, Months!Earlier, HasLatest, Before, Months!Months

LEMMA MentionsTyped ==
    ASSUME MonthsTyped, Months!Extract \/ Months!ExtractOther
    PROVE  /\ MonthsTyped'
           /\ \A m \in Months!Months : m # month =>
                 mentioned'[m] = mentioned[m] /\ (m \in others' <=> m \in others)
           /\ \A m \in Months!Months : mentioned[m] \subseteq mentioned'[m]
           /\ others \subseteq others' /\ relations \subseteq relations'
<1>0. month \in Months!Months /\ month \in Nat /\ Months!Months \subseteq Nat
  BY MonthFacts DEF Months!Months
<1>1. CASE Months!Extract
  <2>1. PICK requirement \in Months!Requirements, enough \in BOOLEAN :
           /\ relations' = relations \cup {requirement}
           /\ mentioned' = IF enough
                  THEN [mentioned EXCEPT ![month] = @ \cup {requirement}]
                  ELSE mentioned
    BY <1>1 DEF Months!Extract
  <2>2. UNCHANGED <<month, others, snapshots, changelog, run, approving, missed>>
    BY <1>1 DEF Months!Extract
  <2>3. mentioned' \in [Months!Months -> SUBSET Months!Requirements]
    BY <2>1 DEF MonthsTyped, Months!TypeOK
  <2>4. \A m \in Months!Months : m # month => mentioned'[m] = mentioned[m]
    BY <2>1 DEF MonthsTyped, Months!TypeOK
  <2>5. \A m \in Months!Months : mentioned[m] \subseteq mentioned'[m]
    BY <2>1 DEF MonthsTyped, Months!TypeOK
  <2>6. \A m \in Months!Months : m > month => mentioned'[m] = {}
    BY <1>0, <2>4 DEF MonthsTyped
  <2> QED BY <2>1, <2>2, <2>3, <2>4, <2>5, <2>6 DEF MonthsTyped, Months!TypeOK, Active
<1>2. CASE Months!ExtractOther
  BY <1>0, <1>2 DEF Months!ExtractOther, MonthsTyped, Months!TypeOK, Active
<1> QED BY <1>1, <1>2

\* What a month that is over had stays final.
LEMMA FinalStays ==
    ASSUME NEW m \in Months!Months, Final(m), snapshots'[m] = snapshots[m],
           mentioned'[m] = mentioned[m], m \in others' <=> m \in others
    PROVE  Final(m)'
  BY DEF Final, Months!Empty

LEMMA MentionsKeep ==
    ASSUME MonthsInv, Months!Extract \/ Months!ExtractOther
    PROVE  History'
<1>1. /\ UNCHANGED <<month, snapshots, changelog, run, approving, missed>>
  BY DEF Months!Extract, Months!ExtractOther
<1>2. MonthsTyped /\ History
  BY DEF MonthsInv
<1>3. /\ \A m \in Months!Months : m # month =>
             mentioned'[m] = mentioned[m] /\ (m \in others' <=> m \in others)
      /\ \A m \in Months!Months : mentioned[m] \subseteq mentioned'[m]
      /\ others \subseteq others'
  BY <1>2, MentionsTyped
<1>4. Taken' = Taken /\ \A k : HasLatest(k)' = HasLatest(k)
  BY <1>1, SnapshotsStay
<1>5. \A k : Months!Earlier(k)' = Months!Earlier(k) /\ Before(k)' = Before(k)
  BY <1>1, SnapshotsStay
<1>6. /\ month \in Nat /\ Months!Months = 1..MaxMonth /\ Taken \subseteq 1..MaxMonth
      /\ MaxMonth \in Nat
  BY <1>2, MonthFacts, MonthsBounds
<1>7. ASSUME NEW m \in Months!Months, m < month, Final(m) PROVE Final(m)'
  BY <1>1, <1>3, <1>6, <1>7, FinalStays
<1>8. LatestExist'
  BY <1>2, <1>4 DEF History, LatestExist
<1>9. TakenAreFull'
  BY <1>1, <1>2, <1>3, <1>4 DEF History, TakenAreFull, Months!Empty, Taken
<1>10. FinalBehind'
  <2> SUFFICES ASSUME NEW l \in Taken, NEW m \in 1..(l - 1), Retakable(m)' PROVE Final(m)'
    BY <1>4 DEF FinalBehind
  <2>1. Retakable(m)
    BY <1>1 DEF Retakable, Floor, Active
  <2>2. l <= month /\ m \in Months!Months /\ m < month
    BY <1>2, <1>6 DEF History, TakenAreFull
  <2> QED BY <1>2, <1>7, <2>1, <2>2 DEF History, FinalBehind
<1>11. RunLeavesFinal'
  <2> SUFFICES ASSUME Active', NEW m \in Months!Months, (m >= Floor)', (m < run.next)'
               PROVE  Final(m)'
    BY DEF RunLeavesFinal
  <2>1. Active /\ m >= Floor /\ m < run.next
    BY <1>1 DEF Floor, Active
  <2>2. m < month
    BY <1>2, <1>6, <2>1, MonthFacts DEF MonthsTyped
  <2> QED BY <1>2, <1>7, <2>1, <2>2 DEF History, RunLeavesFinal
<1>12. PrevIsBefore'
  BY <1>1, <1>2, <1>5 DEF History, PrevIsBefore, Active
<1>13. AllTold'
  BY <1>1, <1>2, <1>4, <1>5 DEF History, AllTold, Told
<1>14. ChangesHavePairs'
  BY <1>1, <1>2, <1>4, <1>5 DEF History, ChangesHavePairs
<1> QED BY <1>1, <1>2, <1>8, <1>9, <1>10, <1>11, <1>12, <1>13, <1>14 DEF History

LEMMA MentionsFollowed ==
    ASSUME MonthsInv, Months!Extract \/ Months!ExtractOther
    PROVE  Follows'
<1>1. /\ UNCHANGED <<month, snapshots, changelog, run, approving, missed>>
  BY DEF Months!Extract, Months!ExtractOther
<1>2. MonthsTyped /\ Follows
  BY DEF MonthsInv
<1>3. relations \subseteq relations' /\ Taken' = Taken
  BY <1>1, <1>2, MentionsTyped, SnapshotsStay
<1>4. ASSUME NEW m \in Months!Months
      PROVE  /\ mentioned[m] \subseteq relations => mentioned'[m] \subseteq relations'
             /\ Followed(m) => Followed(m)'
  <2>1. CASE mentioned'[m] = mentioned[m]
    BY <1>1, <1>3, <2>1 DEF Followed
  <2>2. CASE Months!Extract /\ mentioned'[m] # mentioned[m]
    <3>1. PICK requirement \in Months!Requirements :
              /\ relations' = relations \cup {requirement}
              /\ mentioned'[m] = mentioned[m] \cup {requirement}
      BY <1>2, <2>2 DEF Months!Extract, MonthsTyped, Months!TypeOK
    <3>2. Months!Main(mentioned'[m]) \in {requirement, Months!Main(mentioned[m])}
          /\ (mentioned[m] = {} => Months!Main(mentioned'[m]) = requirement)
      BY <3>1 DEF Months!Main, Months!Requirements
    <3> QED BY <1>1, <1>3, <3>1, <3>2 DEF Followed
  <2>3. CASE Months!ExtractOther
    BY <2>1, <2>3 DEF Months!ExtractOther
  <2> QED BY <2>1, <2>2, <2>3
<1>5. Taken \subseteq Months!Months
  BY DEF Taken
<1> QED BY <1>1, <1>2, <1>3, <1>4, <1>5 DEF Follows, NothingRecorded

-----------------------------------------------------------------------------
\* A run or a month goes on, and no snapshot is taken.
LEMMA SnapshotsKeep ==
    ASSUME MonthsInv, MonthsTyped',
           UNCHANGED <<mentioned, others, snapshots, changelog, relations, approving, missed>>,
           month <= month',
           \A m \in Months!Months : Retakable(m)' => Retakable(m),
           \A m \in Months!Months : Active' /\ (m >= Floor)' /\ (m < run.next)' => Final(m),
           Active' /\ run'.hasPrev =>
              /\ Active /\ run.hasPrev /\ run'.prev = run.prev
              /\ Months!Earlier(run'.next) = Months!Earlier(run.next)
    PROVE  MonthsInv'
<1>1. History /\ Follows
  BY DEF MonthsInv
<1>2. Taken' = Taken /\ \A k : HasLatest(k)' = HasLatest(k)
  BY SnapshotsStay
<1>3. \A k : Months!Earlier(k)' = Months!Earlier(k)
  BY SnapshotsStay
<1>4. \A k : Before(k)' = Before(k)
  BY SnapshotsStay
<1>5. \A m : Final(m)' = Final(m)
  BY DEF Final, Months!Empty
<1>6. LatestExist'
  BY <1>1, <1>2 DEF History, LatestExist
<1>7. TakenAreFull'
  <2> SUFFICES ASSUME NEW m \in Taken
               PROVE  ~Months!Empty(m)' /\ (snapshots[m] \subseteq mentioned[m])' /\ m <= month'
    BY <1>2 DEF TakenAreFull
  <2>1. ~Months!Empty(m) /\ snapshots[m] \subseteq mentioned[m] /\ m <= month
    BY <1>1 DEF History, TakenAreFull
  <2>2. m \in Int /\ month \in Int /\ month' \in Int
    BY MonthsBounds DEF MonthsTyped, Months!TypeOK, Months!Months, Taken, MonthsInv
  <2> QED BY <2>1, <2>2 DEF Months!Empty
<1>8. FinalBehind'
  <2> SUFFICES ASSUME NEW l \in Taken, NEW m \in 1..(l - 1), Retakable(m)' PROVE Final(m)
    BY <1>2, <1>5 DEF FinalBehind
  <2>1. m \in Months!Months
    BY MonthsBounds DEF Taken, Months!Months
  <2> QED BY <1>1, <2>1 DEF History, FinalBehind
<1>9. RunLeavesFinal'
  BY <1>5 DEF RunLeavesFinal, Months!Months
<1>10. PrevIsBefore'
  <2> SUFFICES ASSUME Active', run'.hasPrev
               PROVE  Months!Earlier(run'.next) # {} /\ run'.prev = Before(run'.next)
    BY <1>3, <1>4 DEF PrevIsBefore
  <2>1. Months!Earlier(run.next) # {} /\ run.prev = Before(run.next)
    BY <1>1 DEF History, PrevIsBefore
  <2>2. Before(run'.next) = Before(run.next)
    BY DEF Before
  <2> QED BY <2>1, <2>2
<1>11. AllTold'
  BY <1>1, <1>2, <1>3, <1>4 DEF History, AllTold, Told
<1>12. ChangesHavePairs'
  BY <1>1, <1>2, <1>3 DEF History, ChangesHavePairs
<1>13. Follows'
  BY <1>1, <1>2 DEF Follows, Followed, NothingRecorded, Months!Months
<1> QED BY <1>1, <1>6, <1>7, <1>8, <1>9, <1>10, <1>11, <1>12, <1>13 DEF History, MonthsInv

LEMMA MonthEnds ==
    ASSUME MonthsInv, Months!MonthEnds PROVE MonthsInv'
<1>0. /\ month \in Nat /\ month < MaxMonth /\ month' = month + 1 /\ MaxMonth \in Nat
      /\ MonthsBack \in Nat /\ Months!Months = 1..MaxMonth
      /\ UNCHANGED <<mentioned, others, snapshots, changelog, relations, run, approving, missed>>
  BY MonthFacts, MonthsBounds DEF MonthsInv, Months!MonthEnds
<1>1. Floor <= Floor' /\ Floor \in Nat /\ Floor' \in Nat
  BY <1>0 DEF Floor
<1>2. run.next \in Nat /\ run.last \in Nat
  BY MonthFacts DEF MonthsInv
<1>3. MonthsTyped'
  <2>1. Months!TypeOK'
    BY <1>0 DEF MonthsInv, MonthsTyped, Months!TypeOK, Months!Months
  <2>2. \A m \in Months!Months : m > month' => mentioned[m] = {} /\ m \notin others
    BY <1>0 DEF MonthsInv, MonthsTyped
  <2>3. Active => 1 <= run.next /\ run.next <= run.last /\ run.last <= month'
    BY <1>0, <1>2 DEF MonthsInv, MonthsTyped
  <2> QED BY <1>0, <2>1, <2>2, <2>3 DEF MonthsTyped, Active, Months!Months
<1>4. Active' = Active
  BY <1>0 DEF Active
<1>5. \A m \in Months!Months : Retakable(m)' => Retakable(m)
  BY <1>0, <1>1, <1>4 DEF Retakable
<1>6. \A m \in Months!Months : Active' /\ (m >= Floor)' /\ (m < run.next)' => Final(m)
  BY <1>0, <1>1, <1>2, <1>4 DEF MonthsInv, History, RunLeavesFinal
<1> QED BY <1>0, <1>3, <1>4, <1>5, <1>6, SnapshotsKeep

LEMMA RunBegins ==
    ASSUME MonthsInv, Months!StartRun PROVE MonthsInv'
<1>0. /\ month \in Nat /\ MaxMonth \in Nat /\ month \in 1..MaxMonth
      /\ MonthsBack \in Nat /\ Months!Months = 1..MaxMonth
      /\ UNCHANGED <<month, mentioned, others, snapshots, changelog, relations, approving, missed>>
  BY MonthFacts, MonthsBounds DEF MonthsInv, Months!StartRun
<1>1. /\ Floor \in 1..month /\ Floor' = Floor
  BY <1>0 DEF Floor
<1>2. run' = [next |-> Floor, last |-> month, prev |-> {}, hasPrev |-> FALSE]
  BY DEF Months!StartRun, Months!NoRun, Floor
<1>3. MonthsTyped'
  <2>1. Months!TypeOK'
    <3>1. Floor \in 0..MaxMonth /\ month \in 0..MaxMonth
      BY <1>0, <1>1
    <3>2. run' \in [next : 0..MaxMonth, last : 0..MaxMonth,
                    prev : SUBSET Months!Requirements, hasPrev : BOOLEAN]
      BY <1>2, <3>1
    <3> QED BY <1>0, <3>2 DEF MonthsInv, MonthsTyped, Months!TypeOK
  <2> QED BY <1>0, <1>1, <1>2, <2>1 DEF MonthsInv, MonthsTyped
<1>4. \A m \in Months!Months : Retakable(m)' => Retakable(m)
  BY <1>1, <1>2 DEF Retakable
<1>5. \A m \in Months!Months : Active' /\ (m >= Floor)' /\ (m < run.next)' => Final(m)
  BY <1>0, <1>1, <1>2
<1> QED BY <1>0, <1>2, <1>3, <1>4, <1>5, SnapshotsKeep

LEMMA RunEnds ==
    ASSUME MonthsInv, Months!RunDies PROVE MonthsInv'
<1>0. /\ run' = Months!NoRun /\ month \in Nat
      /\ UNCHANGED <<month, mentioned, others, snapshots, changelog, relations, approving, missed>>
  BY MonthFacts DEF MonthsInv, Months!RunDies
<1>1. ~Active'
  BY <1>0 DEF Active
<1>2. MonthsTyped'
  <2>1. run' \in [next : 0..MaxMonth, last : 0..MaxMonth,
                  prev : SUBSET Months!Requirements, hasPrev : BOOLEAN]
    BY <1>0, MonthsBounds DEF Months!NoRun
  <2>2. Months!TypeOK'
    BY <1>0, <2>1 DEF MonthsInv, MonthsTyped, Months!TypeOK
  <2> QED BY <1>0, <1>1, <2>2 DEF MonthsInv, MonthsTyped
<1>3. \A m \in Months!Months : Retakable(m)' => Retakable(m)
  BY <1>0, <1>1 DEF Retakable, Floor
<1> QED BY <1>0, <1>1, <1>2, <1>3, SnapshotsKeep

LEMMA MonthSkipped ==
    ASSUME MonthsInv, Months!SkipMonth PROVE MonthsInv'
<1>1. PICK m \in Months!Months :
           /\ Months!Due(m) /\ Months!Empty(m)
           /\ run' = IF m = run.last THEN Months!NoRun ELSE [run EXCEPT !.next = @ + 1]
  BY DEF Months!SkipMonth
<1>2. /\ month \in Nat /\ Months!Months = 1..MaxMonth /\ MaxMonth \in Nat
      /\ run.next \in Nat /\ run.last \in Nat
      /\ UNCHANGED <<month, mentioned, others, snapshots, changelog, relations, approving, missed>>
  BY MonthFacts, MonthsBounds DEF MonthsInv, Months!SkipMonth
<1>3. run.next = m /\ m <= run.last /\ Active
  BY <1>1, <1>2 DEF Months!Due, Active, Months!NoRun
<1>4. CASE m = run.last
  <2>1. run' = Months!NoRun /\ ~Active'
    BY <1>1, <1>4 DEF Active
  <2>2. MonthsTyped'
    <3>1. run' \in [next : 0..MaxMonth, last : 0..MaxMonth,
                    prev : SUBSET Months!Requirements, hasPrev : BOOLEAN]
      BY <1>2, <2>1 DEF Months!NoRun
    <3>2. Months!TypeOK'
      BY <1>2, <3>1 DEF MonthsInv, MonthsTyped, Months!TypeOK
    <3> QED BY <1>2, <2>1, <3>2 DEF MonthsInv, MonthsTyped
  <2>3. \A k \in Months!Months : Retakable(k)' => Retakable(k)
    BY <1>2, <2>1 DEF Retakable, Floor
  <2> QED BY <1>2, <2>1, <2>2, <2>3, SnapshotsKeep
<1>5. CASE m # run.last
  <2>1. run' = [run EXCEPT !.next = m + 1]
    BY <1>1, <1>3, <1>5
  <2>2. run \in [next : 0..MaxMonth, last : 0..MaxMonth,
                 prev : SUBSET Months!Requirements, hasPrev : BOOLEAN]
    BY DEF MonthsInv, MonthsTyped, Months!TypeOK
  <2>3. /\ run'.next = m + 1 /\ run'.last = run.last /\ run'.prev = run.prev
        /\ run'.hasPrev = run.hasPrev
    BY <2>1, <2>2
  <2>4. m + 1 \in 1..MaxMonth /\ m + 1 <= run.last
    BY <1>2, <1>3, <1>5, <2>2
  <2>5. MonthsTyped'
    <3>1. run' \in [next : 0..MaxMonth, last : 0..MaxMonth,
                    prev : SUBSET Months!Requirements, hasPrev : BOOLEAN]
      BY <2>1, <2>2, <2>4
    <3>2. Months!TypeOK'
      BY <1>2, <3>1 DEF MonthsInv, MonthsTyped, Months!TypeOK
    <3>3. run.last <= month
      BY <1>3 DEF MonthsInv, MonthsTyped
    <3> QED BY <1>2, <2>3, <2>4, <3>2, <3>3 DEF MonthsInv, MonthsTyped
  <2>6. snapshots[m] = Months!NoSnapshot
    BY <1>1 DEF MonthsInv, History, TakenAreFull, Taken
  <2>7. Months!Earlier(m + 1) = Months!Earlier(m)
    BY <1>2, <2>6 DEF Months!Earlier
  <2>8. Final(m)
    BY <1>1, <2>6 DEF Final
  <2>9. \A k \in Months!Months : Retakable(k)' => Retakable(k)
    BY <1>2, <1>3, <2>3 DEF Retakable, Floor
  <2>10. \A k \in Months!Months : Active' /\ (k >= Floor)' /\ (k < run.next)' => Final(k)
    <3> SUFFICES ASSUME NEW k \in Months!Months, k >= Floor, k < m + 1 PROVE Final(k)
      BY <1>2, <2>3 DEF Floor
    <3>1. k = m \/ k < run.next
      BY <1>2, <1>3
    <3> QED BY <1>3, <2>8, <3>1 DEF MonthsInv, History, RunLeavesFinal
  <2> QED BY <1>2, <1>3, <2>3, <2>5, <2>7, <2>9, <2>10, SnapshotsKeep
<1> QED BY <1>4, <1>5

-----------------------------------------------------------------------------
\* The review queue: types stay recorded, and a hand that approves excuses the rows.
LEMMA ReviewKeeps ==
    ASSUME MonthsInv,
           \/ Months!ApproveOne \/ Months!WriteBackApproved \/ Months!ApprovalDies
           \/ Months!RejectOne \/ Months!DecideAll
    PROVE  MonthsInv'
<1>0. /\ UNCHANGED <<month, mentioned, others, snapshots, run>>
      /\ MonthsTyped /\ History /\ Follows
  BY DEF MonthsInv, Months!ApproveOne, Months!WriteBackApproved, Months!ApprovalDies,
         Months!RejectOne, Months!DecideAll
<1>1. ASSUME NEW types \in SUBSET Months!ChangeTypes, NEW s \in {"approved", "rejected"},
             Months!Decide(types, s), \A t \in types : changelog[t].status # "none"
      PROVE  /\ changelog' \in [Months!ChangeTypes ->
                   [status : {"none", "pending", "approved", "rejected"}, month : 0..MaxMonth]]
             /\ \A t \in Months!ChangeTypes :
                   /\ changelog'[t].month = changelog[t].month
                   /\ changelog'[t].status = "none" <=> changelog[t].status = "none"
  <2>0. \A t \in Months!ChangeTypes : changelog[t] \in
            [status : {"none", "pending", "approved", "rejected"}, month : 0..MaxMonth]
    BY <1>0 DEF MonthsTyped, Months!TypeOK
  <2>1. \A t \in Months!ChangeTypes :
            changelog'[t] = IF t \in types THEN [changelog[t] EXCEPT !.status = s]
                            ELSE changelog[t]
    BY <1>1 DEF Months!Decide
  <2>2. ASSUME NEW t \in Months!ChangeTypes
        PROVE  /\ changelog'[t] \in [status : {"none", "pending", "approved", "rejected"},
                                     month : 0..MaxMonth]
               /\ changelog'[t].month = changelog[t].month
               /\ changelog'[t].status = "none" <=> changelog[t].status = "none"
    BY <1>1, <2>0, <2>1
  <2>3. changelog' = [t \in Months!ChangeTypes |-> changelog'[t]]
    BY <1>1 DEF Months!Decide
  <2> QED BY <2>2, <2>3
<1>2. /\ changelog' \in [Months!ChangeTypes ->
            [status : {"none", "pending", "approved", "rejected"}, month : 0..MaxMonth]]
      /\ \A t \in Months!ChangeTypes :
            /\ changelog'[t].month = changelog[t].month
            /\ changelog'[t].status = "none" <=> changelog[t].status = "none"
  <2>1. CASE Months!ApproveOne
    <3>1. PICK t \in Months!Recorded : Months!Decide({t}, "approved")
      BY <2>1 DEF Months!ApproveOne
    <3> QED BY <1>1, <3>1 DEF Months!Recorded
  <2>2. CASE Months!RejectOne
    <3>1. PICK t \in Months!Recorded : Months!Decide({t}, "rejected")
      BY <2>2 DEF Months!RejectOne
    <3> QED BY <1>1, <3>1 DEF Months!Recorded
  <2>3. CASE Months!DecideAll
    <3>1. PICK s \in {"approved", "rejected"}, types \in SUBSET Months!Pending :
              Months!Decide(types, s)
      BY <2>3 DEF Months!DecideAll
    <3> QED BY <1>1, <3>1 DEF Months!Pending
  <2>4. CASE Months!WriteBackApproved \/ Months!ApprovalDies
    BY <1>0, <2>4 DEF Months!WriteBackApproved, Months!ApprovalDies, MonthsTyped, Months!TypeOK
  <2> QED BY <2>1, <2>2, <2>3, <2>4
<1>3. /\ approving' \in Months!ChangeTypes \cup {"none"} /\ missed' \in BOOLEAN
      /\ approving' # "none" => missed'
      /\ missed \/ missed' \/ relations' = relations
      /\ missed => missed'
      /\ relations' \subseteq Months!Requirements
  <2>1. CASE Months!ApproveOne
    BY <1>0, <2>1 DEF Months!ApproveOne, Months!Recorded, MonthsTyped, Months!TypeOK
  <2>2. CASE Months!WriteBackApproved
    <3>1. relations' \subseteq Months!Requirements
      BY <1>0, <2>2 DEF Months!WriteBackApproved, Months!WrittenBack, MonthsTyped, Months!TypeOK,
                        Months!Requirements, Months!ChangeTypes
    <3> QED BY <1>0, <2>2, <3>1 DEF Months!WriteBackApproved, MonthsTyped, Months!TypeOK, History
  <2>3. CASE Months!ApprovalDies \/ Months!RejectOne \/ Months!DecideAll
    BY <1>0, <2>3 DEF Months!ApprovalDies, Months!RejectOne, Months!DecideAll, MonthsTyped,
                      Months!TypeOK, History
  <2> QED BY <2>1, <2>2, <2>3
<1>4. MonthsTyped'
  BY <1>0, <1>2, <1>3 DEF MonthsTyped, Months!TypeOK, Active
<1>5. Taken' = Taken /\ \A k : HasLatest(k)' = HasLatest(k)
  BY <1>0, SnapshotsStay
<1>6. \A k : Months!Earlier(k)' = Months!Earlier(k) /\ Before(k)' = Before(k)
  BY <1>0, SnapshotsStay
<1>7. \A m : Final(m)' = Final(m) /\ Retakable(m)' = Retakable(m)
  BY <1>0 DEF Final, Months!Empty, Retakable, Floor, Active
<1>8. LatestExist' /\ TakenAreFull'
  BY <1>0, <1>5 DEF History, LatestExist, TakenAreFull, Months!Empty
<1>9. FinalBehind'
  BY <1>0, <1>5, <1>7 DEF History, FinalBehind
<1>10. RunLeavesFinal'
  BY <1>0, <1>7 DEF History, RunLeavesFinal, Active, Floor
<1>11. PrevIsBefore'
  BY <1>0, <1>6 DEF History, PrevIsBefore, Active
<1>12. AllTold'
  <2> SUFFICES ASSUME NEW m \in Taken, Months!Earlier(m) # {} PROVE Told(m)'
    BY <1>5, <1>6 DEF AllTold, Told
  <2>1. Months!Classify(Before(m), snapshots[m]) \in Months!ChangeTypes \cup {"none"}
    BY DEF Months!Classify, Months!ChangeTypes
  <2>2. Told(m)
    BY <1>0 DEF History, AllTold
  <2> QED BY <1>0, <1>2, <1>6, <2>1, <2>2 DEF Told
<1>13. ChangesHavePairs'
  BY <1>0, <1>2, <1>5, <1>6 DEF History, ChangesHavePairs
<1>14. Follows'
  BY <1>0, <1>2, <1>3, <1>5 DEF Follows, Followed, NothingRecorded
<1> QED BY <1>0, <1>3, <1>4, <1>8, <1>9, <1>10, <1>11, <1>12, <1>13, <1>14
        DEF MonthsInv, History

-----------------------------------------------------------------------------
\* What the transaction of month n does, given what the run knows of the month before.
TakesMonth(n) ==
    LET type == Months!Classify(Before(n), mentioned[n])
    IN  /\ n = run.next /\ n <= run.last /\ Active /\ n \in Months!Months
        /\ ~Months!Empty(n)
        /\ snapshots' = [snapshots EXCEPT ![n] = mentioned[n]]
        /\ run' = Months!Advanced(mentioned[n])
        /\ IF Months!Earlier(n) # {} /\ type # "none"
           THEN \E high \in BOOLEAN : Months!Record(n, type, high)
           ELSE UNCHANGED <<changelog, relations, missed>>
        /\ UNCHANGED <<month, mentioned, others, approving>>

LEMMA TakesAMonth ==
    ASSUME MonthsInv, Months!TakeSnapshot PROVE \E n : TakesMonth(n)
<1> DEFINE Has == run.hasPrev \/ Months!Earlier(run.next) # {}
           Prev == IF run.hasPrev THEN run.prev
                   ELSE snapshots[Months!Latest(Months!Earlier(run.next))]
           type == Months!Classify(Prev, mentioned[run.next])
<1>1. PICK n \in Months!Months :
           /\ Months!Due(n) /\ ~Months!Empty(n)
           /\ snapshots' = [snapshots EXCEPT ![n] = mentioned[n]]
           /\ run' = Months!Advanced(mentioned[n])
           /\ n = run.next
           /\ IF Has /\ type # "none"
              THEN \E high \in BOOLEAN : Months!Record(n, type, high)
              ELSE UNCHANGED <<changelog, relations, missed>>
  BY DEF Months!TakeSnapshot, Months!Due
<1>2. n <= run.last /\ Active
  BY <1>1, MonthsBounds DEF Months!Due, Active, Months!NoRun, Months!Months
<1>3. run.hasPrev => Months!Earlier(n) # {} /\ run.prev = Before(n)
  BY <1>1, <1>2 DEF MonthsInv, History, PrevIsBefore
<1>4. (Has <=> Months!Earlier(n) # {}) /\ Prev = Before(n)
  BY <1>1, <1>3 DEF Before
<1>5. UNCHANGED <<month, mentioned, others, approving>>
  BY DEF Months!TakeSnapshot
<1> HIDE DEF Has, Prev
<1>6. type = Months!Classify(Before(n), mentioned[n])
  BY <1>1, <1>4
<1> HIDE DEF type
<1> QED BY <1>1, <1>2, <1>4, <1>5, <1>6 DEF TakesMonth

\* What it does to the records of the changes.
LEMMA TakesRecord ==
    ASSUME MonthsInv, NEW n, TakesMonth(n),
           NEW type, type = Months!Classify(Before(n), mentioned[n])
    PROVE  /\ \A t \in Months!ChangeTypes :
                 /\ changelog[t].status # "none" => changelog'[t] = changelog[t]
                 /\ changelog'[t] # changelog[t] =>
                       changelog'[t].month = n /\ Months!Earlier(n) # {}
           /\ Months!Earlier(n) # {} => type = "none" \/ changelog'[type].status # "none"
           /\ missed => missed'
           /\ \/ relations' = relations /\ changelog' = changelog
              \/ /\ type # "none" /\ changelog[type].status = "none"
                 /\ missed' \/ relations' = Months!WrittenBack(type, relations)
           /\ type # "none" /\ Months!Earlier(n) # {} /\ changelog[type].status # "none" =>
                 missed' \/ changelog[type].month = n
           /\ type = "none" \/ Months!Earlier(n) = {} =>
                 changelog' = changelog /\ relations' = relations
           /\ changelog' \in [Months!ChangeTypes ->
                 [status : {"none", "pending", "approved", "rejected"}, month : 0..MaxMonth]]
           /\ relations' \subseteq Months!Requirements /\ missed' \in BOOLEAN
<1>1. type \in Months!ChangeTypes \cup {"none"} /\ "none" \notin Months!ChangeTypes
  BY DEF Months!Classify, Months!ChangeTypes
<1>2. /\ n \in 0..MaxMonth /\ relations \subseteq Months!Requirements /\ missed \in BOOLEAN
      /\ changelog \in [Months!ChangeTypes ->
            [status : {"none", "pending", "approved", "rejected"}, month : 0..MaxMonth]]
  BY MonthsBounds DEF MonthsInv, MonthsTyped, Months!TypeOK, TakesMonth, Months!Months
<1>3. CASE Months!Earlier(n) # {} /\ type # "none"
  <2>1. PICK high \in BOOLEAN : Months!Record(n, type, high)
    BY <1>3 DEF TakesMonth
  <2>2. CASE changelog[type].status # "none"
    <3>1. /\ missed' = (missed \/ changelog[type].month # n)
          /\ changelog' = changelog /\ relations' = relations
      BY <2>1, <2>2 DEF Months!Record
    <3>2. missed' \in BOOLEAN
      BY <3>1
    <3>3. \A t \in Months!ChangeTypes : changelog'[t] = changelog[t]
      BY <3>1
    <3>4. missed => missed'
      BY <3>1
    <3>5. missed' \/ changelog[type].month = n
      BY <3>1
    <3> QED BY <1>2, <1>3, <2>2, <3>1, <3>2, <3>3, <3>4, <3>5
  <2>3. CASE changelog[type].status = "none"
    <3>1. /\ changelog' = [changelog EXCEPT ![type] =
                [status |-> IF high THEN "approved" ELSE "pending", month |-> n]]
          /\ relations' = IF high THEN Months!WrittenBack(type, relations) ELSE relations
          /\ missed' = (missed \/ ~high)
      BY <2>1, <2>3 DEF Months!Record
    <3>2. /\ missed' \in BOOLEAN
          /\ missed => missed'
          /\ missed' \/ relations' = Months!WrittenBack(type, relations)
      BY <3>1
    <3>3. type \in Months!ChangeTypes
      BY <1>1, <1>3
    <3>4. relations' \subseteq Months!Requirements
      <4>1. \A t \in Months!ChangeTypes :
                Months!WrittenBack(t, relations) \subseteq Months!Requirements
        BY <1>2 DEF Months!WrittenBack, Months!Requirements, Months!ChangeTypes
      <4> QED BY <1>2, <3>1, <3>3, <4>1
    <3>5. /\ changelog' \in [Months!ChangeTypes ->
               [status : {"none", "pending", "approved", "rejected"}, month : 0..MaxMonth]]
          /\ changelog'[type].status # "none" /\ changelog'[type].month = n
          /\ \A t \in Months!ChangeTypes : t # type => changelog'[t] = changelog[t]
      BY <1>2, <3>1, <3>3
    <3>6. \A t \in Months!ChangeTypes :
              /\ changelog[t].status # "none" => changelog'[t] = changelog[t]
              /\ changelog'[t] # changelog[t] => changelog'[t].month = n
      BY <2>3, <3>5
    <3>7. /\ type # "none" /\ Months!Earlier(n) # {}
          /\ ~(type = "none" \/ Months!Earlier(n) = {})
          /\ ~(changelog[type].status # "none")
      BY <1>3, <2>3
    <3> QED BY <2>3, <3>2, <3>4, <3>5, <3>6, <3>7, Zenon
  <2> QED BY <2>2, <2>3
<1>4. CASE ~(Months!Earlier(n) # {} /\ type # "none")
  <2>1. UNCHANGED <<changelog, relations, missed>>
    BY <1>4 DEF TakesMonth
  <2> QED BY <1>2, <1>4, <2>1
<1> QED BY <1>3, <1>4

\* What it does to the snapshots.
LEMMA TakesOne ==
    ASSUME MonthsInv, NEW n, TakesMonth(n)
    PROVE  /\ n \in 1..MaxMonth /\ n <= month
           /\ snapshots' \in [1..MaxMonth -> {Months!NoSnapshot} \cup SUBSET Months!Requirements]
           /\ snapshots'[n] = mentioned[n] /\ mentioned[n] \subseteq Months!Requirements
           /\ \A m : m # n => snapshots'[m] = snapshots[m]
           /\ Taken' = Taken \cup {n}
           /\ \A k \in 1..(MaxMonth + 1) :
                 Months!Earlier(k)' = Months!Earlier(k) \cup (IF n < k THEN {n} ELSE {})
           /\ (\E l \in Taken : l > n) => snapshots' = snapshots /\ n \in Taken
           /\ Final(n)'
           /\ \A m \in Months!Months : m # n => Final(m)' = Final(m)
<1>0. /\ n \in 1..MaxMonth /\ Months!Months = 1..MaxMonth /\ month \in Nat
      /\ run.next = n /\ run.last \in Nat /\ n <= run.last /\ Active /\ MaxMonth \in Nat
      /\ snapshots \in [1..MaxMonth -> {Months!NoSnapshot} \cup SUBSET Months!Requirements]
      /\ mentioned \in [1..MaxMonth -> SUBSET Months!Requirements]
      /\ snapshots' = [snapshots EXCEPT ![n] = mentioned[n]]
      /\ ~Months!Empty(n) /\ mentioned' = mentioned /\ others' = others
  BY MonthFacts, MonthsBounds DEF TakesMonth, MonthsInv
<1>1. n <= month
  BY <1>0 DEF MonthsInv, MonthsTyped
<1>2. /\ snapshots' \in [1..MaxMonth -> {Months!NoSnapshot} \cup SUBSET Months!Requirements]
      /\ snapshots'[n] = mentioned[n]
  BY <1>0
<1>3. mentioned[n] \subseteq Months!Requirements /\ mentioned[n] # Months!NoSnapshot
  BY <1>0 DEF Months!NoSnapshot, Months!Requirements
<1>4. \A m : m # n => snapshots'[m] = snapshots[m]
  BY <1>0
<1>5. Taken' = Taken \cup {n}
  BY <1>0, <1>2, <1>3, <1>4 DEF Taken, Months!Months
<1>6. ASSUME NEW k \in 1..(MaxMonth + 1)
      PROVE  Months!Earlier(k)' = Months!Earlier(k) \cup (IF n < k THEN {n} ELSE {})
  BY <1>0, <1>2, <1>3, <1>4 DEF Months!Earlier
<1>7. Final(n)' /\ \A m \in Months!Months : m # n => Final(m)' = Final(m)
  BY <1>0, <1>2, <1>4 DEF Final, Months!Empty
<1>8. ASSUME NEW l \in Taken, l > n PROVE snapshots' = snapshots /\ n \in Taken
  <2>1. n \in 1..(l - 1) /\ Retakable(n)
    BY <1>0, <1>8 DEF Retakable, Taken
  <2>2. snapshots[n] = mentioned[n]
    BY <1>0, <2>1 DEF MonthsInv, History, FinalBehind, Final
  <2> QED BY <1>0, <1>3, <2>2 DEF Taken
<1> QED BY <1>0, <1>1, <1>2, <1>3, <1>4, <1>5, <1>6, <1>7, <1>8

LEMMA TakesTyped ==
    ASSUME MonthsInv, NEW n, TakesMonth(n)
    PROVE  /\ MonthsTyped'
           /\ Active' => run'.next = n + 1 /\ run'.prev = mentioned[n] /\ n + 1 \in 1..MaxMonth
<1>0. /\ run \in [next : 0..MaxMonth, last : 0..MaxMonth,
                  prev : SUBSET Months!Requirements, hasPrev : BOOLEAN]
      /\ MaxMonth \in Nat /\ Active /\ run.last <= month /\ month \in 1..MaxMonth
      /\ n = run.next /\ n <= run.last /\ n \in 1..MaxMonth
      /\ mentioned[n] \in SUBSET Months!Requirements
      /\ run' = Months!Advanced(mentioned[n])
  BY MonthsBounds, MonthFacts DEF MonthsInv, MonthsTyped, Months!TypeOK, TakesMonth
<1>1. /\ run' \in [next : 0..MaxMonth, last : 0..MaxMonth,
                   prev : SUBSET Months!Requirements, hasPrev : BOOLEAN]
      /\ \/ run' = Months!NoRun
         \/ /\ run'.next = n + 1 /\ run'.last = run.last /\ run'.prev = mentioned[n]
            /\ n + 1 \in 1..MaxMonth /\ n + 1 <= run.last
  <2>1. CASE run.next = run.last
    BY <1>0, <2>1 DEF Months!Advanced, Months!NoRun
  <2>2. CASE run.next # run.last
    <3>1. run' = [run EXCEPT !.next = n + 1, !.prev = mentioned[n], !.hasPrev = TRUE]
      BY <1>0, <2>2 DEF Months!Advanced
    <3>2. n + 1 \in 0..MaxMonth /\ n + 1 \in 1..MaxMonth /\ n + 1 <= run.last
      BY <1>0, <2>2
    <3> QED BY <1>0, <3>1, <3>2
  <2> QED BY <2>1, <2>2
<1>2. /\ changelog' \in [Months!ChangeTypes ->
            [status : {"none", "pending", "approved", "rejected"}, month : 0..MaxMonth]]
      /\ relations' \subseteq Months!Requirements /\ missed' \in BOOLEAN
  BY TakesRecord
<1>3. snapshots' \in [Months!Months -> {Months!NoSnapshot} \cup SUBSET Months!Requirements]
  BY TakesOne DEF Months!Months
<1>4. Months!TypeOK'
  BY <1>1, <1>2, <1>3 DEF MonthsInv, MonthsTyped, Months!TypeOK, TakesMonth
<1>5. \A m \in Months!Months : (m > month)' => mentioned'[m] = {} /\ m \notin others'
  BY DEF MonthsInv, MonthsTyped, TakesMonth
<1>6. Active' => 1 <= run'.next /\ run'.next <= run'.last /\ run'.last <= month'
  BY <1>0, <1>1 DEF Active, TakesMonth
<1> QED BY <1>1, <1>4, <1>5, <1>6 DEF MonthsTyped, Active

LEMMA TakesHistory ==
    ASSUME MonthsInv, NEW n, TakesMonth(n) PROVE History'
<1>0. /\ History /\ MonthsTyped /\ Months!Months = 1..MaxMonth /\ MaxMonth \in Nat
      /\ Taken \subseteq 1..MaxMonth /\ n = run.next /\ Active /\ ~Months!Empty(n)
      /\ UNCHANGED <<month, mentioned, others, approving>>
      /\ run.last \in Nat /\ Floor \in Nat
  BY MonthFacts, MonthsBounds DEF MonthsInv, TakesMonth
<1>1. /\ n \in 1..MaxMonth /\ n <= month /\ snapshots'[n] = mentioned[n]
      /\ \A m : m # n => snapshots'[m] = snapshots[m]
      /\ Taken' = Taken \cup {n} /\ Final(n)'
      /\ \A m \in Months!Months : m # n => Final(m)' = Final(m)
  BY TakesOne
<1>2. /\ \A k \in 1..(MaxMonth + 1) :
            Months!Earlier(k)' = Months!Earlier(k) \cup (IF n < k THEN {n} ELSE {})
      /\ (\E l \in Taken : l > n) => snapshots' = snapshots /\ n \in Taken
  BY TakesOne
<1>3. Active' => run'.next = n + 1 /\ run'.prev = mentioned[n] /\ n + 1 \in 1..MaxMonth
  BY TakesTyped
<1>4. Floor' = Floor
  BY <1>0 DEF Floor
<1>44. ASSUME NEW m \in 1..MaxMonth
       PROVE  /\ m \in 1..(MaxMonth + 1)
              /\ m <= n => Months!Earlier(m)' = Months!Earlier(m)
              /\ Months!Earlier(m) \subseteq Months!Earlier(m)'
  <2>1. m \in 1..(MaxMonth + 1)
    BY <1>0
  <2>2. Months!Earlier(m)' = Months!Earlier(m) \cup (IF n < m THEN {n} ELSE {})
    BY <1>2, <2>1
  <2>3. m <= n => ~(n < m)
    BY <1>1
  <2> QED BY <2>1, <2>2, <2>3
<1>5. ASSUME NEW k \in 1..(MaxMonth + 1) PROVE HasLatest(k)'
  <2>1. \A e \in Months!Earlier(k) : e \in Nat
    BY <1>0 DEF Months!Earlier
  <2>2. CASE n < k
    <3>1. Months!Earlier(k)' = Months!Earlier(k) \cup {n}
      BY <1>2, <2>2
    <3>2. CASE Months!Earlier(k) = {}
      BY <1>1, <3>1, <3>2 DEF HasLatest
    <3>3. CASE Months!Earlier(k) # {}
      <4>1. PICK m \in Months!Earlier(k) : \A other \in Months!Earlier(k) : other <= m
        BY <1>0, <3>3 DEF History, LatestExist, HasLatest
      <4>2. PICK later \in {m, n} : m <= later /\ n <= later
        BY <1>1, <2>1, <4>1
      <4>3. \A other \in Months!Earlier(k) \cup {n} : other <= later
        BY <1>1, <2>1, <4>1, <4>2
      <4> QED BY <3>1, <4>1, <4>2, <4>3 DEF HasLatest
    <3> QED BY <3>2, <3>3
  <2>3. CASE ~(n < k)
    BY <1>0, <1>2, <2>3 DEF History, LatestExist, HasLatest
  <2> QED BY <2>2, <2>3
<1>6. LatestExist'
  BY <1>5 DEF LatestExist
<1>7. TakenAreFull'
  BY <1>0, <1>1 DEF History, TakenAreFull, Months!Empty
<1>8. ASSUME NEW m \in Months!Months, m < n, m >= Floor PROVE Final(m)'
  BY <1>0, <1>1, <1>8 DEF History, RunLeavesFinal
<1>9. FinalBehind'
  <2> SUFFICES ASSUME NEW l \in Taken \cup {n}, NEW m \in 1..(l - 1), Retakable(m)'
               PROVE  Final(m)'
    BY <1>1 DEF FinalBehind
  <2>1. m \in Months!Months /\ l \in 1..MaxMonth
    BY <1>0, <1>1
  <2>2. CASE m = n
    BY <1>1, <2>2
  <2>3. CASE m # n /\ l \in Taken
    <3>1. Retakable(m)
      BY <1>0, <1>1, <1>3, <1>4, <2>1 DEF Retakable
    <3> QED BY <1>0, <1>1, <2>1, <2>3, <3>1 DEF History, FinalBehind
  <2>4. CASE m # n /\ l = n
    <3>1. m < n /\ m >= Floor
      BY <1>0, <1>3, <1>4, <2>1, <2>4 DEF Retakable
    <3> QED BY <1>8, <2>1, <3>1
  <2> QED BY <2>2, <2>3, <2>4
<1>10. RunLeavesFinal'
  <2> SUFFICES ASSUME Active', NEW m \in Months!Months, m >= Floor, m < run'.next
               PROVE  Final(m)'
    BY <1>4 DEF RunLeavesFinal, Months!Months
  <2>1. m = n \/ m < n
    BY <1>0, <1>1, <1>3
  <2> QED BY <1>1, <1>8, <2>1
<1>11. PrevIsBefore'
  <2> SUFFICES ASSUME Active'
               PROVE  (Months!Earlier(run.next) # {} /\ run.prev = Before(run.next))'
    BY DEF PrevIsBefore
  <2>1. run'.next = n + 1 /\ run'.prev = mentioned[n] /\ n + 1 \in 1..(MaxMonth + 1)
    BY <1>0, <1>3
  <2>2. ASSUME NEW k, k = n + 1
        PROVE  Months!Earlier(k)' # {} /\ mentioned[n] = Before(k)'
    <3>1. Months!Earlier(k)' = Months!Earlier(k) \cup {n}
      BY <1>1, <1>2, <2>1, <2>2
    <3>2. \A e \in Months!Earlier(k) : e \in Nat /\ e <= n
      BY <1>1, <2>2 DEF Months!Earlier
    <3>3. HasLatest(k)'
      BY <1>5, <2>1, <2>2
    <3>4. /\ Months!Latest(Months!Earlier(k)') \in Months!Earlier(k)'
          /\ \A other \in Months!Earlier(k)' : other <= Months!Latest(Months!Earlier(k)')
      BY <3>1, <3>3 DEF HasLatest, Months!Latest
    <3>5. Months!Latest(Months!Earlier(k)') = n
      BY <1>1, <3>1, <3>2, <3>4
    <3> QED BY <1>1, <3>1, <3>5 DEF Before
  <2> QED BY <2>1, <2>2, <1>3 DEF Months!Earlier, Before
\* What came before a month up to n is as it was.
<1>12. ASSUME NEW m \in 1..MaxMonth, m <= n, Months!Earlier(m) # {}
       PROVE  Before(m)' = Before(m)
  <2>1. Months!Earlier(m)' = Months!Earlier(m)
    BY <1>12, <1>44
  <2>2. Months!Latest(Months!Earlier(m)) \in Months!Earlier(m)
    BY <1>0, <1>12, LatestOf DEF History, LatestExist
  <2>3. Months!Latest(Months!Earlier(m)) # n
    BY <1>1, <1>12, <2>2 DEF Months!Earlier
  <2> QED BY <1>1, <2>1, <2>3 DEF Before
<1>13. \A t \in Months!ChangeTypes : changelog[t].status # "none" => changelog'[t] = changelog[t]
  BY TakesRecord
<1>14. \A old, lists : Months!Classify(old, lists) \in Months!ChangeTypes \cup {"none"}
  BY DEF Months!Classify, Months!ChangeTypes
<1>15. ASSUME NEW m \in Taken \cup {n} PROVE Told(m)'
  <2>0. m \in 1..MaxMonth
    BY <1>0, <1>1
  <2>1. CASE m = n
    <3>1. Months!Earlier(n)' = Months!Earlier(n)
      BY <1>1, <1>44
    <3>2. CASE Months!Earlier(n) # {}
      <4>1. Before(n)' = Before(n)
        BY <1>1, <1>12, <3>2
      <4>2. LET type == Months!Classify(Before(n), mentioned[n])
            IN  type = "none" \/ changelog'[type].status # "none"
        BY <3>2, TakesRecord
      <4> QED BY <1>1, <2>1, <4>1, <4>2 DEF Told
    <3> QED BY <2>1, <3>1, <3>2 DEF Told
  <2>2. CASE m # n /\ m > n
    <3>1. m \in Taken /\ snapshots' = snapshots
      BY <1>2, <2>2
    <3>2. Months!Earlier(m)' = Months!Earlier(m)
      BY <3>1, SnapshotsStay
    <3>3. Before(m)' = Before(m)
      BY <3>1, SnapshotsStay
    <3>4. Told(m)
      BY <1>0, <3>1 DEF History, AllTold
    <3> QED BY <1>13, <1>14, <3>1, <3>2, <3>3, <3>4 DEF Told
  <2>3. CASE m # n /\ m < n
    <3>1. m \in Taken /\ Told(m) /\ snapshots'[m] = snapshots[m]
      BY <1>0, <1>1, <2>3 DEF History, AllTold
    <3>2. Months!Earlier(m)' = Months!Earlier(m)
      BY <1>1, <1>44, <2>0, <2>3
    <3>3. Months!Earlier(m) # {} => Before(m)' = Before(m)
      BY <1>12, <2>0, <2>3, <1>1
    <3> QED BY <1>13, <1>14, <3>1, <3>2, <3>3 DEF Told
  <2> QED BY <1>1, <2>0, <2>1, <2>2, <2>3
<1>16. AllTold'
  BY <1>1, <1>15 DEF AllTold
<1>17. ChangesHavePairs'
  <2> SUFFICES ASSUME NEW t \in Months!ChangeTypes, changelog'[t].status # "none"
               PROVE  (changelog[t].month \in Taken /\ Months!Earlier(changelog[t].month) # {})'
    BY DEF ChangesHavePairs, Months!ChangeTypes
  <2>1. PICK c \in 1..MaxMonth : c = changelog'[t].month /\ c \in Taken' /\ Months!Earlier(c) # {}
    <3>1. CASE changelog'[t] = changelog[t]
      <4>1. changelog[t].month \in Taken /\ Months!Earlier(changelog[t].month) # {}
        BY <1>0, <3>1 DEF History, ChangesHavePairs
      <4> QED BY <1>0, <1>1, <3>1, <4>1
    <3>2. CASE changelog'[t] # changelog[t]
      <4>1. changelog'[t].month = n /\ Months!Earlier(n) # {}
        BY <3>2, TakesRecord
      <4> QED BY <1>1, <4>1
    <3> QED BY <3>1, <3>2
  <2>2. Months!Earlier(c)' # {}
    BY <1>44, <2>1
  <2> QED BY <2>1, <2>2 DEF Months!Earlier
<1>18. approving' # "none" => missed'
  <2>1. missed => missed'
    BY TakesRecord
  <2> QED BY <1>0, <2>1 DEF History
<1> QED BY <1>6, <1>7, <1>9, <1>10, <1>11, <1>16, <1>17, <1>18 DEF History

\* The row has the requirement of the lists that the change led to.
LEMMA WritesRow ==
    ASSUME NEW old \in SUBSET Months!Requirements, NEW lists \in SUBSET Months!Requirements,
           lists # {}, NEW held
    PROVE  LET type == Months!Classify(old, lists)
           IN  /\ type = "none" => old # {} /\ Months!Main(old) = Months!Main(lists)
               /\ type # "none" => Months!Main(lists) \in Months!WrittenBack(type, held)
<1>1. Months!Main(lists) \in {"required", "preferred"} /\ Months!Main(old) \in {"required", "preferred"}
  BY DEF Months!Main
<1> QED BY <1>1 DEF Months!Classify, Months!WrittenBack

LEMMA TakesFollow ==
    ASSUME MonthsInv, NEW n, TakesMonth(n) PROVE Follows'
<1> SUFFICES ASSUME ~missed' PROVE Follows'
  BY DEF Follows
<1> DEFINE lists == mentioned[n]
           type == Months!Classify(Before(n), lists)
<1>0. /\ History /\ ~missed /\ Follows /\ MaxMonth \in Nat /\ Months!Months = 1..MaxMonth
      /\ Taken \subseteq 1..MaxMonth /\ mentioned' = mentioned
  BY TakesRecord, MonthFacts, MonthsBounds DEF MonthsInv, TakesMonth
<1>1. /\ n \in 1..MaxMonth /\ snapshots'[n] = lists /\ Taken' = Taken \cup {n}
      /\ lists \subseteq Months!Requirements
      /\ (\E l \in Taken : l > n) => snapshots' = snapshots /\ n \in Taken
      /\ snapshots \in [1..MaxMonth -> {Months!NoSnapshot} \cup SUBSET Months!Requirements]
  BY TakesOne, MonthFacts DEF MonthsInv
<1>2. /\ \A t \in Months!ChangeTypes : changelog[t].status # "none" => changelog'[t] = changelog[t]
      /\ \/ relations' = relations /\ changelog' = changelog
         \/ /\ type # "none" /\ changelog[type].status = "none"
            /\ relations' = Months!WrittenBack(type, relations)
      /\ type # "none" /\ Months!Earlier(n) # {} /\ changelog[type].status # "none" =>
            changelog[type].month = n
      /\ Months!Earlier(n) # {} => type = "none" \/ changelog'[type].status # "none"
      /\ type = "none" \/ Months!Earlier(n) = {} => changelog' = changelog /\ relations' = relations
  BY TakesRecord
<1>3. type \in Months!ChangeTypes \cup {"none"}
  BY DEF Months!Classify, Months!ChangeTypes
<1>4. NothingRecorded' => NothingRecorded /\ relations' = relations
  <2>1. NothingRecorded' => NothingRecorded
    BY <1>2 DEF NothingRecorded
  <2>2. NothingRecorded' => type = "none" \/ Months!Earlier(n) = {}
    BY <1>2, <1>3 DEF NothingRecorded
  <2> QED BY <1>2, <2>1, <2>2
<1>5. NothingRecorded' => \A m \in Months!Months : mentioned'[m] \subseteq relations'
  BY <1>0, <1>4 DEF Follows
<1>6. CASE \E l \in Taken : l > n
  <2>1. snapshots' = snapshots /\ n \in Taken /\ snapshots[n] = lists /\ Taken' = Taken
    BY <1>1, <1>6
  <2>2. Months!Earlier(n) # {} => type = "none" \/ changelog[type].status # "none"
    BY <1>0, <2>1 DEF History, AllTold, Told
  <2>3. relations' = relations
    BY <1>2, <2>2
  <2>4. \A m : Followed(m)' = Followed(m)
    BY <1>0, <2>1, <2>3 DEF Followed
  <2> QED BY <1>0, <1>5, <2>1, <2>4 DEF Follows
<1>7. CASE \A l \in Taken : l <= n
  <2>1. ASSUME lists # {} PROVE Months!Main(lists) \in relations'
    <3>1. CASE Months!Earlier(n) = {}
      <4>1. NothingRecorded
        <5> SUFFICES ASSUME NEW t \in Months!ChangeTypes, changelog[t].status # "none" PROVE FALSE
          BY DEF NothingRecorded
        <5>1. changelog[t].month \in Taken /\ Months!Earlier(changelog[t].month) # {}
          BY <1>0 DEF History, ChangesHavePairs
        <5>2. PICK c \in 1..MaxMonth : c = changelog[t].month /\ c <= n
          BY <1>0, <1>7, <5>1
        <5>3. c # n
          BY <3>1, <5>1, <5>2
        <5>4. c \in Months!Earlier(n)
          BY <1>1, <5>1, <5>2, <5>3 DEF Months!Earlier, Taken
        <5> QED BY <3>1, <5>4
      <4>2. lists \subseteq relations
        BY <1>0, <1>1, <4>1 DEF Follows
      <4>3. Months!Main(lists) \in lists
        BY <1>1, <2>1 DEF Months!Main, Months!Requirements
      <4> QED BY <1>2, <3>1, <4>2, <4>3
    <3>2. CASE Months!Earlier(n) # {}
      <4> DEFINE e == Months!Latest(Months!Earlier(n))
      <4>1. e \in Months!Earlier(n) /\ \A other \in Months!Earlier(n) : other <= e
        <5>1. HasLatest(n)
          BY <1>0, <1>1 DEF History, LatestExist
        <5> QED BY <3>2, <5>1, LatestOf
      <4> HIDE DEF e
      <4>2. e \in Taken /\ e < n /\ e \in 1..MaxMonth
        BY <1>0, <1>1, <4>1 DEF Months!Earlier, Taken
      <4>3. Before(n) = snapshots[e] /\ snapshots[e] \in SUBSET Months!Requirements
        BY <1>1, <4>2 DEF Before, e, Taken
      <4>4. n \in Taken => Followed(n)
        BY <1>0, <1>7 DEF Follows
      <4>5. n \notin Taken => Followed(e)
        <5> SUFFICES ASSUME n \notin Taken, NEW l \in Taken PROVE l <= e
          BY <1>0, <4>2 DEF Follows
        <5>1. l \in Months!Earlier(n)
          BY <1>0, <1>1, <1>7 DEF Months!Earlier, Taken
        <5> QED BY <4>1, <5>1
      <4>6. CASE type = "none"
        <5>1. Before(n) # {} /\ Months!Main(Before(n)) = Months!Main(lists)
          BY <1>1, <2>1, <4>3, <4>6, WritesRow
        <5>2. relations' = relations
          BY <1>2, <4>6
        <5>3. CASE n \in Taken
          BY <2>1, <4>4, <5>2, <5>3 DEF Followed
        <5>4. CASE n \notin Taken
          BY <4>3, <4>5, <5>1, <5>2, <5>4 DEF Followed
        <5> QED BY <5>3, <5>4
      <4>7. CASE type # "none" /\ changelog[type].status # "none"
        <5>1. changelog[type].month = n
          BY <1>2, <3>2, <4>7
        <5>2. n \in Taken
          BY <1>0, <1>3, <4>7, <5>1 DEF History, ChangesHavePairs
        <5>3. relations' = relations
          BY <1>2, <4>7
        <5> QED BY <2>1, <4>4, <5>2, <5>3 DEF Followed
      <4>8. CASE type # "none" /\ changelog[type].status = "none"
        <5>1. changelog' # changelog
          BY <1>2, <3>2, <4>8
        <5>2. relations' = Months!WrittenBack(type, relations)
          BY <1>2, <5>1
        <5> QED BY <1>1, <2>1, <4>3, <4>8, <5>2, WritesRow
      <4> QED BY <4>6, <4>7, <4>8
    <3> QED BY <3>1, <3>2
  <2>2. Followed(n)'
    BY <1>0, <1>1, <2>1 DEF Followed
  <2>3. ASSUME NEW m \in Taken', \A l \in Taken' : l <= m PROVE m = n
    <3>1. m \in 1..MaxMonth /\ n <= m
      BY <1>0, <1>1, <2>3
    <3>2. m <= n
      BY <1>1, <1>7, <2>3
    <3> QED BY <1>1, <3>1, <3>2
  <2> QED BY <1>5, <2>2, <2>3 DEF Follows
<1>8. (\E l \in Taken : l > n) \/ (\A l \in Taken : l <= n)
  BY <1>0, <1>1
<1> QED BY <1>6, <1>7, <1>8

-----------------------------------------------------------------------------
LEMMA MonthsStay == MonthsInv /\ [Months!Next]_Months!vars => MonthsInv'
<1> SUFFICES ASSUME MonthsInv, [Months!Next]_Months!vars PROVE MonthsInv'
  OBVIOUS
<1>1. CASE Months!Extract \/ Months!ExtractOther
  BY <1>1, MentionsTyped, MentionsKeep, MentionsFollowed DEF MonthsInv
<1>2. CASE Months!TakeSnapshot
  <2>1. PICK n : TakesMonth(n)
    BY <1>2, TakesAMonth
  <2> QED BY <2>1, TakesTyped, TakesHistory, TakesFollow DEF MonthsInv
<1>3. CASE UNCHANGED Months!vars
  <2>1. MonthsTyped' /\ UNCHANGED <<mentioned, others, snapshots, changelog, relations,
                                    approving, missed, month, run>>
    BY <1>3 DEF Months!vars, MonthsInv, MonthsTyped, Months!TypeOK, Active
  <2>2. month \in Nat
    BY MonthFacts DEF MonthsInv
  <2>3. \A m \in Months!Months : Retakable(m)' => Retakable(m)
    BY <2>1 DEF Retakable, Floor, Active
  <2>4. \A m \in Months!Months : Active' /\ (m >= Floor)' /\ (m < run.next)' => Final(m)
    BY <2>1 DEF MonthsInv, History, RunLeavesFinal, Active, Floor
  <2>5. month <= month'
    BY <2>1, <2>2
  <2>6. Active' /\ run'.hasPrev => /\ Active /\ run.hasPrev /\ run'.prev = run.prev
                                   /\ Months!Earlier(run'.next) = Months!Earlier(run.next)
    BY <2>1 DEF Active
  <2> QED BY <2>1, <2>3, <2>4, <2>5, <2>6, SnapshotsKeep
<1> QED BY <1>1, <1>2, <1>3, MonthEnds, RunBegins, RunEnds, MonthSkipped, ReviewKeeps
        DEF Months!Next

LEMMA MonthsInSum ==
    (SumInit => Months!Init) /\ ([SumNext]_allVars => [Months!Next]_Months!vars)
  BY DEF SumInit, SumNext, allVars, monthVars, Months!vars

LEMMA MonthsHold == SumSpec => []MonthsInv
<1>1. SumInit => MonthsInv
  BY MonthsInSum, MonthsStart
<1>2. MonthsInv /\ [SumNext]_allVars => MonthsInv'
  BY MonthsInSum, MonthsStay
<1> QED BY <1>1, <1>2, PTL DEF SumSpec

\* Between runs the requirement of the latest snapshot has its row, for any number of
\* months, of runs that repeat months or die between two of them, and of job
\* descriptions that arrive meanwhile (take_snapshot, detect_changes, write_back), but
\* for changes that come a second time, score low or are approved by hand.
THEOREM RelationsFollow == SumSpec => []RelationFollows
<1>1. MonthsInv => RelationFollows
  <2> SUFFICES ASSUME MonthsInv, run = Months!NoRun, ~missed, Taken # {},
                      snapshots[Months!Latest(Taken)] # {}
               PROVE  Months!Main(snapshots[Months!Latest(Taken)]) \in relations
    BY DEF RelationFollows, Months!RelationFollows, Taken
  <2>1. Taken = Months!Earlier(MaxMonth + 1)
    BY MonthsBounds DEF Taken, Months!Earlier, Months!Months
  <2>2. HasLatest(MaxMonth + 1)
    BY MonthsBounds DEF MonthsInv, History, LatestExist
  <2>3. /\ Months!Latest(Taken) \in Taken
        /\ \A l \in Taken : l <= Months!Latest(Taken)
    BY <2>1, <2>2, LatestOf
  <2>4. Followed(Months!Latest(Taken))
    BY <2>3 DEF MonthsInv, Follows
  <2> QED BY <2>4 DEF Followed
<1> QED BY <1>1, MonthsHold, PTL

-----------------------------------------------------------------------------
(***************************************************************************)
(* What execute_crawl reports is what it did.  A source is reported once,  *)
(* because it is crawled once: the configurations still to crawl are of    *)
(* different sources, none of them reported yet.  Hence the postings       *)
(* reported so far, with those of the source under way, are the new and    *)
(* the duplicate ones.                                                     *)
(***************************************************************************)
CrawlConfig == [source : Sources, disabled : BOOLEAN]

CrawlTyped ==
    /\ Crawl!TypeOK
    /\ crawl \in {"config", "source", "spider", "late", "failed", "items", "returned"}
    /\ todo \in Seq(CrawlConfig)
    /\ new \in Nat /\ duplicate \in Nat /\ handled \in Nat
    /\ single # <<>> => single[2] \subseteq Offers
    /\ thread = "running" => crawl \in {"spider", "late"}

\* The sources still to crawl are different, and not reported.
Queued ==
    /\ DOMAIN outcome \subseteq Sources
    /\ \A i \in 1..Len(todo) : todo[i].source \notin DOMAIN outcome
    /\ \A i, j \in 1..Len(todo) : todo[i].source = todo[j].source => i = j
    /\ crawl = "config" => DOMAIN outcome = {}
    /\ crawl \in {"spider", "late", "failed", "items"} => todo # <<>>

\* The counts of the rows and of the sources.
Counted ==
    /\ IsFiniteSet(mine) /\ new = Cardinality(mine)
    /\ IsFiniteSet(Crawl!Reported)
    /\ Cardinality(Crawl!Reported) + (IF crawl = "items" THEN handled ELSE 0)
         = new + duplicate

CrawlInv == CrawlTyped /\ Queued /\ Counted

LEMMA CrawlConstants ==
    /\ IsFiniteSet(Sources)
    /\ Crawlable \subseteq Sources /\ WithSpider \subseteq Sources
    /\ Default \in Sources
    /\ FoundAt \in [Offers -> Sources]
    /\ MaxAttempts \in Nat \ {0}
<1>1. Crawl!IsFiniteSet(Sources) <=> IsFiniteSet(Sources)
  BY DEF Crawl!IsFiniteSet, IsFiniteSet
<1> QED BY <1>1, RecordsAssumptions DEF Crawl!CrawlAssumption

\* The instance of the crawl counts as the theorems on finite sets do.
LEMMA CrawlCounts == \A S : Crawl!Cardinality(S) = Cardinality(S)
  BY DEF Crawl!Cardinality, Cardinality

LEMMA CrawlStarts == Crawl!Init => CrawlInv
<1> SUFFICES ASSUME Crawl!Init PROVE CrawlInv
  OBVIOUS
<1>1. DOMAIN outcome = {} /\ todo = <<>>
  BY DEF Crawl!Init
<1>2. CrawlTyped
  BY <1>1, CrawlConstants DEF Crawl!Init, CrawlTyped, Crawl!TypeOK
<1>3. Queued
  BY <1>1 DEF Crawl!Init, Queued
<1>4. Crawl!Reported = {}
  BY <1>1 DEF Crawl!Reported
<1>5. Counted
  BY <1>4, FS_EmptySet DEF Crawl!Init, Counted
<1> QED BY <1>2, <1>3, <1>5 DEF CrawlInv

\* SetToSeq lists a finite set, each member once.
LEMMA ListedOnce ==
  ASSUME NEW S, IsFiniteSet(S)
  PROVE  /\ Crawl!SetToSeq(S) \in [1..Cardinality(S) -> S]
         /\ \A i, j \in 1..Cardinality(S) :
                Crawl!SetToSeq(S)[i] = Crawl!SetToSeq(S)[j] => i = j
         /\ Cardinality(S) \in Nat
<1>1. PICK f \in Bijection(1..Cardinality(S), S) : TRUE
  BY FS_CardinalityType DEF ExistsBijection
<1>2. f \in [1..Cardinality(S) -> S] /\ Crawl!IsInjective(f)
  BY <1>1 DEF Bijection, Injection, IsInjective, Crawl!IsInjective
<1>3. /\ Crawl!SetToSeq(S) \in [1..Cardinality(S) -> S]
      /\ Crawl!IsInjective(Crawl!SetToSeq(S))
  <2>1. Crawl!SetToSeq(S) = CHOOSE g \in [1..Cardinality(S) -> S] : Crawl!IsInjective(g)
    BY CrawlCounts DEF Crawl!SetToSeq
  <2> QED BY <1>2, <2>1
<1> QED BY <1>3, FS_CardinalityType DEF Crawl!IsInjective

\* The outcome of the source at the head of the list is reported.
LEMMA OutcomeSet ==
  ASSUME CrawlInv, todo # <<>>, NEW o \in Crawl!Outcomes,
         Crawl!SetOutcome(Crawl!Current, o), todo' = Tail(todo),
         crawl' = "source" \/ (crawl' = crawl /\ crawl = "source")
  PROVE  /\ Queued'
         /\ todo' \in Seq(CrawlConfig)
         /\ \A s \in DOMAIN outcome' : outcome'[s] \in Crawl!Outcomes
         /\ IsFiniteSet(Crawl!Reported')
         /\ Cardinality(Crawl!Reported')
              = Cardinality(Crawl!Reported) + (IF o > 0 THEN o ELSE 0)
<1> DEFINE s == todo[1].source
           More == {s} \X (1..o)
<1>1. /\ Len(todo) \in Nat /\ Len(todo) > 0
      /\ s \in Sources /\ s \notin DOMAIN outcome
      /\ Crawl!Current = s
      /\ \A x \in DOMAIN outcome : outcome[x] \in Crawl!Outcomes
      /\ o \in Int
  BY DEF CrawlInv, CrawlTyped, Queued, Crawl!Current, CrawlConfig, Crawl!Outcomes,
         Crawl!Disabled, Crawl!NoSpider, Crawl!GivenUp, Crawl!TypeOK
<1>2. /\ DOMAIN outcome' = DOMAIN outcome \cup {s}
      /\ outcome'[s] = o
      /\ \A x \in DOMAIN outcome : outcome'[x] = outcome[x]
  BY <1>1 DEF Crawl!SetOutcome
<1>3. /\ todo' \in Seq(CrawlConfig)
      /\ Len(todo') = Len(todo) - 1
      /\ \A i \in 1..Len(todo') : todo'[i] = todo[i + 1]
  BY <1>1 DEF CrawlInv, CrawlTyped
<1>4. Queued'
  <2>1. ASSUME NEW i \in 1..Len(todo') PROVE todo'[i].source \notin DOMAIN outcome'
    <3>1. i + 1 \in 1..Len(todo) /\ 1 \in 1..Len(todo) /\ i + 1 # 1
      BY <1>1, <1>3
    <3>2. todo[i + 1].source # s /\ todo[i + 1].source \notin DOMAIN outcome
      BY <3>1 DEF CrawlInv, Queued
    <3> QED BY <1>2, <1>3, <3>2
  <2>2. ASSUME NEW i \in 1..Len(todo'), NEW j \in 1..Len(todo'),
               todo'[i].source = todo'[j].source
        PROVE  i = j
    <3>1. i + 1 \in 1..Len(todo) /\ j + 1 \in 1..Len(todo)
      BY <1>1, <1>3
    <3>2. i + 1 = j + 1
      BY <1>3, <2>2, <3>1 DEF CrawlInv, Queued
    <3> QED BY <3>2
  <2>3. DOMAIN outcome' \subseteq Sources
    BY <1>1, <1>2 DEF CrawlInv, Queued
  <2> QED BY <2>1, <2>2, <2>3 DEF Queued
<1>5. Crawl!Reported' = Crawl!Reported \cup More
  BY <1>1, <1>2 DEF Crawl!Reported
<1>6. Crawl!Reported \cap More = {}
  BY <1>1 DEF Crawl!Reported
<1>7. IsFiniteSet(More) /\ Cardinality(More) = IF o > 0 THEN o ELSE 0
  <2>1. IsFiniteSet(1..o) /\ Cardinality(1..o) = IF o > 0 THEN o ELSE 0
    BY <1>1, FS_Interval
  <2>2. IsFiniteSet({s}) /\ Cardinality({s}) = 1
    BY FS_Singleton
  <2>3. IsFiniteSet(More) /\ Cardinality(More) = Cardinality({s}) * Cardinality(1..o)
    BY <2>1, <2>2, FS_Product
  <2> QED BY <1>1, <2>1, <2>2, <2>3
<1> HIDE DEF More, s
<1>8. /\ IsFiniteSet(Crawl!Reported')
      /\ Cardinality(Crawl!Reported') = Cardinality(Crawl!Reported) + Cardinality(More)
  <2>1. IsFiniteSet(Crawl!Reported)
    BY DEF CrawlInv, Counted
  <2>2. /\ IsFiniteSet(Crawl!Reported \cup More)
        /\ Cardinality(Crawl!Reported \cup More)
             = Cardinality(Crawl!Reported) + Cardinality(More)
                 - Cardinality(Crawl!Reported \cap More)
    BY <1>7, <2>1, FS_Union
  <2>3. Cardinality(Crawl!Reported) \in Nat /\ Cardinality(More) \in Nat
    BY <1>7, <2>1, FS_CardinalityType
  <2>4. Cardinality(Crawl!Reported \cap More) = 0
    BY <1>6, FS_EmptySet
  <2>5. Cardinality(Crawl!Reported \cup More)
          = Cardinality(Crawl!Reported) + Cardinality(More)
    BY <2>2, <2>3, <2>4
  <2> QED BY <1>5, <2>2, <2>5
<1>9. \A x \in DOMAIN outcome' : outcome'[x] \in Crawl!Outcomes
  BY <1>1, <1>2
<1> QED BY <1>3, <1>4, <1>7, <1>8, <1>9

LEMMA Listed ==
  ASSUME NEW q \in Seq(CrawlConfig)
  PROVE  \A i \in DOMAIN q : q[i].source \in Sources
<1>1. \A i \in DOMAIN q : q[i] \in CrawlConfig
  OBVIOUS
<1> QED BY <1>1 DEF CrawlConfig

LEMMA CrawlReads == ASSUME CrawlInv, Crawl!ReadConfigs PROVE CrawlInv'
<1> USE DEF Crawl!sourceVars, Crawl!countVars
<1>1. PICK found \in {Crawl!Chosen, {}} :
        todo' = IF found = {} THEN <<[source |-> Default, disabled |-> FALSE]>>
                ELSE Crawl!SetToSeq({[source |-> s, disabled |-> s \in disabled] : s \in found})
  BY DEF Crawl!ReadConfigs
<1>2. found \subseteq Sources
  BY CrawlConstants DEF Crawl!Chosen, CrawlInv, CrawlTyped, Crawl!TypeOK
<1>3. /\ DOMAIN outcome = {} /\ outcome' = outcome
      /\ crawl = "config" /\ crawl' = "source"
  BY DEF Crawl!ReadConfigs, CrawlInv, Queued
<1>4. /\ todo' \in Seq(CrawlConfig)
      /\ \A i, j \in 1..Len(todo') : todo'[i].source = todo'[j].source => i = j
  <2>1. CASE found = {}
    <3>1. todo' = <<[source |-> Default, disabled |-> FALSE]>>
      BY <1>1, <2>1
    <3>2. [source |-> Default, disabled |-> FALSE] \in CrawlConfig
      BY CrawlConstants DEF CrawlConfig
    <3> QED BY <3>1, <3>2
  <2>2. CASE found # {}
    <3> DEFINE S == {[source |-> s, disabled |-> s \in disabled] : s \in found}
    <3>1. S \subseteq CrawlConfig
      <4> SUFFICES ASSUME NEW s \in found
                   PROVE  [source |-> s, disabled |-> s \in disabled] \in CrawlConfig
        OBVIOUS
      <4>1. (s \in disabled) \in BOOLEAN
        OBVIOUS
      <4>2. \A b \in BOOLEAN : [source |-> s, disabled |-> b] \in CrawlConfig
        BY <1>2 DEF CrawlConfig
      <4> QED BY <4>1, <4>2, Zenon
    <3>2. IsFiniteSet(S)
      <4> DEFINE f == [s \in found |-> [source |-> s, disabled |-> s \in disabled]]
      <4>1. IsFiniteSet(found)
        BY <1>2, CrawlConstants, FS_Subset
      <4>2. f \in Surjection(found, S)
        BY DEF Surjection
      <4> HIDE DEF f, S
      <4> QED BY <4>1, <4>2, FS_Surjection
    <3>3. \A c, d \in S : c.source = d.source => c = d
      OBVIOUS
    <3>4. todo' = Crawl!SetToSeq(S)
      BY <1>1, <2>2
    <3> HIDE DEF S
    <3>5. /\ todo' \in [1..Cardinality(S) -> S]
          /\ \A i, j \in 1..Cardinality(S) : todo'[i] = todo'[j] => i = j
          /\ Cardinality(S) \in Nat
      BY <3>2, <3>4, ListedOnce
    <3>6. todo' \in Seq(CrawlConfig) /\ Len(todo') = Cardinality(S)
      BY <3>1, <3>5
    <3> QED BY <3>3, <3>5, <3>6
  <2> QED BY <2>1, <2>2
<1>5. Queued'
  BY <1>3, <1>4 DEF Queued
<1>6. Counted'
  BY <1>3 DEF Crawl!ReadConfigs, Crawl!Reported, CrawlInv, Counted
<1>7. CrawlTyped'
  <2>1. UNCHANGED <<enabled, disabled, jdRaw, runNo, thread, items, outcome, new,
                    duplicate, handled, mine, single>>
    BY DEF Crawl!ReadConfigs
  <2>2. \A i \in DOMAIN todo' : todo'[i].source \in Sources
    BY <1>4, Listed
  <2>3. Crawl!TypeOK'
    BY <1>3, <2>1, <2>2 DEF CrawlInv, CrawlTyped, Crawl!TypeOK
  <2> QED BY <1>3, <1>4, <2>1, <2>3 DEF CrawlInv, CrawlTyped
<1> QED BY <1>5, <1>6, <1>7 DEF CrawlInv

LEMMA QueuedStays ==
  ASSUME Queued, UNCHANGED <<todo, outcome>>,
         crawl' = "config" => crawl = "config",
         crawl' \in {"spider", "late", "failed", "items"} => todo # <<>>
  PROVE  Queued'
  BY DEF Queued

LEMMA CountedStays ==
  ASSUME Counted, UNCHANGED <<outcome, new, duplicate, mine>>,
         (IF crawl' = "items" THEN handled' ELSE 0)
           = (IF crawl = "items" THEN handled ELSE 0)
  PROVE  Counted'
<1>1. Crawl!Reported' = Crawl!Reported
  BY DEF Crawl!Reported
<1> QED BY <1>1 DEF Counted

\* A source without a spider, switched off or given up is reported with a number
\* below zero, a crawled one with what was handled.
LEMMA CrawlReports ==
  ASSUME CrawlInv, Crawl!SkipSource \/ Crawl!GiveUp \/ Crawl!SourceDone
  PROVE  CrawlInv'
<1> USE DEF Crawl!sourceVars, Crawl!countVars
<1>1. PICK o \in Crawl!Outcomes :
        /\ Crawl!SetOutcome(Crawl!Current, o)
        /\ IF crawl = "items" THEN o = handled ELSE o < 0
  BY DEF Crawl!SkipSource, Crawl!GiveUp, Crawl!SourceDone, Crawl!Outcomes, Crawl!Disabled,
         Crawl!NoSpider, Crawl!GivenUp, CrawlInv, CrawlTyped
<1>2. /\ todo # <<>> /\ todo' = Tail(todo) /\ crawl' = "source"
      /\ crawl \in {"source", "failed", "items"}
      /\ UNCHANGED <<enabled, disabled, jdRaw, runNo, thread, items, new, duplicate,
                     handled, mine, single>>
  BY DEF Crawl!SkipSource, Crawl!GiveUp, Crawl!SourceDone, CrawlInv, Queued
<1>3. /\ Queued'
      /\ todo' \in Seq(CrawlConfig)
      /\ \A s \in DOMAIN outcome' : outcome'[s] \in Crawl!Outcomes
      /\ IsFiniteSet(Crawl!Reported')
      /\ Cardinality(Crawl!Reported')
           = Cardinality(Crawl!Reported) + (IF o > 0 THEN o ELSE 0)
  BY <1>1, <1>2, OutcomeSet
<1>4. Counted'
  <2>1. (IF o > 0 THEN o ELSE 0) = IF crawl = "items" THEN handled ELSE 0
    BY <1>1 DEF CrawlInv, CrawlTyped, Crawl!Outcomes, Crawl!Disabled, Crawl!NoSpider,
                Crawl!GivenUp
  <2>2. Cardinality(Crawl!Reported') = new' + duplicate'
    BY <1>2, <1>3, <2>1 DEF CrawlInv, Counted
  <2>3. (IF crawl' = "items" THEN handled' ELSE 0) = 0
    BY <1>2
  <2>4. Cardinality(Crawl!Reported') \in Nat
    BY <1>3, FS_CardinalityType
  <2>5. IsFiniteSet(mine') /\ new' = Cardinality(mine')
    BY <1>2 DEF CrawlInv, Counted
  <2> QED BY <1>3, <2>2, <2>3, <2>4, <2>5 DEF Counted
<1>5. CrawlTyped'
  <2>1. Crawl!TypeOK'
    BY <1>2, <1>3, Listed DEF CrawlInv, CrawlTyped, Crawl!TypeOK
  <2>2. thread = "running" => crawl \in {"spider", "late"}
    BY DEF CrawlInv, CrawlTyped
  <2> QED BY <1>2, <1>3, <2>1, <2>2 DEF CrawlInv, CrawlTyped
<1> QED BY <1>3, <1>4, <1>5 DEF CrawlInv

LEMMA CrawlRuns ==
  ASSUME CrawlInv,
         Crawl!StartSource \/ Crawl!TimeLimit \/ Crawl!SpiderEnds \/ Crawl!TryAgain
           \/ Crawl!StageEnds
  PROVE  CrawlInv'
<1> USE DEF Crawl!sourceVars, Crawl!countVars
<1>1. /\ UNCHANGED <<enabled, disabled, jdRaw, todo, outcome, new, duplicate, mine,
                     single>>
      /\ crawl \notin {"config", "items"} /\ crawl' # "config"
      /\ crawl' \in {"spider", "late", "failed", "items", "returned"}
      /\ crawl' \in {"spider", "late", "failed", "items"} => todo # <<>>
      /\ crawl' = "items" => handled' = 0
      /\ handled' \in Nat
      /\ items' \subseteq Offers
      /\ thread' = "running" => crawl' \in {"spider", "late"}
      /\ runNo' \in 0..MaxAttempts
  BY CrawlConstants
     DEF Crawl!StartSource, Crawl!TimeLimit, Crawl!SpiderEnds, Crawl!TryAgain, Crawl!Runs,
         Crawl!StageEnds, CrawlInv, CrawlTyped, Crawl!TypeOK, Queued
<1>2. Queued'
  BY <1>1, QueuedStays DEF CrawlInv
<1>3. Counted'
  BY <1>1, CountedStays DEF CrawlInv
<1>4. CrawlTyped'
  <2>1. Crawl!TypeOK'
    BY <1>1 DEF CrawlInv, CrawlTyped, Crawl!TypeOK
  <2> QED BY <1>1, <2>1 DEF CrawlInv, CrawlTyped
<1> QED BY <1>2, <1>3, <1>4 DEF CrawlInv

\* A posting that was inserted was stored by nobody before, so it is a new one of mine.
LEMMA CrawlStores == ASSUME CrawlInv, Crawl!StoreOne PROVE CrawlInv'
<1> USE DEF Crawl!sourceVars
<1>1. PICK p \in items : \E a \in Crawl!Answers(p) :
        /\ items' = items \ {p}
        /\ Crawl!Stored(p, a)
        /\ new' = new + Crawl!One(Crawl!IsNew(a))
        /\ duplicate' = duplicate + Crawl!One(a = "duplicate")
        /\ handled' = handled + Crawl!One(Crawl!IsHandled(a))
        /\ mine' = IF a = "inserted" THEN mine \cup {p} ELSE mine
  BY DEF Crawl!StoreOne
<1>2. /\ crawl = "items"
      /\ UNCHANGED <<enabled, disabled, crawl, todo, runNo, thread, outcome, single>>
  BY DEF Crawl!StoreOne
<1>3. /\ IsFiniteSet(mine) /\ new = Cardinality(mine) /\ mine \subseteq jdRaw
      /\ jdRaw \subseteq Offers /\ items \subseteq Offers
      /\ new \in Nat /\ duplicate \in Nat /\ handled \in Nat
      /\ IsFiniteSet(Crawl!Reported)
      /\ Cardinality(Crawl!Reported) + handled = new + duplicate
  BY <1>2 DEF CrawlInv, CrawlTyped, Crawl!TypeOK, Counted
<1>4. /\ Cardinality(Crawl!Reported) \in Nat
      /\ Crawl!Reported' = Crawl!Reported
  BY <1>2, <1>3, FS_CardinalityType DEF Crawl!Reported
<1>5. /\ IsFiniteSet(mine') /\ new' = Cardinality(mine') /\ mine' \subseteq jdRaw'
      /\ jdRaw' \subseteq Offers /\ items' \subseteq Offers
      /\ new' \in Nat /\ duplicate' \in Nat /\ handled' \in Nat
      /\ Cardinality(Crawl!Reported) + handled' = new' + duplicate'
  <2>1. PICK a \in Crawl!Answers(p) :
          /\ items' = items \ {p}
          /\ Crawl!Stored(p, a)
          /\ new' = new + Crawl!One(Crawl!IsNew(a))
          /\ duplicate' = duplicate + Crawl!One(a = "duplicate")
          /\ handled' = handled + Crawl!One(Crawl!IsHandled(a))
          /\ mine' = IF a = "inserted" THEN mine \cup {p} ELSE mine
    BY <1>1
  <2>2. /\ a \in {"inserted", "duplicate", "failed"}
        /\ a = "inserted" => p \notin jdRaw
        /\ p \in Offers
    BY <1>3 DEF Crawl!Answers
  <2>3. ASSUME a = "inserted"
        PROVE  /\ new' = new + 1 /\ duplicate' = duplicate /\ handled' = handled + 1
               /\ mine' = mine \cup {p} /\ p \notin mine /\ jdRaw' = jdRaw \cup {p}
    BY <1>3, <2>1, <2>2, <2>3
       DEF Crawl!Stored, Crawl!One, Crawl!IsNew, Crawl!IsHandled
  <2>4. ASSUME a = "duplicate"
        PROVE  /\ new' = new /\ duplicate' = duplicate + 1 /\ handled' = handled + 1
               /\ mine' = mine /\ jdRaw' = jdRaw
    BY <1>3, <2>1, <2>4 DEF Crawl!Stored, Crawl!One, Crawl!IsNew, Crawl!IsHandled
  <2>5. ASSUME a = "failed"
        PROVE  /\ new' = new /\ duplicate' = duplicate /\ handled' = handled
               /\ mine' = mine /\ jdRaw' = jdRaw
    BY <1>3, <2>1, <2>5 DEF Crawl!Stored, Crawl!One, Crawl!IsNew, Crawl!IsHandled
  <2>6. items' \subseteq Offers
    BY <1>3, <2>1
  <2>7. CASE a = "inserted"
    <3>1. IsFiniteSet(mine') /\ Cardinality(mine') = Cardinality(mine) + 1
      BY <1>3, <2>3, <2>7, FS_AddElement
    <3>2. mine' \subseteq jdRaw' /\ jdRaw' \subseteq Offers
      BY <1>3, <2>2, <2>3, <2>7
    <3> QED BY <1>3, <1>4, <2>3, <2>6, <2>7, <3>1, <3>2
  <2>8. CASE a = "duplicate"
    BY <1>3, <1>4, <2>4, <2>6, <2>8
  <2>9. CASE a = "failed"
    BY <1>3, <1>4, <2>5, <2>6, <2>9
  <2> QED BY <2>2, <2>7, <2>8, <2>9
<1>6. Queued'
  BY <1>2, QueuedStays DEF CrawlInv, Queued
<1>7. Counted'
  BY <1>2, <1>3, <1>4, <1>5 DEF Counted
<1>8. CrawlTyped'
  <2>1. Crawl!TypeOK'
    BY <1>2, <1>5 DEF CrawlInv, CrawlTyped, Crawl!TypeOK
  <2> QED BY <1>2, <1>5, <2>1 DEF CrawlInv, CrawlTyped
<1> QED BY <1>6, <1>7, <1>8 DEF CrawlInv

\* Administrators change the sources and crawl one of them.
LEMMA CrawlBeside ==
  ASSUME CrawlInv, Crawl!SourceChanges \/ Crawl!CrawlSingle \/ Crawl!StoreSingle
  PROVE  CrawlInv'
<1> USE DEF Crawl!sourceVars, Crawl!countVars
<1>1. /\ UNCHANGED <<crawl, todo, runNo, thread, items, outcome, new, duplicate, handled,
                     mine>>
      /\ enabled' \subseteq Sources /\ disabled' \subseteq Sources
  BY DEF Crawl!SourceChanges, Crawl!CrawlSingle, Crawl!StoreSingle, CrawlInv, CrawlTyped,
         Crawl!TypeOK
<1>2. /\ jdRaw \subseteq jdRaw' /\ jdRaw' \subseteq Offers
      /\ single' # <<>> => single'[2] \subseteq Offers
  BY DEF Crawl!SourceChanges, Crawl!CrawlSingle, Crawl!StoreSingle, Crawl!Stored, CrawlInv,
         CrawlTyped, Crawl!TypeOK
<1>3. Queued'
  BY <1>1, QueuedStays DEF CrawlInv, Queued
<1>4. Counted'
  BY <1>1, CountedStays DEF CrawlInv
<1>5. CrawlTyped'
  <2>1. Crawl!TypeOK'
    BY <1>1, <1>2 DEF CrawlInv, CrawlTyped, Crawl!TypeOK
  <2> QED BY <1>1, <1>2, <2>1 DEF CrawlInv, CrawlTyped
<1> QED BY <1>3, <1>4, <1>5 DEF CrawlInv

LEMMA CrawlRestarts == ASSUME CrawlInv, Crawl!Redelivered PROVE CrawlInv'
<1> USE DEF Crawl!sourceVars
<1>1. DOMAIN outcome' = {} /\ todo' = <<>> /\ crawl' = "config" /\ thread' = "none"
  BY DEF Crawl!Redelivered
<1>2. CrawlTyped'
  BY <1>1, CrawlConstants DEF Crawl!Redelivered, CrawlInv, CrawlTyped, Crawl!TypeOK
<1>3. Queued'
  BY <1>1 DEF Queued
<1>4. Crawl!Reported' = {}
  BY <1>1 DEF Crawl!Reported
<1>5. Counted'
  BY <1>4, FS_EmptySet DEF Crawl!Redelivered, Counted
<1> QED BY <1>2, <1>3, <1>5 DEF CrawlInv

LEMMA CrawlStays == CrawlInv /\ [Crawl!Next]_Crawl!vars => CrawlInv'
<1> SUFFICES ASSUME CrawlInv, [Crawl!Next]_Crawl!vars PROVE CrawlInv'
  OBVIOUS
<1>1. CASE UNCHANGED Crawl!vars
  BY <1>1 DEF Crawl!vars, Crawl!sourceVars, Crawl!countVars, CrawlInv, CrawlTyped,
              Crawl!TypeOK, Queued, Counted, Crawl!Reported
<1> QED BY <1>1, CrawlReads, CrawlReports, CrawlRuns, CrawlStores, CrawlBeside,
           CrawlRestarts DEF Crawl!Next, Crawl!StageStep

LEMMA CrawlInSum ==
    (SumInit => Crawl!Init) /\ ([SumNext]_allVars => [Crawl!Next]_Crawl!vars)
  BY DEF SumInit, SumNext, allVars, crawlVars, Crawl!vars, Crawl!sourceVars,
         Crawl!countVars

LEMMA CrawlHolds == SumSpec => []CrawlInv
<1>1. SumInit => CrawlInv
  BY CrawlInSum, CrawlStarts
<1>2. CrawlInv /\ [SumNext]_allVars => CrawlInv'
  BY CrawlInSum, CrawlStays
<1> QED BY <1>1, <1>2, PTL DEF SumSpec

\* The new postings a crawl reports are rows it stored itself, its sources add up to
\* the new and the duplicate ones, and its spiders run one after the other, for any
\* sources, retries, lost workers and crawls of administrators (execute_crawl).
THEOREM CrawlsAreTold == SumSpec => []CrawlIsTold
<1>1. CrawlInv => CrawlIsTold
  <2> SUFFICES ASSUME CrawlInv PROVE Crawl!CrawlIsTold
    BY DEF CrawlIsTold
  <2>1. Cardinality(Crawl!Reported) \in Nat
    BY FS_CardinalityType DEF CrawlInv, Counted
  <2> QED BY <2>1, CrawlCounts DEF CrawlInv, CrawlTyped, Counted, Crawl!CrawlIsTold
<1> QED BY <1>1, CrawlHolds, PTL

-----------------------------------------------------------------------------
(* Types of the rows of jd_raw.  A row is extracted once by an execution:  *)
(* with the executions that are still going to, the records are no more    *)
(* than the executions.                                                    *)

JdRest ==
    /\ seen \subseteq Texts /\ executions \in 0 .. MaxExecutions
    /\ accepted \in [Executions -> SUBSET (Jds \cup Texts)]
    /\ kept \subseteq Jds /\ rechecked \subseteq Jds /\ shared \subseteq Jds
    /\ unmarked \subseteq Jds

\* The executions that have not looked at row j.
Taking(j) == {x \in Executions : stage[x] = "import" /\ j \in loaded[x]}

ExtractionsBounded ==
    \A j \in Jds : /\ IsFiniteSet(Taking(j))
                   /\ extractions[j] + Cardinality(Taking(j)) <= executions

JdTypes == JdRest /\ ExtractionsBounded

LEMMA JdConstants == TextOf \in [Jds -> Texts] /\ MaxExecutions \in Nat
  BY RecordsAssumptions DEF Flow!JdAssumption

LEMMA JdTypesStart == Flow!Init => JdTypes
<1> SUFFICES ASSUME Flow!Init PROVE JdTypes
  OBVIOUS
<1>1. JdRest
  BY JdConstants DEF Flow!Init, JdRest
<1>2. \A j \in Jds : Taking(j) = {} /\ extractions[j] = 0 /\ executions = 0
  BY DEF Flow!Init, Taking
<1>3. ExtractionsBounded
  BY <1>2, FS_EmptySet DEF ExtractionsBounded
<1> QED BY <1>1, <1>3 DEF JdTypes

LEMMA JdRestStays ==
  ASSUME JdTyped, JdRest, [Flow!Next]_Flow!jdVars PROVE JdRest'
<1> USE JdConstants DEF JdTyped, JdRest
<1>1. CASE UNCHANGED Flow!jdVars
  BY <1>1 DEF Flow!jdVars
<1>2. ASSUME NEW j \in Jds, Flow!CrawlOne(j) PROVE JdRest'
  BY <1>2 DEF Flow!CrawlOne
<1>3. ASSUME NEW t \in Texts, Flow!SeenExpires(t) PROVE JdRest'
  BY <1>3 DEF Flow!SeenExpires
<1>4. ASSUME NEW x \in Executions,
             Flow!DedupLoad(x) \/ Flow!CleanLoad(x) \/ Flow!ImportLoad(x)
      PROVE  JdRest'
  BY <1>4 DEF Flow!DedupLoad, Flow!CleanLoad, Flow!ImportLoad, Flow!Load, Flow!InStatus,
              Flow!ToClean
<1>5. ASSUME NEW x \in Executions, Flow!DedupWithoutRedis(x) \/ Flow!DedupAccept(x)
      PROVE  JdRest'
  BY <1>5 DEF Flow!DedupWithoutRedis, Flow!DedupAccept
<1>6. ASSUME NEW x \in Executions,
             Flow!DedupCommit(x) \/ Flow!CleanCommit(x) \/ Flow!ImportMark(x) \/ Flow!Lost(x)
      PROVE  JdRest'
  BY <1>6 DEF Flow!DedupCommit, Flow!CleanCommit, Flow!ImportMark, Flow!Lost, Flow!Finish
<1>7. ASSUME NEW x \in Executions, Flow!DedupFuzzy(x) PROVE JdRest'
  BY <1>7 DEF Flow!DedupFuzzy
<1>8. ASSUME NEW x \in Executions, NEW j \in Jds,
             \/ Flow!DedupLook(x, j) \/ Flow!ImportReuse(x, j)
             \/ Flow!ImportExtract(x, j) \/ Flow!ImportFails(x, j)
      PROVE  JdRest'
  BY <1>8 DEF Flow!DedupLook, Flow!ImportReuse, Flow!ImportExtract, Flow!ImportFails
<1> QED BY <1>1, <1>2, <1>3, <1>4, <1>5, <1>6, <1>7, <1>8
        DEF Flow!Next, Flow!ExecutionStep

\* A step that extracts nothing, and makes no execution of import begin.
LEMMA TakesNothing ==
  ASSUME ExtractionsBounded, JdTyped, JdRest, NEW j \in Jds,
         extractions'[j] = extractions[j], executions' = executions \/ executions' = executions + 1,
         Taking(j)' \subseteq Taking(j)
  PROVE  IsFiniteSet(Taking(j)') /\ extractions'[j] + Cardinality(Taking(j)') <= executions'
<1>1. /\ IsFiniteSet(Taking(j)) /\ extractions[j] \in Nat /\ executions \in Nat
      /\ extractions[j] + Cardinality(Taking(j)) <= executions
  BY DEF ExtractionsBounded, JdTyped, JdRest
<1>2. /\ IsFiniteSet(Taking(j)') /\ Cardinality(Taking(j)') <= Cardinality(Taking(j))
  BY <1>1, FS_Subset
<1>3. Cardinality(Taking(j)') \in Nat /\ Cardinality(Taking(j)) \in Nat
  BY <1>1, <1>2, FS_CardinalityType
<1> QED BY <1>1, <1>2, <1>3

LEMMA ExtractionsStay ==
  ASSUME JdTyped, JdRest, ExtractionsBounded, [Flow!Next]_Flow!jdVars
  PROVE  ExtractionsBounded'
<1> SUFFICES ASSUME NEW j \in Jds
             PROVE  /\ IsFiniteSet(Taking(j)')
                    /\ extractions'[j] + Cardinality(Taking(j)') <= executions'
  BY DEF ExtractionsBounded
<1>1. /\ IsFiniteSet(Taking(j)) /\ extractions[j] \in Nat /\ executions \in Nat
      /\ extractions[j] + Cardinality(Taking(j)) <= executions
      /\ Cardinality(Taking(j)) \in Nat
  BY FS_CardinalityType DEF ExtractionsBounded, JdTyped, JdRest
<1>2. CASE /\ extractions'[j] = extractions[j]
           /\ executions' = executions \/ executions' = executions + 1
           /\ Taking(j)' \subseteq Taking(j)
  BY <1>2, TakesNothing
<1>3. CASE UNCHANGED Flow!jdVars \/ (\E k \in Jds : Flow!CrawlOne(k))
           \/ (\E t \in Texts : Flow!SeenExpires(t))
  BY <1>2, <1>3 DEF Flow!jdVars, Flow!CrawlOne, Flow!SeenExpires, Taking
<1>4. ASSUME NEW x \in Executions,
             \/ Flow!DedupWithoutRedis(x) \/ Flow!DedupAccept(x) \/ Flow!DedupFuzzy(x)
             \/ Flow!DedupCommit(x) \/ Flow!CleanCommit(x) \/ Flow!ImportMark(x)
             \/ Flow!Lost(x)
             \/ \E k \in Jds : Flow!DedupLook(x, k) \/ Flow!ImportReuse(x, k)
      PROVE  /\ extractions'[j] = extractions[j] /\ executions' = executions
             /\ Taking(j)' \subseteq Taking(j)
  <2>1. extractions' = extractions /\ executions' = executions
    BY <1>4 DEF Flow!DedupWithoutRedis, Flow!DedupAccept, Flow!DedupFuzzy, Flow!DedupCommit,
                Flow!CleanCommit, Flow!ImportMark, Flow!Lost, Flow!DedupLook, Flow!ImportReuse
  <2>2. \A y \in Executions :
            /\ stage'[y] = "import" => stage[y] = "import"
            /\ loaded'[y] \subseteq loaded[y]
    BY <1>4 DEF Flow!DedupWithoutRedis, Flow!DedupAccept, Flow!DedupFuzzy, Flow!DedupCommit,
                Flow!CleanCommit, Flow!ImportMark, Flow!Lost, Flow!DedupLook,
                Flow!ImportReuse, Flow!Finish, JdTyped
  <2> QED BY <2>1, <2>2 DEF Taking
<1>5. ASSUME NEW x \in Executions,
             Flow!DedupLoad(x) \/ Flow!CleanLoad(x) \/ Flow!ImportLoad(x)
      PROVE  /\ IsFiniteSet(Taking(j)')
             /\ extractions'[j] + Cardinality(Taking(j)') <= executions'
  <2>1. extractions' = extractions /\ executions' = executions + 1
    BY <1>5 DEF Flow!DedupLoad, Flow!CleanLoad, Flow!ImportLoad, Flow!Load
  <2>2. \A y \in Executions \ {x} : stage'[y] = stage[y] /\ loaded'[y] = loaded[y]
    BY <1>5 DEF Flow!DedupLoad, Flow!CleanLoad, Flow!ImportLoad, Flow!Load, JdTyped
  <2>3. Taking(j)' \subseteq Taking(j) \cup {x}
    BY <2>2 DEF Taking
  <2>4. /\ IsFiniteSet(Taking(j) \cup {x})
        /\ Cardinality(Taking(j) \cup {x}) <= Cardinality(Taking(j)) + 1
        /\ Cardinality(Taking(j) \cup {x}) \in Nat
    <3>1. /\ IsFiniteSet(Taking(j) \cup {x})
          /\ Cardinality(Taking(j) \cup {x})
               = IF x \in Taking(j) THEN Cardinality(Taking(j)) ELSE Cardinality(Taking(j)) + 1
      BY <1>1, FS_AddElement
    <3> QED BY <1>1, <3>1
  <2>5. /\ IsFiniteSet(Taking(j)')
        /\ Cardinality(Taking(j)') <= Cardinality(Taking(j) \cup {x})
    BY <2>3, <2>4, FS_Subset
  <2>6. Cardinality(Taking(j)') \in Nat
    BY <2>5, FS_CardinalityType
  <2> QED BY <1>1, <2>1, <2>4, <2>5, <2>6
<1>6. ASSUME NEW x \in Executions, NEW k \in Jds,
             Flow!ImportExtract(x, k) \/ Flow!ImportFails(x, k)
      PROVE  /\ IsFiniteSet(Taking(j)')
             /\ extractions'[j] + Cardinality(Taking(j)') <= executions'
  <2>1. /\ executions' = executions /\ stage' = stage /\ stage[x] = "import"
        /\ k \in loaded[x] /\ loaded' = [loaded EXCEPT ![x] = @ \ {k}]
        /\ extractions' = extractions \/ extractions' = [extractions EXCEPT ![k] = @ + 1]
    BY <1>6 DEF Flow!ImportExtract, Flow!ImportFails
  <2>2. Taking(j)' = IF j = k THEN Taking(j) \ {x} ELSE Taking(j)
    BY <2>1 DEF Taking, JdTyped
  <2>3. CASE j # k
    BY <1>1, <2>1, <2>2, <2>3 DEF JdTyped
  <2>4. CASE j = k
    <3>1. x \in Taking(j)
      BY <2>1, <2>4 DEF Taking
    <3>2. /\ IsFiniteSet(Taking(j)')
          /\ Cardinality(Taking(j)') = Cardinality(Taking(j)) - 1
      BY <1>1, <2>2, <2>4, <3>1, FS_RemoveElement
    <3>3. extractions'[j] \in {extractions[j], extractions[j] + 1}
      BY <2>1, <2>4 DEF JdTyped
    <3> QED BY <1>1, <2>1, <3>2, <3>3
  <2> QED BY <2>3, <2>4
<1> QED BY <1>2, <1>3, <1>4, <1>5, <1>6 DEF Flow!Next, Flow!ExecutionStep

LEMMA JdTypesHold == SumSpec => []JdTypes
<1>1. SumInit => JdTypes
  BY JdInSum, JdTypesStart
<1>2. JdInv /\ JdTypes /\ [SumNext]_allVars => JdTypes'
  BY JdInSum, JdRestStays, ExtractionsStay DEF JdTypes, JdInv, JdHeld
<1> QED BY <1>1, <1>2, JdHolds, PTL DEF SumSpec

LEMMA JdFlowTypes == JdInv /\ JdTypes => Flow!TypeOK
<1> SUFFICES ASSUME JdInv, JdTypes PROVE Flow!TypeOK
  OBVIOUS
<1>1. JdTyped /\ JdRest /\ ExtractionsBounded
  BY DEF JdInv, JdHeld, JdTypes
<1>2. extractions \in [Jds -> 0 .. MaxExecutions]
  <2>1. ASSUME NEW j \in Jds PROVE extractions[j] \in 0 .. MaxExecutions
    <3>1. IsFiniteSet(Taking(j)) /\ Cardinality(Taking(j)) \in Nat
      BY <1>1, FS_CardinalityType DEF ExtractionsBounded
    <3> QED BY <1>1, <3>1, JdConstants DEF ExtractionsBounded, JdTyped, JdRest
  <2> QED BY <1>1, <2>1 DEF JdTyped
<1> QED BY <1>1, <1>2 DEF Flow!TypeOK, JdTyped, JdRest

=============================================================================
