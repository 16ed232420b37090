------------------------------ MODULE Sources ------------------------------
(***************************************************************************)
(* The row of one data source.  Postings arrive and are worked on; every   *)
(* listing of the sources refreshes the statistics from jd_raw; every run  *)
(* that ends scores the sources and pauses the bad ones; administrators    *)
(* switch the source and import postings by hand.  All of them load the    *)
(* row first, and the ORM writes the columns that differ from that copy.   *)
(***************************************************************************)
EXTENDS Integers

CONSTANTS
    Workers,   \* sessions that may be under way at the same time
    MaxRows,   \* bound: postings crawled
    MaxExtracted, \* bound: postings extracted, counting again those taken back
    MaxByHand, \* bound: postings imported by hand
    MaxJobs    \* bound: sessions in all

SourcesAssumption == MaxRows \in Nat /\ MaxExtracted \in Nat /\ MaxByHand \in Nat /\ MaxJobs \in Nat

Tasks == {"sync", "run", "import", "resume", "delete", "put"}

VARIABLES
    row,        \* the committed row
    postings,   \* jd_raw of its platform, by status
    byHand,     \* jd_raw of its name: postings imported by hand
    task,       \* what each session does
    copy,       \* the row as it loaded it
    counted,    \* the postings as it counted them
    extracted,  \* history: postings ever extracted
    jobs        \* history: sessions so far

vars == <<row, postings, byHand, task, copy, counted, extracted, jobs>>

\* Columns: status, config (its disabled and auto_paused_reason), the two
\* totals, and the counts that quality and duplicate_rate are quotients of.
Columns == {"status", "config", "total", "valid", "rates"}
Switch == [disabled : BOOLEAN, autoPaused : BOOLEAN]
Row == [status : {"active", "paused", "inactive"}, config : Switch,
        total : Nat, valid : Nat, rates : [good : Nat, twice : Nat]]

NewRow == [status |-> "active", config |-> [disabled |-> FALSE, autoPaused |-> FALSE],
           total |-> 0, valid |-> 0, rates |-> [good |-> 0, twice |-> 0]]

\* raw stands for cleaned as well; paused, above, for error.
Postings == [raw : Nat, duplicate : Nat, extracted : Nat]
NoPostings == [raw |-> 0, duplicate |-> 0, extracted |-> 0]
All(p) == p.raw + p.duplicate + p.extracted

Init ==
    /\ row = NewRow /\ postings = NoPostings /\ byHand = 0
    /\ task = [w \in Workers |-> "none"]
    /\ copy = [w \in Workers |-> NewRow]
    /\ counted = [w \in Workers |-> NoPostings]
    /\ extracted = 0 /\ jobs = 0

\* A commit of w that leaves its object as new.
Merged(w, new) == [c \in Columns |-> IF new[c] # copy[w][c] THEN new[c] ELSE row[c]]
Flush(w, new) == row' = Merged(w, new)

Load(w) == copy' = [copy EXCEPT ![w] = row]
Goto(w, t) == task' = [task EXCEPT ![w] = t]

End(w) ==
    /\ Goto(w, "none")
    /\ copy' = [copy EXCEPT ![w] = NewRow]
    /\ counted' = [counted EXCEPT ![w] = NoPostings]

-----------------------------------------------------------------------------
Crawled ==
    /\ All(postings) < MaxRows
    /\ postings' = [postings EXCEPT !.raw = @ + 1]
    /\ UNCHANGED <<row, byHand, task, copy, counted, extracted, jobs>>

\* The stages of a run; an execution of clean that loaded the row before may
\* take an extracted posting back.
Worked ==
    /\ \/ /\ postings.raw > 0
          /\ \/ postings' = [postings EXCEPT !.raw = @ - 1, !.duplicate = @ + 1]
                /\ UNCHANGED extracted
             \/ extracted < MaxExtracted
                /\ postings' = [postings EXCEPT !.raw = @ - 1, !.extracted = @ + 1]
                /\ extracted' = extracted + 1
       \/ /\ postings.extracted > 0
          /\ postings' = [postings EXCEPT !.extracted = @ - 1, !.raw = @ + 1]
          /\ UNCHANGED extracted
    /\ UNCHANGED <<row, byHand, task, copy, counted, jobs>>

\* A session that begins by loading the row.
Begin(w) ==
    /\ task[w] = "none" /\ jobs < MaxJobs
    /\ jobs' = jobs + 1
    /\ \E t \in Tasks \ {"sync"} : Goto(w, t)
    /\ Load(w)
    /\ UNCHANGED <<row, postings, byHand, counted, extracted>>

\* sync_source_quality counts first and loads each source afterwards.
SyncCounts(w) ==
    /\ task[w] = "none" /\ jobs < MaxJobs
    /\ jobs' = jobs + 1
    /\ Goto(w, "counted")
    /\ counted' = [counted EXCEPT ![w] = postings]
    /\ UNCHANGED <<row, postings, byHand, copy, extracted>>

SyncLoads(w) ==
    /\ task[w] = "counted"
    /\ Goto(w, "sync")
    /\ Load(w)
    /\ UNCHANGED <<row, postings, byHand, counted, extracted, jobs>>

\* A source without postings is only emptied, and only when it is active.
Refreshed(r, p) ==
    IF All(p) = 0
    THEN IF r.status = "active" THEN [r EXCEPT !.total = 0, !.valid = 0] ELSE r
    ELSE [r EXCEPT !.total = All(p), !.valid = p.extracted,
                   !.rates = [good |-> p.extracted, twice |-> p.duplicate]]

Sync(w) ==
    /\ task[w] = "sync"
    /\ Flush(w, Refreshed(copy[w], counted[w]))
    /\ End(w)
    /\ UNCHANGED <<postings, byHand, extracted, jobs>>

\* compute_authority below 0.3: half the quality, a quarter valid of total, a
\* quarter what is no duplicate.
AtLeastOne(n) == IF n = 0 THEN 1 ELSE n

LowAuthority(r) ==
    LET n == AtLeastOne(r.rates.good + r.rates.twice)
        t == AtLeastOne(r.total)
    IN  50 * r.rates.good * t + 25 * r.valid * n + 25 * (n - r.rates.twice) * t < 30 * n * t

HasRows(r) == r.total > 0
HasHistory(r) == r.valid > 0

Paused(r) == [r EXCEPT !.status = "paused", !.config.autoPaused = TRUE]

\* Writing the score of every source locks their rows until the commit.  What
\* is paused is active now, but judged and written by the copy.
CompleteRun(w) ==
    /\ task[w] = "run"
    /\ IF row.status = "active" /\ LowAuthority(copy[w]) /\ HasHistory(copy[w])
       THEN Flush(w, Paused(copy[w]))
       ELSE UNCHANGED row
    /\ End(w)
    /\ UNCHANGED <<postings, byHand, extracted, jobs>>

Resumed(r) == [r EXCEPT !.status = "active", !.config.autoPaused = FALSE]

Resume(w) ==
    /\ task[w] = "resume"
    /\ IF copy[w].status = "active" THEN UNCHANGED row
       ELSE Flush(w, Resumed(copy[w]))
    /\ End(w)
    /\ UNCHANGED <<postings, byHand, extracted, jobs>>

Deleted(r) == [r EXCEPT !.status = "inactive", !.config.disabled = TRUE]

Delete(w) ==
    /\ task[w] = "delete"
    /\ IF copy[w].status = "inactive" THEN UNCHANGED row
       ELSE Flush(w, Deleted(copy[w]))
    /\ End(w)
    /\ UNCHANGED <<postings, byHand, extracted, jobs>>

\* PUT writes what the body holds, whatever was loaded.
Put(w) ==
    /\ task[w] = "put"
    /\ \/ \E s \in {"active", "paused", "inactive"} : row' = [row EXCEPT !.status = s]
       \/ \E off \in BOOLEAN :
            row' = [row EXCEPT !.config = [disabled |-> off, autoPaused |-> FALSE]]
    /\ End(w)
    /\ UNCHANGED <<postings, byHand, extracted, jobs>>

\* A posting that fails rolls back those before it and expires the row, so the
\* import fails when it comes to the totals, unless it stored nothing.
CountedAnyway(inserted, failed) == inserted
Counted(inserted, failed) == IF failed THEN 0 ELSE inserted

Added(r, n) == [r EXCEPT !.total = @ + n, !.valid = @ + n]

ManualImport(w) ==
    /\ task[w] = "import"
    /\ \E inserted \in 0..(MaxByHand - byHand) : \E failed \in BOOLEAN :
          /\ byHand' = byHand + (IF failed THEN 0 ELSE inserted)
          /\ Flush(w, Added(copy[w], Counted(inserted, failed)))
    /\ End(w)
    /\ UNCHANGED <<postings, extracted, jobs>>

SessionFails(w) ==
    /\ task[w] # "none"
    /\ End(w)
    /\ UNCHANGED <<row, postings, byHand, extracted, jobs>>

Session(w) ==
    \/ Begin(w) \/ SyncCounts(w) \/ SyncLoads(w) \/ Sync(w) \/ CompleteRun(w) \/ Resume(w)
    \/ Delete(w) \/ Put(w) \/ ManualImport(w) \/ SessionFails(w)

Next == Crawled \/ Worked \/ \E w \in Workers : Session(w)

Spec == Init /\ [][Next]_vars

-----------------------------------------------------------------------------
TypeOK ==
    /\ row \in Row /\ copy \in [Workers -> Row]
    /\ postings \in Postings /\ counted \in [Workers -> Postings]
    /\ task \in [Workers -> Tasks \cup {"none", "counted"}]
    /\ byHand \in Nat /\ extracted \in Nat /\ jobs \in Nat

\* The statistics of a source never promise postings that are not stored: the
\* total is at most the rows of jd_raw and the imported ones, the valid ones
\* at most those ever extracted and the imported ones, although both are
\* computed from counts and copies that have aged, and an import that fails
\* halfway has already counted (sync_source_quality, manual_import_jds).
StatsBounded ==
    /\ row.total <= All(postings) + byHand
    /\ row.valid <= extracted + byHand

\* A run that ends pauses a source only if a posting of it has been extracted
\* or imported by hand, so a new source is not paused before its first
\* extraction (complete_run); and only an administrator activates a source
\* again, whatever older copies of its row are written meanwhile.
PausedAndRevivedRightly ==
    [][/\ ~row.config.autoPaused /\ row'.config.autoPaused => extracted + byHand > 0
       /\ row.status # "active" /\ row'.status = "active" =>
            \E w \in Workers : task[w] \in {"resume", "put"} /\ task'[w] = "none"]_vars

=============================================================================
