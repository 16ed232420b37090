--------------------------- MODULE AccountsProofs ---------------------------
(***************************************************************************)
(* The account invariants for any number of concurrent requests, any       *)
(* threshold and any lock time.  The inductive invariant says what a       *)
(* loaded copy may still be trusted for: a request that nobody overlapped  *)
(* has the current row, and every copy is a row that was once committed.   *)
(***************************************************************************)
EXTENDS Accounts, TLAPS

\* Copies agree with themselves, and do not lock beyond what now allows.
CopiesSound ==
    \A r \in Requests :
        /\ copy[r].active = ~copy[r].disabled
        /\ copy[r].attempts <= failures
        /\ pc[r] = "loaded" /\ op[r] = "login" => copy[r].locked <= now

\* A request that nothing overlapped is alone and has the current row.
CleanIsFresh ==
    \A r \in Requests :
        pc[r] # "idle" /\ ~overlapped[r] =>
            /\ \A q \in Requests \ {r} : pc[q] = "idle"
            /\ pc[r] = "loaded" => copy[r] = row

RowSound ==
    /\ ActiveIffEnabled
    /\ row.attempts <= failures
    /\ LockEarned
    /\ row.locked <= now + LockTime

AccInv == TypeOK /\ CopiesSound /\ CleanIsFresh /\ RowSound /\ SequentialFailuresLock

-----------------------------------------------------------------------------
\* What a commit leaves in the row.
LEMMA MergedAccount ==
    ASSUME TypeOK, NEW r \in Requests, NEW new \in Row
    PROVE  /\ Merged(r, new) \in Row
           /\ Merged(r, new).attempts =
                IF new.attempts = copy[r].attempts THEN row.attempts ELSE new.attempts
           /\ Merged(r, new).locked =
                IF new.locked = copy[r].locked THEN row.locked ELSE new.locked
           /\ Merged(r, new).active =
                IF new.active = copy[r].active THEN row.active ELSE new.active
           /\ Merged(r, new).disabled =
                IF new.disabled = copy[r].disabled THEN row.disabled ELSE new.disabled
  BY DEF TypeOK, Merged, Row, Fields

LEMMA NewRowType == NewRow \in Row
  BY DEF NewRow, Row

\* A login that fails: what it writes.
LEMMA FailedRow ==
    ASSUME TypeOK, NEW r \in Requests, LoginFails(r)
    PROVE  /\ row' \in Row
           /\ row'.attempts = copy[r].attempts + 1
           /\ row'.active = row.active /\ row'.disabled = row.disabled
           /\ row'.locked \in {row.locked, now + LockTime}
           /\ copy[r].attempts + 1 < MaxFailed => row'.locked = row.locked
           /\ copy[r].attempts + 1 >= MaxFailed =>
                row'.locked = IF now + LockTime = copy[r].locked THEN row.locked
                              ELSE now + LockTime
<1> DEFINE new == [copy[r] EXCEPT !.attempts = copy[r].attempts + 1,
                                  !.locked = IF Locks(copy[r].attempts + 1)
                                             THEN now + LockTime ELSE @]
<1>1. copy[r] \in Row /\ now \in Nat /\ LockTime \in Nat /\ MaxFailed \in Nat
  BY AccountsAssumption DEF TypeOK
<1>2. new \in Row
  <2>1. (IF Locks(copy[r].attempts + 1) THEN now + LockTime ELSE copy[r].locked) \in Nat
    BY <1>1 DEF Row
  <2>2. copy[r].attempts + 1 \in Nat
    BY <1>1 DEF Row
  <2> QED BY <1>1, <2>1, <2>2 DEF Row
<1>3. row' = Merged(r, new)
  BY DEF LoginFails, Commit
<1>4. /\ new.attempts = copy[r].attempts + 1
      /\ new.active = copy[r].active /\ new.disabled = copy[r].disabled
      /\ new.locked = IF copy[r].attempts + 1 >= MaxFailed THEN now + LockTime
                      ELSE copy[r].locked
  BY <1>1 DEF Locks, Row
<1>5. copy[r].attempts + 1 # copy[r].attempts /\ copy[r].attempts \in Nat
  BY <1>1 DEF Row
<1> HIDE DEF new
<1> QED BY <1>1, <1>2, <1>3, <1>4, <1>5, MergedAccount

\* A request that clears the counter and the lock: what it writes.
LEMMA ClearedRow ==
    ASSUME TypeOK, NEW r \in Requests, Commit(r, Cleared(copy[r]))
    PROVE  /\ row' \in Row
           /\ row'.active = row.active /\ row'.disabled = row.disabled
           /\ row'.attempts = IF copy[r].attempts = 0 THEN row.attempts ELSE 0
           /\ row'.locked = IF copy[r].locked = 0 THEN row.locked ELSE 0
<1>1. Cleared(copy[r]) \in Row /\ copy[r] \in Row
  BY DEF TypeOK, Cleared, Row
<1>2. /\ Cleared(copy[r]).attempts = 0 /\ Cleared(copy[r]).locked = 0
      /\ Cleared(copy[r]).active = copy[r].active
      /\ Cleared(copy[r]).disabled = copy[r].disabled
  BY <1>1 DEF Cleared, Row
<1> QED BY <1>1, <1>2, MergedAccount DEF Commit

\* Administration of the account: what it writes, both columns together.
LEMMA ActivatedRow ==
    ASSUME TypeOK, CopiesSound, ActiveIffEnabled,
           NEW r \in Requests, NEW active \in BOOLEAN,
           Commit(r, Activated(copy[r], active))
    PROVE  /\ row' \in Row
           /\ row'.attempts = row.attempts /\ row'.locked = row.locked
           /\ row'.active = ~row'.disabled
<1>1. copy[r] \in Row /\ copy[r].active = ~copy[r].disabled
  BY DEF TypeOK, CopiesSound
<1>2. Activated(copy[r], active) \in Row
  BY <1>1 DEF Activated, Row
<1>3. /\ Activated(copy[r], active).attempts = copy[r].attempts
      /\ Activated(copy[r], active).locked = copy[r].locked
      /\ active = copy[r].active => Activated(copy[r], active) = copy[r]
      /\ active # copy[r].active =>
            /\ Activated(copy[r], active).active = active
            /\ Activated(copy[r], active).disabled = ~active
  BY <1>1 DEF Activated, Row
<1>4. row' = Merged(r, Activated(copy[r], active))
  BY DEF Commit
<1>5. /\ row' \in Row
      /\ row'.attempts = row.attempts /\ row'.locked = row.locked
  BY <1>2, <1>3, <1>4, MergedAccount
<1>6. CASE active = copy[r].active
  <2>1. row'.active = row.active /\ row'.disabled = row.disabled
    BY <1>2, <1>3, <1>4, <1>6, MergedAccount
  <2> QED BY <1>5, <2>1 DEF ActiveIffEnabled
<1>7. CASE active # copy[r].active
  <2>1. row'.active = active /\ row'.disabled = ~active
    <3>1. ~active # copy[r].disabled
      BY <1>1, <1>7 DEF Row
    <3> QED BY <1>2, <1>3, <1>4, <1>7, <3>1, MergedAccount
  <2> QED BY <1>5, <2>1
<1> QED BY <1>6, <1>7

LEMMA DeletedRow ==
    ASSUME TypeOK, CopiesSound, ActiveIffEnabled, NEW r \in Requests, Delete(r)
    PROVE  /\ row' \in Row
           /\ row'.attempts = row.attempts /\ row'.locked = row.locked
           /\ row'.active = ~row'.disabled
<1>1. CASE copy[r].disabled
  BY <1>1 DEF Delete, TypeOK, ActiveIffEnabled
<1>2. CASE ~copy[r].disabled
  <2>1. copy[r] \in Row /\ copy[r].active = TRUE
    BY <1>2 DEF TypeOK, CopiesSound, Row
  <2>2. Activated(copy[r], FALSE) = [copy[r] EXCEPT !.active = FALSE, !.disabled = TRUE]
    BY <2>1 DEF Activated
  <2>3. Commit(r, Activated(copy[r], FALSE))
    BY <1>2, <2>2 DEF Delete
  <2> QED BY <2>3, ActivatedRow
<1> QED BY <1>1, <1>2

-----------------------------------------------------------------------------
\* A step that loads the row.
LEMMA LoadStep ==
    ASSUME AccInv, NEW r \in Requests, NEW what, Load(r, what),
           what \in {"login", "update", "delete", "unlock", "reset", "token"},
           what = "login" => ~LoginBlocked,
           UNCHANGED <<row, now, streak, failures, raced>>,
           issued' \subseteq Tokens, used' \subseteq Tokens, reused' \subseteq Tokens,
           token' \in [Requests -> Tokens]
    PROVE  AccInv'
<1> USE DEF AccInv
<1>1. TypeOK'
  BY DEF TypeOK, Load
<1>2. CopiesSound'
  <2>1. row \in Row /\ row.active = ~row.disabled /\ row.attempts <= failures
    BY DEF TypeOK, RowSound, ActiveIffEnabled
  <2>2. what = "login" => row.locked <= now
    BY DEF LoginBlocked, TypeOK, Row
  <2> QED BY <2>1, <2>2 DEF CopiesSound, Load, TypeOK
<1>3. CleanIsFresh'
  BY DEF CleanIsFresh, Load, Busy, TypeOK
<1>4. RowSound' /\ SequentialFailuresLock'
  BY DEF RowSound, ActiveIffEnabled, LockEarned, SequentialFailuresLock
<1> QED BY <1>1, <1>2, <1>3, <1>4

\* The rest of the invariant once the row of a step that ends r is known.
LEMMA EndStep ==
    ASSUME AccInv, NEW r \in Requests, End(r), pc[r] # "idle",
           now' = now, failures' \in Nat, failures' >= failures,
           streak' \in Nat, raced' \in BOOLEAN,
           row' \in Row, RowSound', SequentialFailuresLock',
           issued' \subseteq Tokens, used' \subseteq Tokens, reused' \subseteq Tokens,
           token' = token
    PROVE  AccInv'
<1> USE DEF AccInv
<1>1. TypeOK'
  BY NewRowType DEF TypeOK, End
<1>2. CopiesSound'
  <2> SUFFICES ASSUME NEW q \in Requests
               PROVE  /\ copy'[q].active = ~copy'[q].disabled
                      /\ copy'[q].attempts <= failures'
                      /\ pc'[q] = "loaded" /\ op'[q] = "login" => copy'[q].locked <= now'
    BY DEF CopiesSound
  <2>1. CASE q = r
    <3>1. copy'[q] = NewRow /\ pc'[q] = "idle"
      BY <2>1 DEF End, TypeOK
    <3>2. NewRow.active = ~NewRow.disabled /\ NewRow.attempts = 0
      BY DEF NewRow
    <3> QED BY <3>1, <3>2
  <2>2. CASE q # r
    <3>1. copy'[q] = copy[q] /\ pc'[q] = pc[q] /\ op'[q] = op[q]
      BY <2>2 DEF End, TypeOK
    <3>2. copy[q].attempts \in Nat /\ copy[q].attempts <= failures /\ failures \in Nat
      BY DEF CopiesSound, TypeOK, Row
    <3> QED BY <3>1, <3>2 DEF CopiesSound
  <2> QED BY <2>1, <2>2
<1>3. CleanIsFresh'
  <2> SUFFICES ASSUME NEW q \in Requests, pc'[q] # "idle", ~overlapped'[q]
               PROVE  /\ \A p \in Requests \ {q} : pc'[p] = "idle"
                      /\ pc'[q] = "loaded" => copy'[q] = row'
    BY DEF CleanIsFresh
  <2>1. q # r /\ pc[q] # "idle" /\ ~overlapped[q]
    BY DEF End, TypeOK
  <2>2. pc[r] = "idle"
    BY <2>1 DEF CleanIsFresh
  <2> QED BY <2>2
<1> QED BY <1>1, <1>2, <1>3

LEMMA AccStep == AccInv /\ [Next]_vars => AccInv'
<1> SUFFICES ASSUME AccInv, [Next]_vars PROVE AccInv'
  OBVIOUS
<1>T. TypeOK /\ CopiesSound /\ CleanIsFresh /\ RowSound /\ SequentialFailuresLock
  BY DEF AccInv
<1>N. /\ MaxFailed \in Nat /\ MaxFailed > 0 /\ LockTime \in Nat /\ LockTime > 0
      /\ now \in Nat /\ streak \in Nat /\ failures \in Nat /\ raced \in BOOLEAN
      /\ row \in Row /\ row.attempts \in Nat /\ row.locked \in Nat
  BY <1>T, AccountsAssumption DEF TypeOK, Row
<1>1. CASE UNCHANGED vars
  BY <1>1, <1>T DEF vars, AccInv, TypeOK, CopiesSound, CleanIsFresh, RowSound,
        ActiveIffEnabled, LockEarned, SequentialFailuresLock
<1>2. ASSUME NEW r \in Requests, RequestStep(r) PROVE AccInv'
  <2>1. CASE LoginLoad(r)
    BY <2>1, <1>T, LoadStep DEF LoginLoad, Keeping, NoToken, TypeOK
  <2>2. ASSUME NEW what \in {"update", "delete", "unlock", "reset"}, AdminLoad(r, what)
        PROVE  AccInv'
    BY <2>2, <1>T, LoadStep DEF AdminLoad, Keeping, NoToken, TypeOK
  <2>3. ASSUME NEW t \in Tokens, TokenLoad(r, t) PROVE AccInv'
    BY <2>3, <1>T, LoadStep DEF TokenLoad, Keeping, TypeOK
  <2>4. CASE LoginFails(r)
    <3>1. /\ End(r) /\ pc[r] = "loaded" /\ now' = now
          /\ streak' = streak + 1 /\ failures' = failures + 1
          /\ raced' = (raced \/ ~Clean(r))
          /\ UNCHANGED <<token, issued, used, reused>>
      BY <2>4 DEF LoginFails, NoToken
    <3>2. copy[r].attempts \in Nat /\ copy[r].attempts <= failures /\ copy[r].locked \in Nat
      BY <1>T DEF TypeOK, CopiesSound, Row
    <3>3. row' \in Row
      BY <2>4, <1>T, FailedRow
    <3>4. RowSound'
      <4>1. ActiveIffEnabled'
        BY <2>4, <1>T, FailedRow DEF RowSound, ActiveIffEnabled
      <4>2. row'.attempts <= failures'
        BY <2>4, <1>T, <1>N, <3>1, <3>2, FailedRow
      <4>3. LockEarned'
        <5>1. CASE copy[r].attempts + 1 >= MaxFailed
          BY <5>1, <3>1, <3>2, <1>N DEF LockEarned
        <5>2. CASE copy[r].attempts + 1 < MaxFailed
          BY <5>2, <2>4, <1>T, <1>N, <3>1, FailedRow DEF RowSound, LockEarned
        <5> QED BY <5>1, <5>2, <3>2, <1>N
      <4>4. row'.locked <= now' + LockTime
        BY <2>4, <1>T, <1>N, <3>1, FailedRow DEF RowSound
      <4> QED BY <4>1, <4>2, <4>3, <4>4 DEF RowSound
    <3>5. SequentialFailuresLock'
      <4> SUFFICES ASSUME ~raced'
                   PROVE  /\ row'.attempts = streak'
                          /\ streak' >= MaxFailed => row'.locked # 0
        BY DEF SequentialFailuresLock
      <4>1. ~raced /\ copy[r] = row
        BY <3>1, <1>T DEF Clean, CleanIsFresh
      <4>2. row.attempts = streak
        BY <4>1, <1>T DEF SequentialFailuresLock
      <4> QED BY <2>4, <1>T, <1>N, <3>1, <4>1, <4>2, FailedRow
    <3> QED BY <3>1, <3>3, <3>4, <3>5, <1>T, <1>N, EndStep DEF TypeOK
  <2>5. ASSUME Commit(r, Cleared(copy[r])), Reset(r), now' = now, failures' = failures,
               pc[r] = "loaded"
        PROVE  row' \in Row /\ RowSound' /\ SequentialFailuresLock'
    <3>1. copy[r] \in Row
      BY <1>T DEF TypeOK
    <3>2. RowSound'
      BY <2>5, <1>T, <1>N, ClearedRow DEF RowSound, ActiveIffEnabled, LockEarned
    <3>3. SequentialFailuresLock'
      <4> SUFFICES ASSUME ~raced' PROVE row'.attempts = 0 /\ streak' = 0
        BY <1>N DEF SequentialFailuresLock
      <4>1. copy[r] = row
        BY <2>5, <1>T DEF Reset, Clean, CleanIsFresh
      <4> QED BY <2>5, <4>1, <1>T, ClearedRow DEF Reset
    <3> QED BY <3>2, <3>3, <2>5, <1>T, ClearedRow
  <2>6. CASE LoginSucceeds(r)
    <3>1. row' \in Row /\ RowSound' /\ SequentialFailuresLock'
      BY <2>5, <2>6 DEF LoginSucceeds
    <3>2. /\ End(r) /\ pc[r] # "idle" /\ now' = now /\ failures' = failures
          /\ streak' = 0 /\ raced' \in BOOLEAN /\ UNCHANGED <<token, issued, used, reused>>
      BY <2>6 DEF LoginSucceeds, Reset, Clean, NoToken
    <3> QED BY <3>1, <3>2, <1>T, <1>N, EndStep DEF TypeOK
  <2>7. CASE UnlockOrReset(r)
    <3>1. row' \in Row /\ RowSound' /\ SequentialFailuresLock'
      BY <2>5, <2>7 DEF UnlockOrReset
    <3>2. /\ End(r) /\ pc[r] # "idle" /\ now' = now /\ failures' = failures
          /\ streak' = 0 /\ raced' \in BOOLEAN /\ UNCHANGED <<token, issued, used, reused>>
      BY <2>7 DEF UnlockOrReset, Reset, Clean, NoToken
    <3> QED BY <3>1, <3>2, <1>T, <1>N, EndStep DEF TypeOK
  <2>8. ASSUME row' \in Row, row'.attempts = row.attempts, row'.locked = row.locked,
               row'.active = ~row'.disabled, End(r), pc[r] # "idle",
               UNCHANGED <<now, streak, failures, raced>>,
               issued' \subseteq Tokens, used' \subseteq Tokens, reused' \subseteq Tokens,
               token' = token
        PROVE  AccInv'
    <3>1. RowSound' /\ SequentialFailuresLock'
      BY <2>8, <1>T, <1>N DEF RowSound, ActiveIffEnabled, LockEarned, SequentialFailuresLock
    <3> QED BY <2>8, <3>1, <1>T, <1>N, EndStep
  <2>9. CASE Update(r)
    <3>1. PICK active \in BOOLEAN : Commit(r, Activated(copy[r], active))
      BY <2>9 DEF Update
    <3>2. row' \in Row /\ row'.attempts = row.attempts /\ row'.locked = row.locked
          /\ row'.active = ~row'.disabled
      BY <3>1, <1>T, ActivatedRow DEF RowSound
    <3> QED BY <2>8, <2>9, <3>2, <1>T DEF Update, Keeping, NoToken, TypeOK
  <2>10. CASE Delete(r)
    <3>1. row' \in Row /\ row'.attempts = row.attempts /\ row'.locked = row.locked
          /\ row'.active = ~row'.disabled
      BY <2>10, <1>T, DeletedRow DEF RowSound
    <3> QED BY <2>8, <2>10, <3>1, <1>T DEF Delete, Keeping, NoToken, TypeOK
  <2>11. CASE TokenReset(r)
    <3>1. row' \in Row /\ RowSound' /\ SequentialFailuresLock'
      BY <2>5, <2>11 DEF TokenReset
    <3>2. /\ pc[r] = "loaded" /\ pc' = [pc EXCEPT ![r] = "used"]
          /\ UNCHANGED <<op, copy, overlapped, token, issued, now, failures>>
          /\ streak' = 0 /\ raced' \in BOOLEAN
          /\ used' \subseteq Tokens /\ reused' \subseteq Tokens
      BY <2>11, <1>T DEF TokenReset, Reset, Clean, TypeOK
    <3>3. TypeOK'
      BY <3>1, <3>2, <1>T DEF TypeOK
    <3>4. CopiesSound'
      BY <3>2, <1>T DEF CopiesSound, TypeOK
    <3>5. CleanIsFresh'
      <4> SUFFICES ASSUME NEW q \in Requests, pc'[q] # "idle", ~overlapped'[q]
                   PROVE  /\ \A p \in Requests \ {q} : pc'[p] = "idle"
                          /\ pc'[q] = "loaded" => copy'[q] = row'
        BY DEF CleanIsFresh
      <4>1. CASE q = r
        BY <3>2, <4>1, <1>T DEF CleanIsFresh, TypeOK
      <4>2. CASE q # r
        BY <3>2, <4>2, <1>T DEF CleanIsFresh, TypeOK
      <4> QED BY <4>1, <4>2
    <3> QED BY <3>1, <3>3, <3>4, <3>5 DEF AccInv
  <2>12. CASE TokenDelete(r)
    BY <2>8, <2>12, <1>T DEF TokenDelete, Keeping, TypeOK, RowSound, ActiveIffEnabled
  <2>13. CASE Abort(r)
    BY <2>8, <2>13, <1>T DEF Abort, Keeping, TypeOK, RowSound, ActiveIffEnabled
  <2> QED BY <1>2, <2>1, <2>2, <2>3, <2>4, <2>6, <2>7, <2>9, <2>10, <2>11, <2>12, <2>13
           DEF RequestStep
<1>3. ASSUME NEW t \in Tokens, Forgot(t) \/ TokenExpires(t) PROVE AccInv'
  BY <1>3, <1>T DEF Forgot, TokenExpires, Keeping, AccInv, TypeOK, CopiesSound,
        CleanIsFresh, RowSound, ActiveIffEnabled, LockEarned, SequentialFailuresLock
<1>4. CASE Tick
  <2>1. now' = now + 1 /\ UNCHANGED <<row, pc, op, copy, overlapped, streak, failures, raced,
                                      token, issued, used, reused>>
    BY <1>4 DEF Tick, Keeping, NoToken
  <2>2. TypeOK' /\ CleanIsFresh' /\ SequentialFailuresLock'
    BY <2>1, <1>T, <1>N DEF TypeOK, CleanIsFresh, SequentialFailuresLock
  <2>3. CopiesSound'
    BY <2>1, <1>T, <1>N DEF CopiesSound, TypeOK, Row
  <2>4. RowSound'
    BY <2>1, <1>T, <1>N DEF RowSound, ActiveIffEnabled, LockEarned
  <2> QED BY <2>2, <2>3, <2>4 DEF AccInv
<1> QED BY <1>1, <1>2, <1>3, <1>4 DEF Next

LEMMA AccInit == Init => AccInv
<1> SUFFICES ASSUME Init PROVE AccInv
  OBVIOUS
<1>1. TypeOK
  BY NewRowType, AccountsAssumption DEF Init, TypeOK
<1>2. /\ NewRow.active = ~NewRow.disabled
      /\ NewRow.attempts = 0 /\ NewRow.locked = 0
  BY DEF NewRow
<1>3. CopiesSound
  BY <1>2 DEF Init, CopiesSound
<1>4. CleanIsFresh
  BY DEF Init, CleanIsFresh
<1>5. RowSound /\ SequentialFailuresLock
  BY <1>2, AccountsAssumption DEF Init, RowSound, ActiveIffEnabled, LockEarned,
        SequentialFailuresLock
<1> QED BY <1>1, <1>3, <1>4, <1>5 DEF AccInv

LEMMA Invariance == Spec => []AccInv
  BY AccInit, AccStep, PTL DEF Spec

-----------------------------------------------------------------------------
\* Every variable keeps its type.
THEOREM AccountTypes == Spec => []TypeOK
<1>1. AccInv => TypeOK
  BY DEF AccInv
<1> QED BY <1>1, Invariance, PTL

\* is_active and disabled_at always say the same, whatever requests write from
\* stale copies.
THEOREM EnabledAgrees == Spec => []ActiveIffEnabled
<1>1. AccInv => ActiveIffEnabled
  BY DEF AccInv, RowSound
<1> QED BY <1>1, Invariance, PTL

\* A lock takes MaxFailed failures.
THEOREM LocksAreEarned == Spec => []LockEarned
<1>1. AccInv => LockEarned
  BY DEF AccInv, RowSound
<1> QED BY <1>1, Invariance, PTL

\* Failures that do not overlap are counted, and lock the account in the end.
THEOREM FailuresCount == Spec => []SequentialFailuresLock
<1>1. AccInv => SequentialFailuresLock
  BY DEF AccInv
<1> QED BY <1>1, Invariance, PTL

-----------------------------------------------------------------------------
\* What a login that succeeds or fails, and administration, may do to a lock.
LEMMA LockStep ==
    AccInv /\ [Next]_vars =>
        [row.locked > now /\ row'.locked < row.locked => \E r \in Requests : Lifts(r)]_vars
<1> SUFFICES ASSUME AccInv, Next, row.locked > now, row'.locked < row.locked
             PROVE  \E r \in Requests : Lifts(r)
  BY DEF vars
<1>T. /\ TypeOK /\ CopiesSound /\ RowSound /\ ActiveIffEnabled
      /\ now \in Nat /\ LockTime \in Nat /\ row \in Row /\ row.locked \in Nat
      /\ row.locked <= now + LockTime
  BY AccountsAssumption DEF AccInv, RowSound, TypeOK, Row
<1>1. row' # row
  BY <1>T
<1>2. ASSUME NEW r \in Requests, RequestStep(r) PROVE Lifts(r)
  <2>1. CASE LoginFails(r)
    BY <2>1, <1>T, FailedRow
  <2>2. CASE LoginSucceeds(r)
    <3>1. /\ Commit(r, Cleared(copy[r])) /\ End(r)
          /\ pc[r] = "loaded" /\ op[r] = "login"
      BY <2>2 DEF LoginSucceeds
    <3>2. copy[r].locked # 0
      BY <3>1, <1>T, ClearedRow
    <3>3. copy[r].locked <= now /\ copy[r].locked \in Nat
      BY <3>1, <1>T DEF CopiesSound, TypeOK, Row
    <3>4. pc'[r] = "idle"
      BY <3>1, <1>T DEF End, TypeOK
    <3> QED BY <3>1, <3>2, <3>3, <3>4, <1>T DEF Lifts
  <2>3. CASE UnlockOrReset(r)
    BY <2>3, <1>T DEF UnlockOrReset, End, Lifts, TypeOK
  <2>4. CASE TokenReset(r)
    BY <2>4, <1>T DEF TokenReset, Lifts, TypeOK
  <2>5. CASE Update(r)
    <3>1. PICK active \in BOOLEAN : Commit(r, Activated(copy[r], active))
      BY <2>5 DEF Update
    <3> QED BY <3>1, <1>T, ActivatedRow
  <2>6. CASE Delete(r)
    BY <2>6, <1>T, DeletedRow
  <2>7. CASE UNCHANGED row
    BY <2>7, <1>1
  <2>8. ASSUME \/ LoginLoad(r)
               \/ \E what \in {"update", "delete", "unlock", "reset"} : AdminLoad(r, what)
               \/ \E t \in Tokens : TokenLoad(r, t)
               \/ TokenDelete(r) \/ Abort(r)
        PROVE  UNCHANGED row
    BY <2>8 DEF LoginLoad, AdminLoad, TokenLoad, TokenDelete, Abort
  <2> QED BY <1>2, <2>1, <2>2, <2>3, <2>4, <2>5, <2>6, <2>7, <2>8 DEF RequestStep
<1>3. ASSUME NEW t \in Tokens, Forgot(t) \/ TokenExpires(t) PROVE FALSE
  BY <1>3, <1>1 DEF Forgot, TokenExpires
<1>4. CASE Tick
  BY <1>4, <1>1 DEF Tick
<1> QED BY <1>2, <1>3, <1>4 DEF Next

\* A lock in force is lifted or shortened only by the requests that may.
THEOREM LocksHold == Spec => LockHolds
  BY Invariance, LockStep, PTL DEF Spec, LockHolds

-----------------------------------------------------------------------------
(* Tokens.  A token that has set a password is deleted by the request that *)
(* used it, or left behind by it; so a request that nobody overlaps finds  *)
(* a used token only among those that were left behind.                    *)

UsedIsKnown ==
    \A t \in used \intersect issued :
        t \in reused \/ \E q \in Requests : pc[q] = "used" /\ token[q] = t

CleanIsNew ==
    \A r \in Requests :
        pc[r] = "loaded" /\ op[r] = "token" /\ Clean(r) /\ token[r] \in used
            => token[r] \in reused

TokenInv == TypeOK /\ CleanIsFresh /\ UsedIsKnown /\ CleanIsNew

\* A request that has loaded the row for anything but a token.
LEMMA TokenLoadsAside ==
    ASSUME TokenInv, NEW r \in Requests, NEW what, what # "token", Load(r, what), NoToken
    PROVE  UsedIsKnown' /\ CleanIsNew'
<1>1. UsedIsKnown'
  BY DEF TokenInv, TypeOK, UsedIsKnown, Load, NoToken
<1>2. CleanIsNew'
  <2> SUFFICES ASSUME NEW q \in Requests, pc'[q] = "loaded", op'[q] = "token", Clean(q)',
                      token'[q] \in used'
               PROVE  token'[q] \in reused'
    BY DEF CleanIsNew
  <2>1. q # r
    BY DEF Load, TokenInv, TypeOK
  <2>2. pc[q] # "idle" /\ overlapped'[q]
    BY <2>1 DEF Load, TokenInv, TypeOK
  <2> QED BY <2>2 DEF Clean
<1> QED BY <1>1, <1>2

\* A request that ends without having used a token.
LEMMA EndsAside ==
    ASSUME TokenInv, NEW r \in Requests, pc[r] = "loaded", End(r), NoToken
    PROVE  UsedIsKnown' /\ CleanIsNew'
<1>1. UsedIsKnown'
  BY DEF TokenInv, TypeOK, UsedIsKnown, End, NoToken
<1>2. CleanIsNew'
  BY DEF TokenInv, TypeOK, CleanIsNew, End, NoToken, Clean
<1> QED BY <1>1, <1>2

LEMMA TokensStay == TokenInv /\ AccInv /\ [Next]_vars => UsedIsKnown' /\ CleanIsNew'
<1> SUFFICES ASSUME TokenInv, AccInv, [Next]_vars PROVE UsedIsKnown' /\ CleanIsNew'
  OBVIOUS
<1>T. TypeOK /\ CleanIsFresh /\ UsedIsKnown /\ CleanIsNew
  BY DEF TokenInv
<1>1. CASE UNCHANGED vars
  BY <1>1, <1>T DEF vars, UsedIsKnown, CleanIsNew, Clean
<1>2. ASSUME NEW r \in Requests, RequestStep(r) PROVE UsedIsKnown' /\ CleanIsNew'
  <2>1. CASE LoginLoad(r)
    BY <2>1, TokenLoadsAside DEF LoginLoad
  <2>2. ASSUME NEW what \in {"update", "delete", "unlock", "reset"}, AdminLoad(r, what)
        PROVE  UsedIsKnown' /\ CleanIsNew'
    BY <2>2, TokenLoadsAside DEF AdminLoad
  <2>3. CASE LoginFails(r) \/ LoginSucceeds(r) \/ Update(r) \/ Delete(r) \/ UnlockOrReset(r)
    BY <2>3, EndsAside DEF LoginFails, LoginSucceeds, Update, Delete, UnlockOrReset
  <2>4. ASSUME NEW t \in Tokens, TokenLoad(r, t) PROVE UsedIsKnown' /\ CleanIsNew'
    <3>1. /\ Load(r, "token") /\ token' = [token EXCEPT ![r] = t] /\ t \in issued
          /\ issued' = issued /\ used' = used /\ reused' = reused /\ pc[r] = "idle"
      BY <2>4 DEF TokenLoad, Load
    <3>2. UsedIsKnown'
      BY <3>1, <1>T DEF TypeOK, UsedIsKnown, Load
    <3>3. CleanIsNew'
      <4> SUFFICES ASSUME NEW q \in Requests, pc'[q] = "loaded", op'[q] = "token",
                          ~overlapped'[q], token'[q] \in used'
                   PROVE  token'[q] \in reused'
        BY DEF CleanIsNew, Clean
      <4>1. q = r
        BY <3>1, <1>T DEF Load, TypeOK
      <4>2. Busy = {} /\ token'[q] = t
        BY <4>1, <3>1, <1>T DEF Load, TypeOK
      <4> QED BY <4>2, <3>1, <1>T DEF Busy, UsedIsKnown
    <3> QED BY <3>2, <3>3
  <2>5. CASE TokenReset(r)
    <3>1. /\ pc[r] = "loaded" /\ pc' = [pc EXCEPT ![r] = "used"] /\ op' = op
          /\ overlapped' = overlapped /\ token' = token /\ issued' = issued
          /\ used' = used \cup {token[r]} /\ reused \subseteq reused'
      BY <2>5 DEF TokenReset
    <3>2. UsedIsKnown'
      BY <3>1, <1>T DEF TypeOK, UsedIsKnown
    <3>3. CleanIsNew'
      <4> SUFFICES ASSUME NEW q \in Requests, pc'[q] = "loaded", op'[q] = "token",
                          ~overlapped'[q], token'[q] \in used'
                   PROVE  token'[q] \in reused'
        BY DEF CleanIsNew, Clean
      <4>1. q # r /\ pc[q] = "loaded" /\ ~overlapped[q]
        BY <3>1, <1>T DEF TypeOK
      <4> QED BY <4>1, <3>1, <1>T DEF CleanIsFresh
    <3> QED BY <3>2, <3>3
  <2>6. CASE TokenDelete(r)
    <3>1. /\ pc[r] = "used" /\ issued' = issued \ {token[r]} /\ End(r)
          /\ token' = token /\ used' = used /\ reused' = reused
      BY <2>6 DEF TokenDelete
    <3>2. UsedIsKnown'
      BY <3>1, <1>T DEF TypeOK, UsedIsKnown, End
    <3>3. CleanIsNew'
      BY <3>1, <1>T DEF TypeOK, CleanIsNew, End, Clean
    <3> QED BY <3>2, <3>3
  <2>7. CASE Abort(r)
    <3>1. /\ pc[r] # "idle" /\ End(r) /\ token' = token /\ used' = used
          /\ issued' = issued /\ reused \subseteq reused'
          /\ pc[r] = "used" => token[r] \in reused'
      BY <2>7 DEF Abort
    <3>2. UsedIsKnown'
      BY <3>1, <1>T DEF TypeOK, UsedIsKnown, End
    <3>3. CleanIsNew'
      BY <3>1, <1>T DEF TypeOK, CleanIsNew, End, Clean
    <3> QED BY <3>2, <3>3
  <2> QED BY <1>2, <2>1, <2>2, <2>3, <2>4, <2>5, <2>6, <2>7 DEF RequestStep
<1>3. ASSUME NEW t \in Tokens, Forgot(t) \/ TokenExpires(t)
      PROVE  UsedIsKnown' /\ CleanIsNew'
  BY <1>3, <1>T DEF Forgot, TokenExpires, UsedIsKnown, CleanIsNew, Clean
<1>4. CASE Tick
  BY <1>4, <1>T DEF Tick, NoToken, UsedIsKnown, CleanIsNew, Clean
<1> QED BY <1>1, <1>2, <1>3, <1>4 DEF Next

LEMMA UsedStep ==
    TokenInv /\ [Next]_vars =>
        [\A r \in Requests, t \in used :
            (/\ pc[r] = "loaded" /\ pc'[r] = "used"
             /\ token[r] = t) => t \in reused']_vars
<1> SUFFICES ASSUME TokenInv, Next, NEW r \in Requests, pc[r] = "loaded", pc'[r] = "used",
                    token[r] \in used
             PROVE  token[r] \in reused'
  BY DEF vars
<1>1. ASSUME NEW q \in Requests, RequestStep(q) PROVE TokenReset(q) /\ q = r
  <2>1. CASE \E what : Load(q, what)
    BY <2>1 DEF Load, TokenInv, TypeOK
  <2>2. CASE End(q)
    BY <2>2 DEF End, TokenInv, TypeOK
  <2>3. CASE TokenReset(q)
    BY <2>3 DEF TokenReset, TokenInv, TypeOK
  <2> QED BY <1>1, <2>1, <2>2, <2>3
       DEF RequestStep, LoginLoad, AdminLoad, TokenLoad, LoginFails, LoginSucceeds, Update,
           Delete, UnlockOrReset, TokenDelete, Abort
<1>2. ~ (\E t \in Tokens : Forgot(t) \/ TokenExpires(t)) /\ ~Tick
  BY DEF Forgot, TokenExpires, Tick, NoToken
<1>3. TokenReset(r)
  BY <1>1, <1>2 DEF Next
<1> QED BY <1>3 DEF TokenReset, TokenInv, CleanIsNew

\* A token of a forgotten password sets a password once, for any number of requests,
\* unless two of them use it at the same time or the one that used it ends before it
\* deletes the token (reset_password_with_token).
THEOREM TokensAreUsedOnce == Spec => TokenUsedOnce
<1>1. Init => UsedIsKnown /\ CleanIsNew
  BY DEF Init, UsedIsKnown, CleanIsNew
<1>2. AccInv /\ UsedIsKnown /\ CleanIsNew /\ [Next]_vars => UsedIsKnown' /\ CleanIsNew'
  BY TokensStay DEF TokenInv, AccInv
<1>3. AccInv /\ UsedIsKnown /\ CleanIsNew => TokenInv
  BY DEF TokenInv, AccInv
<1> QED BY <1>1, <1>2, <1>3, Invariance, UsedStep, PTL DEF Spec, TokenUsedOnce

=============================================================================
