------------------------------ MODULE Accounts ------------------------------
(***************************************************************************)
(* One row of the users table and the concurrent requests that change it:  *)
(* logins, administration and password resets.  A request loads the row,   *)
(* works on its copy and commits; the ORM writes only the columns whose    *)
(* value differs from the loaded copy, and nothing locks the row, so a     *)
(* commit merges a decision taken on an older row into the current one.    *)
(***************************************************************************)
EXTENDS Integers, FiniteSets

CONSTANTS
    Requests,     \* requests that may run at the same time
    Tokens,       \* forgot-password tokens
    MaxFailed,    \* MAX_FAILED_LOGIN_ATTEMPTS
    LockTime,     \* LOCKOUT_DURATION_MINUTES, in ticks
    MaxFailures,  \* bound: failed logins in all
    MaxTime       \* bound: ticks of the clock

ASSUME AccountsAssumption ==
    /\ Tokens # {}
    /\ MaxFailed \in Nat \ {0}
    /\ LockTime \in Nat \ {0}
    /\ MaxFailures \in Nat
    /\ MaxTime \in Nat

VARIABLES
    row,         \* the committed row
    pc,          \* where each request is
    op,          \* what it does
    copy,        \* the row as it loaded it
    token,       \* the token it uses
    overlapped,  \* history: another request has been under way during it
    issued,      \* tokens in Redis
    now,         \* the clock
    streak,      \* history: failed logins since the counter was last reset
    failures,    \* history: failed logins in all
    raced,       \* history: requests overlapped since the last clean reset
    used,        \* history: tokens that have set a password
    reused       \* history: tokens used by overlapping requests or left behind

vars == <<row, pc, op, copy, token, overlapped, issued, now,
          streak, failures, raced, used, reused>>

Fields == {"attempts", "locked", "active", "disabled"}

\* Columns: failed_login_attempts, locked_until (0: none), is_active, and
\* whether disabled_at is set.
Row == [attempts : Nat, locked : Nat, active : BOOLEAN, disabled : BOOLEAN]

\* A row as create_user makes it.
NewRow == [attempts |-> 0, locked |-> 0, active |-> TRUE, disabled |-> FALSE]

Init ==
    /\ row = NewRow
    /\ pc = [r \in Requests |-> "idle"]
    /\ op = [r \in Requests |-> "login"]
    /\ copy = [r \in Requests |-> NewRow]
    /\ token = [r \in Requests |-> CHOOSE t \in Tokens : TRUE]
    /\ overlapped = [r \in Requests |-> FALSE]
    /\ issued = {}
    /\ now = 0
    /\ streak = 0 /\ failures = 0 /\ raced = FALSE
    /\ used = {} /\ reused = {}

Busy == {r \in Requests : pc[r] # "idle"}

-----------------------------------------------------------------------------
\* Request r loads the row; it and the requests under way overlap.
Load(r, what) ==
    /\ pc[r] = "idle"
    /\ pc' = [pc EXCEPT ![r] = "loaded"]
    /\ op' = [op EXCEPT ![r] = what]
    /\ copy' = [copy EXCEPT ![r] = row]
    /\ overlapped' = [q \in Requests |->
                        IF q = r THEN Busy # {} ELSE pc[q] # "idle"]

\* Request r is over and its session closed.
End(r) ==
    /\ pc' = [pc EXCEPT ![r] = "idle"]
    /\ op' = [op EXCEPT ![r] = "login"]
    /\ copy' = [copy EXCEPT ![r] = NewRow]
    /\ overlapped' = [overlapped EXCEPT ![r] = FALSE]

\* The row after r commits `new': the columns r has changed.
Merged(r, new) == [f \in Fields |-> IF new[f] = copy[r][f] THEN row[f] ELSE new[f]]

Commit(r, new) == row' = Merged(r, new)

Clean(r) == ~overlapped[r]

\* r resets the failure counter.
Reset(r) ==
    /\ streak' = 0
    /\ raced' = ~Clean(r)

Keeping == UNCHANGED <<streak, failures, raced>>
NoToken == UNCHANGED <<token, issued, used, reused>>

-----------------------------------------------------------------------------
\* Variant: a lock does not keep anybody out.
LoginBlockedUnlessLocked == row.disabled \/ ~row.active

\* authenticate: disabled, locked or inactive accounts are refused.
LoginBlocked == row.disabled \/ row.locked > now \/ ~row.active

LoginLoad(r) ==
    /\ ~LoginBlocked
    /\ Load(r, "login")
    /\ UNCHANGED <<row, now>> /\ Keeping /\ NoToken

\* Variant: the account is locked one failure too late.
LocksLate(attempts) == attempts > MaxFailed

Locks(attempts) == attempts >= MaxFailed

\* A wrong password.
LoginFails(r) ==
    LET attempts == copy[r].attempts + 1
        new == [copy[r] EXCEPT !.attempts = attempts,
                               !.locked = IF Locks(attempts) THEN now + LockTime ELSE @]
    IN
    /\ pc[r] = "loaded" /\ op[r] = "login"
    /\ failures < MaxFailures
    /\ Commit(r, new)
    /\ End(r)
    /\ streak' = streak + 1
    /\ failures' = failures + 1
    /\ raced' = (raced \/ ~Clean(r))
    /\ UNCHANGED now /\ NoToken

\* The columns that a login, unlocking and every reset of a password set.
Cleared(c) == [c EXCEPT !.attempts = 0, !.locked = 0]

\* _record_successful_login
LoginSucceeds(r) ==
    /\ pc[r] = "loaded" /\ op[r] = "login"
    /\ Commit(r, Cleared(copy[r]))
    /\ End(r)
    /\ Reset(r)
    /\ UNCHANGED <<now, failures>> /\ NoToken

-----------------------------------------------------------------------------
\* An administrator's request.
AdminLoad(r, what) ==
    /\ what \in {"update", "delete", "unlock", "reset"}
    /\ Load(r, what)
    /\ UNCHANGED <<row, now>> /\ Keeping /\ NoToken

\* Variant: an account that is enabled again keeps the time it was disabled.
ActivatedOnly(c, active) ==
    IF active = c.active THEN c
    ELSE [c EXCEPT !.active = active,
                   !.disabled = IF active THEN @ ELSE TRUE]

\* update_user: is_active brings disabled_at with it.
Activated(c, active) ==
    IF active = c.active THEN c
    ELSE [c EXCEPT !.active = active, !.disabled = ~active]

Update(r) ==
    /\ pc[r] = "loaded" /\ op[r] = "update"
    /\ \E active \in BOOLEAN : Commit(r, Activated(copy[r], active))
    /\ End(r)
    /\ UNCHANGED now /\ Keeping /\ NoToken

\* delete_user refuses a user who is disabled already; its second commit, which
\* erases the email, changes none of these columns.
Delete(r) ==
    /\ pc[r] = "loaded" /\ op[r] = "delete"
    /\ IF copy[r].disabled THEN UNCHANGED row
       ELSE Commit(r, [copy[r] EXCEPT !.active = FALSE, !.disabled = TRUE])
    /\ End(r)
    /\ UNCHANGED now /\ Keeping /\ NoToken

\* unlock_user; reset_password by an administrator
UnlockOrReset(r) ==
    /\ pc[r] = "loaded" /\ op[r] \in {"unlock", "reset"}
    /\ Commit(r, Cleared(copy[r]))
    /\ End(r)
    /\ Reset(r)
    /\ UNCHANGED <<now, failures>> /\ NoToken

-----------------------------------------------------------------------------
\* forgot_password_request: a token that has not been issued before.
Forgot(t) ==
    /\ t \notin issued \cup used
    /\ issued' = issued \cup {t}
    /\ UNCHANGED <<row, pc, op, copy, token, overlapped, now, used, reused>> /\ Keeping

\* reset_password_with_token: the token is read, the password committed, and
\* the token deleted.
TokenLoad(r, t) ==
    /\ t \in issued
    /\ Load(r, "token")
    /\ token' = [token EXCEPT ![r] = t]
    /\ UNCHANGED <<row, now, issued, used, reused>> /\ Keeping

TokenReset(r) ==
    LET t == token[r] IN
    /\ pc[r] = "loaded" /\ op[r] = "token"
    /\ Commit(r, Cleared(copy[r]))
    /\ pc' = [pc EXCEPT ![r] = "used"]
    /\ Reset(r)
    /\ used' = used \cup {t}
    /\ reused' = IF ~Clean(r) THEN reused \cup {t} ELSE reused
    /\ UNCHANGED <<op, copy, overlapped, token, issued, now, failures>>

\* Variant: the token is left to expire.
TokenKeep(r) ==
    /\ pc[r] = "used"
    /\ End(r)
    /\ UNCHANGED <<row, token, issued, now, used, reused>> /\ Keeping

TokenDelete(r) ==
    /\ pc[r] = "used"
    /\ issued' = issued \ {token[r]}
    /\ End(r)
    /\ UNCHANGED <<row, token, now, used, reused>> /\ Keeping

\* Tokens expire.
TokenExpires(t) ==
    /\ t \in issued
    /\ issued' = issued \ {t}
    /\ UNCHANGED <<row, pc, op, copy, token, overlapped, now, used, reused>> /\ Keeping

\* The request fails, is dropped, or its process stops: what is not committed
\* is lost, and the steps that are left are not taken.
Abort(r) ==
    /\ pc[r] # "idle"
    /\ End(r)
    /\ reused' = IF pc[r] = "used" THEN reused \cup {token[r]} ELSE reused
    /\ UNCHANGED <<row, token, issued, now, used>> /\ Keeping

Tick ==
    /\ now < MaxTime
    /\ now' = now + 1
    /\ UNCHANGED <<row, pc, op, copy, overlapped>> /\ Keeping /\ NoToken

RequestStep(r) ==
    \/ LoginLoad(r) \/ LoginFails(r) \/ LoginSucceeds(r)
    \/ \E what \in {"update", "delete", "unlock", "reset"} : AdminLoad(r, what)
    \/ Update(r) \/ Delete(r) \/ UnlockOrReset(r)
    \/ \E t \in Tokens : TokenLoad(r, t)
    \/ TokenReset(r) \/ TokenDelete(r) \/ Abort(r)

Next ==
    \/ \E r \in Requests : RequestStep(r)
    \/ \E t \in Tokens : Forgot(t) \/ TokenExpires(t)
    \/ Tick

Spec == Init /\ [][Next]_vars

-----------------------------------------------------------------------------
TypeOK ==
    /\ row \in Row
    /\ pc \in [Requests -> {"idle", "loaded", "used"}]
    /\ op \in [Requests -> {"login", "update", "delete", "unlock", "reset", "token"}]
    /\ copy \in [Requests -> Row]
    /\ token \in [Requests -> Tokens]
    /\ overlapped \in [Requests -> BOOLEAN]
    /\ issued \subseteq Tokens
    /\ now \in Nat /\ streak \in Nat /\ failures \in Nat
    /\ raced \in BOOLEAN
    /\ used \subseteq Tokens /\ reused \subseteq Tokens

\* is_active and disabled_at say the same, although requests write them from
\* stale copies: a login checks both, a request with a token only is_active
\* (update_user, delete_user, get_current_user).
ActiveIffEnabled == row.active = ~row.disabled

\* An account gets a lock only after MaxFailed failed logins, whatever stale
\* counters are written back (authenticate).
LockEarned == row.locked # 0 => failures >= MaxFailed

\* Failed logins that did not overlap another request are all counted, and the
\* last of MaxFailed locks the account; overlapping ones may be lost.
SequentialFailuresLock ==
    ~raced => row.attempts = streak /\ (streak >= MaxFailed => row.locked # 0)

\* Requests that clear the lock on purpose, and a login that had loaded an
\* earlier, expired lock.
Lifts(r) ==
    /\ pc[r] = "loaded" /\ pc'[r] # "loaded"
    /\ \/ op[r] \in {"unlock", "reset", "token"}
       \/ op[r] = "login" /\ copy[r].locked \notin {0, row.locked}

\* A lock in force is lifted or shortened by nobody else, in particular not by a
\* login that passed the check before the account was locked.
LockHolds ==
    [][row.locked > now /\ row'.locked < row.locked
        => \E r \in Requests : Lifts(r)]_vars

\* A token sets a password once, unless two requests use it at the same time or
\* the request that used it ends before it deletes the token.
TokenUsedOnce ==
    [][\A r \in Requests, t \in used :
        (/\ pc[r] = "loaded" /\ pc'[r] = "used"
         /\ token[r] = t) => t \in reused']_vars

=============================================================================
