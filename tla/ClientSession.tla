--------------------------- MODULE ClientSession ---------------------------
(***************************************************************************)
(* The session of a browser tab: the tokens in localStorage and the user   *)
(* store, the bootstrap of a page load and the router guard that waits for *)
(* it, login and logout, and the interceptor that answers 401 with one     *)
(* refresh for all requests - beside which the bootstrap and the live feed *)
(* refresh on their own.  Sessions are numbered in the order of logins, an *)
(* access token by its session and the expiries before it.                 *)
(***************************************************************************)
EXTENDS Integers, FiniteSets

CONSTANTS
    Calls,        \* requests of the pages that may be under way
    MaxLogins, MaxExpiries, MaxLoads  \* bounds

SessionAssumption == MaxLogins \in Nat /\ MaxExpiries \in Nat /\ MaxLoads \in Nat

VARIABLES
    stored, shown,  \* localStorage, the user store: access, refresh and user
    page,           \* "none" (nothing is shown yet), "login" or "app"
    going,          \* the navigation to a page that needs a login: "no", "waits" for
                    \* the bootstrap, or waits for it and was "replaced"
    boot,           \* how far _doBootstrap is, or what it returned
    bootRefresh,    \* rt, the refresh token it found
    request,        \* the calls of the pages, and "me" of the bootstrap
    refresh,        \* the refreshes: "shared" (refreshInFlight), "boot", "feed"
    leaving,        \* the refresh token that logout is revoking
    logins, age, revoked, loads,  \* server: sessions, expiries of their tokens;
                                  \* revoked refresh tokens; page loads
    crossed,        \* history: since they were last written together, the parts of a
                    \* session were changed by an answer meant for another
    thrownOut       \* history of the page load: the guard dropped a session that
                    \* nothing had ended

vars == <<stored, shown, page, going, boot, bootRefresh, request, refresh, leaving, logins,
          age, revoked, loads, crossed, thrownOut>>
tokens == <<stored, shown, crossed>>
server == <<logins, age, revoked, loads>>

Sessions == 1 .. MaxLogins
None == [of |-> 0, nth |-> 0]
NoSession == [access |-> None, refresh |-> 0, user |-> 0]
Free == [at |-> "idle", token |-> None, again |-> FALSE]
NoRefresh == [at |-> "idle", token |-> None]
Refreshers == {"shared", "boot", "feed"}

Init ==
    /\ stored = NoSession /\ shown = NoSession
    /\ page = "none" /\ going = "no"
    /\ boot = "none" /\ bootRefresh = 0
    /\ request = [r \in Calls \union {"me"} |-> Free]
    /\ refresh = [f \in Refreshers |-> NoRefresh]
    /\ leaving = 0
    /\ logins = 0 /\ age = [s \in Sessions |-> 0] /\ revoked = {} /\ loads = 0
    /\ crossed = FALSE /\ thrownOut = FALSE

Valid(token) == token.of # 0 /\ token.nth = age[token.of]
HasTokens == stored.access # None \/ stored.refresh # 0

\* clearUser
ClearUser == stored' = NoSession /\ shown' = NoSession /\ crossed' = FALSE
\* persist after a change of the store.
Persist(new) == shown' = new /\ stored' = new
\* initUser: what is stored is shown, unless its access token has expired and
\* cannot be refreshed.
InitUser ==
    IF Valid(stored.access) \/ stored.refresh # 0
    THEN /\ shown' = [stored EXCEPT !.user = IF @ # 0 THEN @ ELSE shown.user]
         /\ UNCHANGED <<stored, crossed>>
    ELSE ClearUser

Send(r, token, again) ==
    request' = [request EXCEPT ![r] = [at |-> "sent", token |-> token, again |-> again]]
AskRefresh(f, s) ==
    refresh' = [refresh EXCEPT ![f] = [at |-> "asked", token |-> [of |-> s, nth |-> 0]]]

\* A navigation to the login page replaces one that waits.
Replaced == IF going = "no" THEN "no" ELSE "replaced"

-----------------------------------------------------------------------------
\* The browser loads a page: nothing but localStorage is left.
Load ==
    /\ loads < MaxLoads /\ loads' = loads + 1
    /\ shown' = NoSession /\ page' \in {"none", "login"} /\ going' = "no"
    /\ boot' = "none" /\ bootRefresh' = 0 /\ leaving' = 0
    /\ request' = [r \in DOMAIN request |-> Free]
    /\ refresh' = [f \in Refreshers |-> NoRefresh]
    /\ thrownOut' = FALSE
    /\ UNCHANGED <<stored, logins, age, revoked, crossed>>

\* _doBootstrap up to its first await.
BootStarts ==
    /\ InitUser
    /\ bootRefresh' = shown'.refresh
    /\ \/ /\ shown'.access # None /\ shown'.user # 0
          /\ boot' = "me" /\ Send("me", stored'.access, FALSE)
          /\ UNCHANGED refresh
       \/ /\ shown'.access = None \/ shown'.user = 0
          /\ shown'.refresh # 0
          /\ boot' = "refresh" /\ AskRefresh("boot", shown'.refresh)
          /\ UNCHANGED request
       \/ /\ shown'.access = None \/ shown'.user = 0
          /\ shown'.refresh = 0
          /\ boot' = "false"
          /\ UNCHANGED <<request, refresh>>

\* beforeEach: to the login page without tokens, else it waits for the
\* bootstrap, which the first navigation of a page load starts.
Navigate ==
    /\ going # "waits"
    /\ \/ /\ ~HasTokens
          /\ page' = "login" /\ going' = Replaced
          /\ UNCHANGED <<tokens, boot, bootRefresh, request, refresh>>
       \/ /\ HasTokens
          /\ going' = "waits" /\ UNCHANGED page
          /\ IF boot = "none" THEN BootStarts
             ELSE UNCHANGED <<tokens, boot, bootRefresh, request, refresh>>
    /\ UNCHANGED <<leaving, server, thrownOut>>

\* Variant: the bootstrap is not awaited.
GuardAtOnce ==
    /\ going # "no" /\ going' = "no"
    /\ IF boot = "true"
       THEN /\ UNCHANGED thrownOut
            /\ IF going = "replaced" THEN UNCHANGED <<tokens, page>>
               ELSE page' = "app" /\ InitUser
       ELSE page' = "login" /\ ClearUser /\ thrownOut' = (thrownOut \/ shown.user # 0)
    /\ UNCHANGED <<boot, bootRefresh, request, refresh, leaving, server>>

\* The bootstrap of the page load is over: the page is shown, and its layout
\* reads the session; or there is no session any more.
Guard ==
    /\ going # "no" /\ boot \in {"true", "false"} /\ going' = "no"
    /\ IF boot = "true"
       THEN /\ UNCHANGED thrownOut
            /\ IF going = "replaced" THEN UNCHANGED <<tokens, page>>
               ELSE page' = "app" /\ InitUser
       ELSE page' = "login" /\ ClearUser /\ thrownOut' = (thrownOut \/ shown.user # 0)
    /\ UNCHANGED <<boot, bootRefresh, request, refresh, leaving, server>>

\* Login.vue: the answer of the login is stored; the navigation follows.
Login ==
    /\ page = "login" /\ going # "waits"
    /\ logins < MaxLogins /\ logins' = logins + 1
    /\ Persist([access |-> [of |-> logins', nth |-> age[logins']],
                refresh |-> logins', user |-> logins'])
    /\ crossed' = FALSE
    /\ UNCHANGED <<page, going, boot, bootRefresh, request, refresh, leaving, age, revoked,
                   loads, thrownOut>>

\* logout asks the server to forget the refresh token, if the store has one,
\* and clears everything when the answer or an error arrives.
LogoutAsks ==
    /\ page = "app" /\ leaving = 0 /\ shown.refresh # 0
    /\ leaving' = shown.refresh
    /\ UNCHANGED <<tokens, page, going, boot, bootRefresh, request, refresh, server,
                   thrownOut>>

RevokedByLogout ==
    /\ leaving # 0 /\ leaving \notin revoked /\ revoked' = revoked \union {leaving}
    /\ UNCHANGED <<tokens, page, going, boot, bootRefresh, request, refresh, leaving,
                   logins, age, loads, thrownOut>>

\* Variant: only the store is cleared.
LogoutKeepsStorage ==
    /\ leaving # 0 /\ leaving' = 0
    /\ shown' = NoSession /\ page' = "login" /\ going' = Replaced
    /\ UNCHANGED <<stored, crossed, boot, bootRefresh, request, refresh, server, thrownOut>>

LogoutEnds ==
    /\ leaving # 0 /\ leaving' = 0
    /\ ClearUser /\ page' = "login" /\ going' = Replaced
    /\ UNCHANGED <<boot, bootRefresh, request, refresh, server, thrownOut>>

-----------------------------------------------------------------------------
\* /auth/me has answered: the user is shown, and the store persisted as it is.
BootKnowsUser ==
    /\ boot \in {"me", "meAgain"} /\ request["me"].at = "done"
    /\ Persist([shown EXCEPT !.user = request["me"].token.of])
    /\ crossed' = (crossed \/ request["me"].token.of # shown.refresh)
    /\ boot' = "true"
    /\ request' = [request EXCEPT !["me"] = Free]
    /\ UNCHANGED <<page, going, bootRefresh, refresh, leaving, server, thrownOut>>

\* The first /auth/me failed: the refresh token found at the start is tried.
BootRefreshes ==
    /\ boot = "me" /\ request["me"].at = "failed"
    /\ request' = [request EXCEPT !["me"] = Free]
    /\ IF bootRefresh = 0 THEN boot' = "false" /\ UNCHANGED refresh
       ELSE boot' = "refresh" /\ AskRefresh("boot", bootRefresh)
    /\ UNCHANGED <<tokens, page, going, bootRefresh, leaving, server, thrownOut>>

BootRefreshed ==
    /\ boot = "refresh" /\ refresh["boot"].at = "granted"
    /\ Persist([shown EXCEPT !.access = refresh["boot"].token, !.refresh = bootRefresh])
    /\ crossed' = (crossed \/ bootRefresh # shown.refresh)
    /\ boot' = "meAgain" /\ Send("me", refresh["boot"].token, FALSE)
    /\ refresh' = [refresh EXCEPT !["boot"] = NoRefresh]
    /\ UNCHANGED <<page, going, bootRefresh, leaving, server, thrownOut>>

\* Every failure ends the session; 401 leads to the login page at once.
BootFails ==
    /\ \/ boot = "refresh" /\ refresh["boot"].at = "refused"
       \/ boot = "meAgain" /\ request["me"].at = "failed"
    /\ ClearUser /\ boot' = "false"
    /\ \/ page' = "login" /\ going' = Replaced
       \/ UNCHANGED <<page, going>>
    /\ request' = [request EXCEPT !["me"] = Free]
    /\ refresh' = [refresh EXCEPT !["boot"] = NoRefresh]
    /\ UNCHANGED <<bootRefresh, leaving, server, thrownOut>>

-----------------------------------------------------------------------------
\* A page asks for something, with the stored token.
Call(r) ==
    /\ page = "app" /\ request[r] = Free /\ stored.access # None
    /\ Send(r, stored.access, FALSE)
    /\ UNCHANGED <<tokens, page, going, boot, bootRefresh, refresh, leaving, server,
                   thrownOut>>

Result(r, how) ==
    request' = [request EXCEPT ![r] = IF r = "me" THEN [@ EXCEPT !.at = how] ELSE Free]

\* An answer, with a valid token, or a failure that has nothing to do with it.
Answered(r) ==
    /\ request[r].at = "sent"
    /\ \/ Valid(request[r].token) /\ Result(r, "done")
       \/ Result(r, "failed")
    /\ UNCHANGED <<tokens, page, going, boot, bootRefresh, refresh, leaving, server,
                   thrownOut>>

\* 401: wait for the refresh under way, or start it.
Unauthorised(r) ==
    /\ request[r].at = "sent" /\ ~Valid(request[r].token) /\ ~request[r].again
    /\ stored.refresh # 0 \/ refresh["shared"] # NoRefresh
    /\ request' = [request EXCEPT ![r].at = "waiting"]
    /\ IF refresh["shared"] # NoRefresh THEN UNCHANGED refresh
       ELSE AskRefresh("shared", stored.refresh)
    /\ UNCHANGED <<tokens, page, going, boot, bootRefresh, leaving, server, thrownOut>>

\* 401 with no refresh token, or after the retry: the session is over.
SessionLost(r) ==
    /\ request[r].at = "sent" /\ ~Valid(request[r].token)
    /\ request[r].again \/ (stored.refresh = 0 /\ refresh["shared"] = NoRefresh)
    /\ ClearUser /\ page' = "login" /\ going' = Replaced
    /\ Result(r, "failed")
    /\ UNCHANGED <<boot, bootRefresh, refresh, leaving, server, thrownOut>>

\* The live feed of a page refreshes on its own (silentRefreshForSSE).
FeedRefreshes ==
    /\ page = "app" /\ stored.refresh # 0 /\ refresh["feed"] = NoRefresh
    /\ AskRefresh("feed", stored.refresh)
    /\ UNCHANGED <<tokens, page, going, boot, bootRefresh, request, leaving, server,
                   thrownOut>>

\* refresh_access_token on the server, or no answer at all.
RefreshServed(f) ==
    /\ refresh[f].at = "asked"
    /\ LET s == refresh[f].token.of
       IN \/ /\ s \notin revoked
             /\ refresh' = [refresh EXCEPT ![f] =
                    [at |-> "granted", token |-> [of |-> s, nth |-> age[s]]]]
          \/ refresh' = [refresh EXCEPT ![f].at = "refused"]
    /\ UNCHANGED <<tokens, page, going, boot, bootRefresh, request, leaving, server,
                   thrownOut>>

Waiting == {r \in DOMAIN request : request[r].at = "waiting"}
Crosses(f) == refresh[f].token.of # stored.refresh

\* The new token is stored, and every request that waits is sent again with it.
SharedGranted ==
    /\ refresh["shared"].at = "granted"
    /\ LET new == refresh["shared"].token
       IN /\ stored' = [stored EXCEPT !.access = new]
          /\ request' = [r \in DOMAIN request |->
                 IF r \in Waiting THEN [at |-> "sent", token |-> new, again |-> TRUE]
                 ELSE request[r]]
    /\ refresh' = [refresh EXCEPT !["shared"] = NoRefresh]
    /\ crossed' = (crossed \/ Crosses("shared"))
    /\ UNCHANGED <<shown, page, going, boot, bootRefresh, leaving, server, thrownOut>>

\* No new token: all that wait fail and the session is over.
SharedRefused ==
    /\ refresh["shared"].at = "refused"
    /\ ClearUser /\ page' = "login" /\ going' = Replaced
    /\ request' = [r \in DOMAIN request |->
           IF r \notin Waiting THEN request[r]
           ELSE IF r = "me" THEN [request[r] EXCEPT !.at = "failed"] ELSE Free]
    /\ refresh' = [refresh EXCEPT !["shared"] = NoRefresh]
    /\ UNCHANGED <<boot, bootRefresh, leaving, server, thrownOut>>

FeedRefreshed ==
    /\ refresh["feed"].at \in {"granted", "refused"}
    /\ IF refresh["feed"].at = "granted"
       THEN /\ stored' = [stored EXCEPT !.access = refresh["feed"].token]
            /\ crossed' = (crossed \/ Crosses("feed"))
       ELSE UNCHANGED <<stored, crossed>>
    /\ refresh' = [refresh EXCEPT !["feed"] = NoRefresh]
    /\ UNCHANGED <<shown, page, going, boot, bootRefresh, request, leaving, server,
                   thrownOut>>

\* An access token expires; a refresh token expires or is revoked elsewhere.
Expire(s) ==
    /\ s <= logins
    /\ \/ /\ age[s] < MaxExpiries /\ age' = [age EXCEPT ![s] = @ + 1] /\ UNCHANGED revoked
       \/ /\ s \notin revoked /\ revoked' = revoked \union {s} /\ UNCHANGED age
    /\ UNCHANGED <<tokens, page, going, boot, bootRefresh, request, refresh, leaving, logins,
                   loads, thrownOut>>

BootStep == BootKnowsUser \/ BootRefreshes \/ BootRefreshed \/ BootFails
CallStep(r) == Answered(r) \/ Unauthorised(r) \/ SessionLost(r)
RefreshStep == (\E f \in Refreshers : RefreshServed(f)) \/ SharedGranted \/ SharedRefused

Next ==
    \/ Load \/ Navigate \/ Guard \/ Login
    \/ LogoutAsks \/ RevokedByLogout \/ LogoutEnds \/ BootStep
    \/ (\E r \in Calls : Call(r)) \/ (\E r \in DOMAIN request : CallStep(r))
    \/ RefreshStep \/ FeedRefreshes \/ FeedRefreshed
    \/ \E s \in Sessions : Expire(s)

Spec == Init /\ [][Next]_vars

-----------------------------------------------------------------------------
AccessTokens == [of : 0 .. MaxLogins, nth : 0 .. MaxExpiries]
SessionRecords == [access : AccessTokens, refresh : 0 .. MaxLogins, user : 0 .. MaxLogins]

TypeOK ==
    /\ stored \in SessionRecords /\ shown \in SessionRecords
    /\ page \in {"none", "login", "app"} /\ going \in {"no", "waits", "replaced"}
    /\ boot \in {"none", "me", "refresh", "meAgain", "true", "false"}
    /\ {bootRefresh, leaving, logins} \subseteq 0 .. MaxLogins
    /\ request \in [Calls \union {"me"} ->
           [at : {"idle", "sent", "waiting", "done", "failed"}, token : AccessTokens,
            again : BOOLEAN]]
    /\ refresh \in [Refreshers -> [at : {"idle", "asked", "granted", "refused"},
                                   token : AccessTokens]]
    /\ age \in [Sessions -> 0 .. MaxExpiries] /\ revoked \subseteq Sessions
    /\ loads \in 0 .. MaxLoads /\ {crossed, thrownOut} \subseteq BOOLEAN

\* Once the bootstrap is over, what is stored belongs to the user shown, and
\* nothing is stored when none is, however logins, logouts and refreshes overlap -
\* unless an answer came back after its session had been left; and the guard
\* drops a session only if the bootstrap of the page load had failed
\* (useUserStore, request.ts, useAuthBootstrap).
SessionSound ==
    /\ boot \in {"true", "false"} /\ ~crossed =>
        /\ stored.access.of \in {0, shown.user} /\ stored.refresh = shown.refresh
        /\ shown.user = 0 => ~HasTokens
    /\ thrownOut => boot = "false"

\* A login that succeeded lets the user in: "路由守卫调用 `ensureBootstrapped()`
\* 获取服务端用户事实", the guard goes by what the server says of the user
\* (docs/standards/02-frontend/01-入口与路由.md).
LoginKept == ~thrownOut

=============================================================================
