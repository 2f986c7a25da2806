------------------------------ MODULE Sessions ------------------------------
(***************************************************************************)
(* Login sessions from end to end: the tabs of one browser with the shared *)
(* API client, the gateway's access control, and the auth service with its *)
(* token pairs, its blacklist of refresh tokens and its revocation times.  *)
(*                                                                         *)
(* A token pair is its position in pairs, which is also the refresh        *)
(* token's jti.  Both cookies are set and cleared together, and live as    *)
(* long as their tokens, so the browser holds one pair (0: none).  Time    *)
(* runs in ticks, TicksPerSecond of them in a second: claims hold whole    *)
(* seconds, tokens_revoked_at is as fine as the clock.                     *)
(***************************************************************************)
EXTENDS Naturals, Sequences

CONSTANTS Users, Admin, NoUser,
          Tabs, Calls, NoCall, NoTab,
          AccessTTL, RefreshTTL,  \* lifetimes, in seconds
          TicksPerSecond,
          MaxTime,                \* bound: ticks
          MaxPairs,               \* bound: pairs that are issued
          MaxSends,               \* bound: requests the user starts
          MaxFaults               \* bound: lost answers, server errors, erasures

ASSUME SessionsAssumption ==
  /\ Admin \in Users /\ NoUser \notin Users /\ NoCall \notin Calls /\ NoTab \notin Tabs
  /\ AccessTTL \in Nat /\ RefreshTTL \in Nat /\ TicksPerSecond \in Nat \ {0}
  /\ MaxTime \in Nat /\ MaxPairs \in Nat /\ MaxSends \in Nat /\ MaxFaults \in Nat

VARIABLES now, sends, faults,
          accounts,   \* the rows of auth.users
          revokedAt,  \* tokens_revoked_at, 0 for NULL
          blacklist,  \* the jtis in auth.refresh_token_blacklist
          pairs,      \* every pair that was issued
          cookie,     \* the pair in the browser's cookies
          leader,     \* refreshPromise of each tab: the call that runs it
          expired,    \* the tabs that were sent to the login page
          pc, req,    \* each call of the API client, in the browser or a service
          takenBy,    \* history: the tab whose refresh consumed a jti
          forgotten   \* history: users whose blacklist rows were erased

clock == <<now, sends, faults>>
auth == <<accounts, revokedAt, blacklist, pairs, forgotten>>
browser == <<cookie, leader, expired>>
vars == <<clock, auth, browser, pc, req, takenBy>>

Jtis == 1..MaxPairs
NoRequest == [kind |-> "api", tab |-> NoTab, sent |-> 0, since |-> 0, retried |-> FALSE,
              refreshing |-> FALSE, named |-> NoUser, status |-> "none", pair |-> 0]

Init ==
  /\ now = 0 /\ sends = 0 /\ faults = 0
  /\ accounts = Users
  /\ revokedAt = [u \in Users |-> 0]
  /\ blacklist = {} /\ pairs = << >> /\ forgotten = {}
  /\ cookie = 0
  /\ leader = [t \in Tabs |-> NoCall]
  /\ expired = {}
  /\ pc = [c \in Calls |-> "idle"]
  /\ req = [c \in Calls |-> NoRequest]
  /\ takenBy = [j \in Jtis |-> NoTab]
-----------------------------------------------------------------------------
(* Tokens.                                                                 *)

Second(tick) == tick \div TicksPerSecond

\* The exp claims, as ticks.
AccessExpiry(p) == (Second(pairs[p].issued) + AccessTTL) * TicksPerSecond
RefreshExpiry(p) == (Second(pairs[p].issued) + RefreshTTL) * TicksPerSecond

\* ValidateRefreshToken; a missing cookie never gets that far.
RefreshValid(p) == p # 0 /\ now < RefreshExpiry(p)

\* Mutated comparison: the stored time is not truncated.
RevokedUntruncated(p) ==
  pairs[p].user \in accounts /\ Second(pairs[p].issued) * TicksPerSecond < revokedAt[pairs[p].user]

\* Mutated comparison: the claim is taken for a later second.
RevokedOneSecondLate(p) ==
  /\ pairs[p].user \in accounts
  /\ Second(pairs[p].issued) + 1 < Second(revokedAt[pairs[p].user])

\* iat is before tokens_revoked_at, both in whole seconds.
Revoked(p) ==
  pairs[p].user \in accounts /\ Second(pairs[p].issued) < Second(revokedAt[pairs[p].user])

\* AuthService.ValidateToken behind the gateway's reading of the cookie.
AccessValid(p) == p # 0 /\ now < AccessExpiry(p) /\ ~ Revoked(p)

\* The role claim.
Role(u) == IF u = Admin THEN "admin" ELSE "user"

\* The per-level role check of AccessControl.
MayCall(kind, role) ==
  CASE kind = "api" -> role = "user"       \* Personal
    [] kind = "assume" -> role = "admin"   \* Admin
    [] OTHER -> TRUE                       \* Authenticated
-----------------------------------------------------------------------------
(* Steps of a call.                                                        *)

Goto(c, point) == pc' = [pc EXCEPT ![c] = point]

\* The response is on its way.
Answer(c, status) ==
  /\ Goto(c, "answer")
  /\ req' = [req EXCEPT ![c].status = status, ![c].pair = 0]

\* GenerateTokenPairWithAssumedBy, the last thing a handler does.
Sign(c, subject, actor) ==
  /\ Len(pairs) < MaxPairs
  /\ pairs' = Append(pairs, [user |-> subject, assumedBy |-> actor, issued |-> now,
                             parent |-> IF req[c].refreshing THEN req[c].sent ELSE 0])
  /\ Goto(c, "answer")
  /\ req' = [req EXCEPT ![c].status = "ok", ![c].pair = Len(pairs) + 1]

\* executeFetch: the request leaves with the cookies of that moment.
Fetch(c, r) ==
  [r EXCEPT !.sent = cookie', !.since = IF cookie' = 0 THEN 0 ELSE revokedAt[pairs[cookie'].user],
            !.status = "none", !.pair = 0, !.refreshing = FALSE]

\* A Public route is the service's at once, the others pass the gateway.
Ask(c, t, kind, u) ==
  /\ pc[c] = "idle"
  /\ sends < MaxSends /\ sends' = sends + 1
  /\ UNCHANGED cookie
  /\ req' = [req EXCEPT ![c] = Fetch(c, [NoRequest EXCEPT !.kind = kind, !.tab = t, !.named = u])]
  /\ Goto(c, IF kind = "login" THEN "handle" ELSE "gateway")
  /\ UNCHANGED <<now, faults, auth, leader, expired, takenBy>>

\* What the user asks for in a tab; u is whom a login or an assumption names.
AskLogin(c, t, u) == Ask(c, t, "login", u)
AskApi(c, t) == Ask(c, t, "api", NoUser)
AskPassword(c, t) == Ask(c, t, "password", NoUser)
AskAssume(c, t, u) == Ask(c, t, "assume", u)
AskRestore(c, t) == Ask(c, t, "restore", NoUser)
AskLogout(c, t) == Ask(c, t, "logout", NoUser)

\* A tab that was sent to the login page only logs in.
Use(c, t) ==
  \/ \E u \in Users : AskLogin(c, t, u)
  \/ t \notin expired /\ \E u \in Users : AskAssume(c, t, u)
  \/ t \notin expired /\ (AskApi(c, t) \/ AskPassword(c, t) \/ AskRestore(c, t) \/ AskLogout(c, t))

Refuse(c) ==
  /\ pc[c] = "gateway" /\ ~ AccessValid(req[c].sent)
  /\ Answer(c, "unauthorized")
  /\ UNCHANGED <<clock, auth, browser, takenBy>>

Forbid(c) ==
  /\ pc[c] = "gateway" /\ AccessValid(req[c].sent)
  /\ ~ MayCall(req[c].kind, Role(pairs[req[c].sent].user))
  /\ Answer(c, "refused")
  /\ UNCHANGED <<clock, auth, browser, takenBy>>

Admit(c) ==
  /\ pc[c] = "gateway" /\ AccessValid(req[c].sent)
  /\ MayCall(req[c].kind, Role(pairs[req[c].sent].user))
  /\ Goto(c, "handle")
  /\ UNCHANGED <<clock, auth, browser, req, takenBy>>

\* X-User-ID and X-Assumed-By, as the gateway set them.
Caller(c) == pairs[req[c].sent].user
AssumedBy(c) == pairs[req[c].sent].assumedBy

\* Any personal route of the other services.
ServeApi(c) ==
  /\ pc[c] = "handle" /\ req[c].kind = "api"
  /\ Answer(c, "ok")
  /\ UNCHANGED <<clock, auth, browser, takenBy>>

Login(c) ==
  /\ pc[c] = "handle" /\ req[c].kind = "login"
  /\ \/ req[c].named \in accounts /\ Goto(c, "compare") /\ UNCHANGED req
     \/ Answer(c, "unauthorized")  \* no such user
  /\ UNCHANGED <<clock, auth, browser, takenBy>>

\* The password is compared with the hash that was read.
ComparePassword(c) ==
  /\ pc[c] = "compare"
  /\ \/ Sign(c, req[c].named, NoUser)
     \/ Answer(c, "unauthorized") /\ UNCHANGED pairs
  /\ UNCHANGED <<clock, accounts, revokedAt, blacklist, forgotten, browser, takenBy>>

\* The current password is checked and the new hash stored, whatever they are.
ChangePassword(c) ==
  /\ pc[c] = "handle" /\ req[c].kind = "password"
  /\ \/ Caller(c) \in accounts /\ Goto(c, "revoke") /\ UNCHANGED req
     \/ \E status \in {"unauthorized", "refused"} : Answer(c, status)
  /\ UNCHANGED <<clock, auth, browser, takenBy>>

RevokeAllUserTokens(c) ==
  /\ pc[c] = "revoke"
  /\ revokedAt' = IF Caller(c) \in accounts THEN [revokedAt EXCEPT ![Caller(c)] = now] ELSE revokedAt
  /\ Goto(c, "reissue") /\ UNCHANGED req
  /\ UNCHANGED <<clock, accounts, blacklist, pairs, forgotten, browser, takenBy>>

\* The session that changed the password goes on with a new pair.
Reissue(c) ==
  /\ pc[c] = "reissue"
  /\ Sign(c, Caller(c), NoUser)
  /\ UNCHANGED <<clock, accounts, revokedAt, blacklist, forgotten, browser, takenBy>>

AssumeIdentity(c) ==
  /\ pc[c] = "handle" /\ req[c].kind = "assume"
  /\ IF req[c].named \in accounts \ {Caller(c)}
     THEN Sign(c, req[c].named, Caller(c))
     ELSE Answer(c, "refused") /\ UNCHANGED pairs
  /\ UNCHANGED <<clock, accounts, revokedAt, blacklist, forgotten, browser, takenBy>>

RestoreIdentity(c) ==
  /\ pc[c] = "handle" /\ req[c].kind = "restore"
  /\ IF AssumedBy(c) \in accounts /\ Role(AssumedBy(c)) = "admin"
     THEN Sign(c, AssumedBy(c), NoUser)
     ELSE Answer(c, "refused") /\ UNCHANGED pairs
  /\ UNCHANGED <<clock, accounts, revokedAt, blacklist, forgotten, browser, takenBy>>

\* The insert needs the user's row (foreign key); its failure is only reported.
Logout(c) ==
  LET p == req[c].sent
  IN /\ pc[c] = "handle" /\ req[c].kind = "logout"
     /\ IF RefreshValid(p) /\ pairs[p].user \in accounts
        THEN blacklist' = blacklist \cup {p}
        ELSE UNCHANGED blacklist
     /\ Answer(c, "ok")
     /\ UNCHANGED <<clock, accounts, revokedAt, pairs, forgotten, browser, takenBy>>
-----------------------------------------------------------------------------
(* POST /api/auth/refresh.                                                 *)

ValidateRefresh(c) ==
  /\ pc[c] = "refresh"
  /\ IF RefreshValid(req[c].sent)
     THEN Goto(c, "consume") /\ UNCHANGED req
     ELSE Answer(c, "unauthorized")
  /\ UNCHANGED <<clock, auth, browser, takenBy>>

\* Mutated statement: the conflict goes unnoticed (DO UPDATE, not DO NOTHING).
UnconsumedAlways(p) == TRUE

\* INSERT ... ON CONFLICT DO NOTHING RETURNING jti returns a row.
Unconsumed(p) == p \notin blacklist

ConsumeToken(c) ==
  LET p == req[c].sent
  IN /\ pc[c] = "consume"
     /\ CASE pairs[p].user \notin accounts ->  \* the foreign key
               Answer(c, "refused") /\ UNCHANGED <<blacklist, takenBy>>
          [] pairs[p].user \in accounts /\ Unconsumed(p) ->
               /\ blacklist' = blacklist \cup {p}
               /\ takenBy' = [takenBy EXCEPT ![p] = req[c].tab]
               /\ Goto(c, "read") /\ UNCHANGED req
          [] OTHER -> Answer(c, "replayed") /\ UNCHANGED <<blacklist, takenBy>>
     /\ UNCHANGED <<clock, accounts, revokedAt, pairs, forgotten, browser>>

\* The row is read again and a plain pair is signed for it.
ReadUser(c) ==
  /\ pc[c] = "read"
  /\ IF Caller(c) \in accounts
     THEN Sign(c, Caller(c), NoUser)
     ELSE Answer(c, "unauthorized") /\ UNCHANGED pairs
  /\ UNCHANGED <<clock, accounts, revokedAt, blacklist, forgotten, browser, takenBy>>
-----------------------------------------------------------------------------
(* apiClient: what the browser does with an answer.                        *)

\* A 401 of these is an answer like any other.
AuthEndpoints == {"login", "password"}

Done(c) == pc' = [pc EXCEPT ![c] = "idle"] /\ req' = [req EXCEPT ![c] = NoRequest]

\* The cookies a response sets or clears.
CookieAfter(c) ==
  CASE req[c].pair # 0 -> req[c].pair
    [] req[c].kind = "logout" /\ ~ req[c].refreshing /\ req[c].status = "ok" -> 0
    [] OTHER -> cookie

NeedsRefresh(c) ==
  req[c].status = "unauthorized" /\ ~ req[c].retried /\ req[c].kind \notin AuthEndpoints

Receive(c) ==
  /\ pc[c] = "answer" /\ ~ req[c].refreshing /\ ~ NeedsRefresh(c)
  /\ cookie' = CookieAfter(c)
  /\ expired' = IF req[c].kind = "login" /\ req[c].status = "ok" THEN expired \ {req[c].tab}
                ELSE expired
  /\ Done(c)
  /\ UNCHANGED <<clock, auth, leader, takenBy>>

\* Mutated client: every call refreshes for itself.
RefreshInFlightNever(t) == FALSE

RefreshInFlight(t) == leader[t] # NoCall

\* refreshTokens: start the refresh, or wait for the one in flight.
StartRefresh(c) ==
  /\ pc[c] = "answer" /\ ~ req[c].refreshing /\ NeedsRefresh(c)
  /\ ~ RefreshInFlight(req[c].tab)
  /\ UNCHANGED <<cookie, expired>>
  /\ leader' = [leader EXCEPT ![req[c].tab] = c]
  /\ Goto(c, "refresh")
  /\ req' = [req EXCEPT ![c] = [Fetch(c, req[c]) EXCEPT !.refreshing = TRUE]]
  /\ UNCHANGED <<clock, auth, takenBy>>

AwaitRefresh(c) ==
  /\ pc[c] = "answer" /\ ~ req[c].refreshing /\ NeedsRefresh(c)
  /\ RefreshInFlight(req[c].tab)
  /\ Goto(c, "waiting")
  /\ UNCHANGED <<clock, auth, browser, req, takenBy>>

\* Everyone who waits for c's refresh, and c.
Sharers(c) == {c} \cup {d \in Calls : pc[d] = "waiting" /\ req[d].tab = req[c].tab}

\* The refresh succeeded: its sharers send their requests again.
Refreshed(c) ==
  /\ pc[c] = "answer" /\ req[c].refreshing /\ req[c].status = "ok"
  /\ cookie' = CookieAfter(c)
  /\ leader' = [leader EXCEPT ![req[c].tab] = NoCall]
  /\ pc' = [d \in Calls |-> IF d \in Sharers(c) THEN "gateway" ELSE pc[d]]
  /\ req' = [d \in Calls |-> IF d \in Sharers(c) THEN [Fetch(d, req[d]) EXCEPT !.retried = TRUE]
                             ELSE req[d]]
  /\ UNCHANGED <<clock, auth, expired, takenBy>>

\* handleSessionExpiry.
GoToLogin(c) ==
  /\ leader' = [leader EXCEPT ![req[c].tab] = NoCall]
  /\ expired' = expired \cup {req[c].tab}
  /\ pc' = [d \in Calls |-> IF d \in Sharers(c) THEN "idle" ELSE pc[d]]
  /\ req' = [d \in Calls |-> IF d \in Sharers(c) THEN NoRequest ELSE req[d]]
  /\ UNCHANGED <<auth, cookie, takenBy>>

RefreshRefused(c) ==
  /\ pc[c] = "answer" /\ req[c].refreshing /\ req[c].status # "ok"
  /\ GoToLogin(c)
  /\ UNCHANGED clock

\* The answer does not arrive: the promise rejects.
Lose(c) ==
  /\ pc[c] = "answer"
  /\ faults < MaxFaults /\ faults' = faults + 1
  /\ \/ req[c].refreshing /\ GoToLogin(c)
     \/ ~ req[c].refreshing /\ Done(c) /\ UNCHANGED <<auth, browser, takenBy>>
  /\ UNCHANGED <<now, sends>>

\* An error of a service, of its database, or of the call to it; to the gateway
\* every error of the validation but a timeout is an invalid token.
Fail(c) ==
  /\ pc[c] \notin {"idle", "waiting", "answer"}
  /\ faults < MaxFaults /\ faults' = faults + 1
  /\ \/ Answer(c, "refused")
     \/ pc[c] = "gateway" /\ Answer(c, "unauthorized")
  /\ UNCHANGED <<now, sends, auth, browser, takenBy>>
-----------------------------------------------------------------------------
(* The auth service's surroundings.                                        *)

\* Bound: the clock starts with the first pair and stops after the last request.
Tick ==
  /\ now < MaxTime /\ pairs # << >>
  /\ sends < MaxSends \/ \E c \in Calls : pc[c] # "idle"
  /\ now' = now + 1
  /\ UNCHANGED <<sends, faults, auth, browser, pc, req, takenBy>>

\* expires_at < now()
Outdated(p) == RefreshExpiry(p) < now

CleanupExpired ==
  /\ blacklist' = {p \in blacklist : ~ Outdated(p)}
  /\ UNCHANGED <<clock, accounts, revokedAt, pairs, forgotten, browser, pc, req, takenBy>>

\* DeleteUserData of a user who is no admin: first the blacklist ...
DeleteRefreshTokenBlacklist(u) ==
  /\ u \in accounts \ {Admin}
  /\ faults < MaxFaults /\ faults' = faults + 1
  /\ blacklist' = {p \in blacklist : pairs[p].user # u}
  /\ forgotten' = forgotten \cup {u}
  /\ UNCHANGED <<now, sends, accounts, revokedAt, pairs, browser, pc, req, takenBy>>

Unreferenced(u) == \A p \in blacklist : pairs[p].user # u

\* ... then the user, unless a new row refers to it; datarights tries again.
DeleteUserRow(u) ==
  /\ u \in forgotten \cap accounts
  /\ Unreferenced(u)
  /\ accounts' = accounts \ {u}
  /\ UNCHANGED <<clock, revokedAt, blacklist, pairs, forgotten, browser, pc, req, takenBy>>

Serve(c) ==
  \/ Refuse(c) \/ Forbid(c) \/ Admit(c) \/ ServeApi(c) \/ Login(c) \/ ComparePassword(c)
  \/ ChangePassword(c) \/ RevokeAllUserTokens(c) \/ Reissue(c) \/ AssumeIdentity(c) \/ RestoreIdentity(c) \/ Logout(c)
  \/ ValidateRefresh(c) \/ ConsumeToken(c) \/ ReadUser(c)

Client(c) ==
  \/ Receive(c) \/ StartRefresh(c) \/ AwaitRefresh(c) \/ Refreshed(c) \/ RefreshRefused(c)

Next ==
  \/ \E c \in Calls, t \in Tabs : Use(c, t)
  \/ \E c \in Calls : Serve(c) \/ Client(c) \/ Lose(c) \/ Fail(c)
  \/ Tick \/ CleanupExpired
  \/ \E u \in Users : DeleteRefreshTokenBlacklist(u) \/ DeleteUserRow(u)

Spec == Init /\ [][Next]_vars
-----------------------------------------------------------------------------
(* Properties.                                                             *)

\* RefreshToken, ConsumeToken: a refresh token is exchanged once, whatever
\* overlaps, unless its user is being erased; a second exchange can only be
\* one that began before the token expired and ended after its cleanup.
RotatedOnce ==
  \A i, j \in DOMAIN pairs :
    /\ i < j /\ pairs[i].parent = pairs[j].parent /\ pairs[i].parent # 0
    /\ pairs[i].user \notin forgotten
    => pairs[j].issued >= RefreshExpiry(pairs[i].parent)

\* ValidateToken: a pair that was issued at the revocation or later, as that of
\* the session that changed the password, is not taken for a revoked one,
\* although its claim is rounded down to the second.
FreshPairsAreAccepted ==
  \A p \in DOMAIN pairs :
    pairs[p].user \in accounts /\ pairs[p].issued >= revokedAt[pairs[p].user] => ~ Revoked(p)

\* ChangePassword, ValidateToken: a request that was sent after a revocation
\* gets past the gateway only with a token of that second or later, unless the
\* user was erased meanwhile and the revocation with the user.
OldAccessEnds ==
  \A c \in Calls :
    pc[c] \in {"handle", "revoke"} /\ req[c].kind # "login" /\ Caller(c) \in accounts =>
    Second(pairs[req[c].sent].issued) >= Second(req[c].since)

\* refreshTokens: the calls of a tab share one refresh, so a refresh finds its
\* token consumed only after a lost answer, a logout or another tab's refresh.
RefreshesDoNotCollide ==
  \A c \in Calls : pc[c] = "answer" /\ req[c].status = "replayed" =>
    faults > 0 \/ takenBy[req[c].sent] # req[c].tab
=============================================================================
