------------------------------ MODULE Sessions ------------------------------
(***************************************************************************)
(* AuthService, TokensService and JwtStrategy on the server, and the API   *)
(* client and the shell of the page in the browser, for one account in one *)
(* browser: its tabs share the cookies, and each has its own script with   *)
(* its own refreshPromise. A step is one database call of a handler, or an *)
(* answer reaching the browser. Answers come in any order and may be lost. *)
(***************************************************************************)
EXTENDS Integers, Sequences

CONSTANTS
    Tabs,
    Calls,      \* the requests a page has under way besides refresh
    TabOf,      \* the tab that makes each call
    Me,         \* the calls that load users/me for the shell
    AccessTtl,  \* lifetime of an access token
    RefreshTtl, \* lifetime of a refresh token
    Inactivity, \* AppSettings.sessionInactivityTimeoutMinutes
    MaxTime, MaxTokens, MaxRefreshes,
    MaxEvents   \* sign-ins, sign-outs, resets and changes of status

ASSUME SessionAssumption ==
    /\ TabOf \in [Calls -> Tabs]
    /\ Me \subseteq Calls
    /\ {AccessTtl, RefreshTtl, Inactivity, MaxTime, MaxTokens, MaxRefreshes,
      MaxEvents} \subseteq Nat \ {0}

VARIABLES
    now,
    events,     \* how many of the MaxEvents have begun
    active,     \* the account's status is ACTIVE
    reset,      \* how far the one password reset has come
    tokens,     \* table refresh_tokens; an access token goes with each row
    jar,        \* the token whose cookies the browser holds, 0 for none
    refreshes,  \* calls of POST /auth/refresh, the oldest first
    promise,    \* refreshPromise of each tab: an index of refreshes, or 0
    calls,
    auth,       \* the sign-in or sign-out each tab waits for
    page,       \* whether a tab shows the application or the login page
    served,     \* the last time each login's access tokens were accepted
    signedOut   \* the browser has signed out and not begun to sign in again

server == <<active, reset, tokens>>
browser == <<jar, promise, page, signedOut>>
clock == <<now, events>>
vars == <<clock, server, refreshes, calls, auth, served, browser>>

Token == 1..MaxTokens
Revoked == {"no", "rotated", "logout", "reset", "inactive"}
\* login numbers the sign-in a row descends from, password the password that
\* was asked for there; idle is what a refusal for inactivity measured, and
\* spared marks what a handler overtaken by the reset issued.
TokenRow == [revoked : Revoked, at : 0..MaxTime, lastUsedAt : 0..MaxTime,
             login : Token, password : 0..1, idle : 0..MaxTime, spared : BOOLEAN]
RefreshStep == {"verify", "checkUser", "revoke", "issue",
                "granted", "refused", "over"}
Refresh == [tab : Tabs, token : 0..MaxTokens, pc : RefreshStep, verified : BOOLEAN,
            made : 0..MaxTokens, lost : BOOLEAN, late : BOOLEAN]
Call == [pc : {"idle", "sent", "served", "denied", "waiting"},
         access : 0..MaxTokens, skipAuthRetry : BOOLEAN]
Auth == [pc : {"none", "validate", "issue", "login", "revoke", "logout"},
         token : 0..MaxTokens, password : 0..1, late : BOOLEAN]
NoCall == [pc |-> "idle", access |-> 0, skipAuthRetry |-> FALSE]
NoAuth == [pc |-> "none", token |-> 0, password |-> 0, late |-> FALSE]

Row(login, password, spared) ==
    [revoked |-> "no", at |-> now, lastUsedAt |-> now, login |-> login,
     password |-> password, idle |-> 0, spared |-> spared]
SetAuthCookies(t) == jar' = t
ClearAuthCookies == jar' = 0

Live(t) == t # 0 /\ tokens[t].revoked = "no"
\* Both the cookie and the signed token end with the lifetime of the token.
AccessAccepted(t) == t # 0 /\ now - tokens[t].at < AccessTtl

\* updateMany where revokedAt is null
RevokeRefreshToken(t, why) ==
    IF Live(t) THEN [tokens EXCEPT ![t].revoked = why] ELSE tokens
RevokeAllRefreshTokens ==
    [t \in DOMAIN tokens |->
        IF Live(t) THEN [tokens[t] EXCEPT !.revoked = "reset"] ELSE tokens[t]]

\* The browser starts signed in, as after a first login.
Init ==
    /\ now = 0
    /\ events = 0
    /\ active = TRUE
    /\ reset = "none"
    /\ tokens = <<Row(1, 0, FALSE)>>
    /\ jar = 1
    /\ refreshes = <<>>
    /\ promise = [b \in Tabs |-> 0]
    /\ calls = [c \in Calls |-> NoCall]
    /\ auth = [b \in Tabs |-> NoAuth]
    /\ page = [b \in Tabs |-> "app"]
    /\ served = [l \in Token |-> 0]
    /\ signedOut = FALSE

-----------------------------------------------------------------------------
(* An API call and its one retry.                                          *)

\* A page sends a request with the cookies of the moment.
Send(c) ==
    /\ calls[c].pc = "idle"
    /\ page[TabOf[c]] = "app"
    /\ calls' = [calls EXCEPT ![c] = [pc |-> "sent", access |-> jar,
                                      skipAuthRetry |-> FALSE]]
    /\ UNCHANGED <<clock, server, refreshes, auth, served, browser>>

\* The access token is checked, and the account's status read again.
Validate(c) ==
    /\ calls[c].pc = "sent"
    /\ LET t == calls[c].access
           accepted == AccessAccepted(t) /\ active
       IN  /\ calls' = [calls EXCEPT ![c].pc = IF accepted THEN "served" ELSE "denied",
                                     ![c].access = 0]
           /\ served' = IF accepted THEN [served EXCEPT ![tokens[t].login] = now]
                                    ELSE served
    /\ UNCHANGED <<clock, server, refreshes, auth, browser>>

\* A failed users/me sends the tab to the login page.
PagesWithout(failed) ==
    [b \in Tabs |-> IF \E c \in failed \cap Me : TabOf[c] = b THEN "login" ELSE page[b]]

\* The tab waits for the refresh it has under way, or starts one.
StartRefresh(b) ==
    /\ Len(refreshes) < MaxRefreshes
    /\ refreshes' = Append(refreshes,
           [tab |-> b, token |-> jar, pc |-> "verify", verified |-> FALSE,
            made |-> 0, lost |-> FALSE, late |-> FALSE])
    /\ promise' = [promise EXCEPT ![b] = Len(refreshes) + 1]
\* Mutant: every request that fails starts a refresh of its own.
TryRefreshAlone(b) == StartRefresh(b)
TryRefresh(b) ==
    \/ promise[b] # 0 /\ UNCHANGED <<refreshes, promise>>
    \/ promise[b] = 0 /\ StartRefresh(b)

\* The answer reaches the page; after a 401 the call waits for the tab's
\* refresh, unless it is the retry.
Answer(c) ==
    /\ calls[c].pc \in {"served", "denied"}
    /\ LET b == TabOf[c]
           again == calls[c].pc = "denied" /\ ~calls[c].skipAuthRetry
       IN  \/ /\ again
              /\ TryRefresh(b)
              /\ calls' = [calls EXCEPT ![c].pc = "waiting"]
              /\ UNCHANGED page
           \/ /\ ~again
              /\ calls' = [calls EXCEPT ![c] = NoCall]
              /\ page' = IF calls[c].pc = "denied" THEN PagesWithout({c}) ELSE page
              /\ UNCHANGED <<refreshes, promise>>
    /\ UNCHANGED <<clock, server, auth, served, jar, signedOut>>

-----------------------------------------------------------------------------
(* POST /auth/refresh.                                                     *)

RefreshStepTo(r, step) == refreshes' = [refreshes EXCEPT ![r].pc = step]

\* verifyRefreshToken: no row, a revoked or an expired one is refused; one
\* issued too long ago is revoked as inactive and refused.
VerifyRefreshToken(r) ==
    /\ refreshes[r].pc = "verify"
    /\ LET t == refreshes[r].token
           usable == Live(t) /\ now - tokens[t].at <= RefreshTtl
           inactive == usable /\ now - tokens[t].lastUsedAt > Inactivity
       IN  /\ refreshes' = [refreshes EXCEPT
                  ![r].pc = IF usable /\ ~inactive THEN "checkUser" ELSE "refused",
                  ![r].verified = usable /\ ~inactive]
           /\ tokens' = IF inactive
                        THEN [tokens EXCEPT ![t].revoked = "inactive",
                                            ![t].idle = now - served[tokens[t].login]]
                        ELSE tokens
    /\ UNCHANGED <<clock, active, reset, calls, auth, served, browser>>

RefreshCheckUser(r) ==
    /\ refreshes[r].pc = "checkUser"
    /\ RefreshStepTo(r, IF active THEN "revoke" ELSE "refused")
    /\ UNCHANGED <<clock, server, calls, auth, served, browser>>

\* Mutant: the token that was presented stays usable.
RotateRevokeNothing(r) ==
    /\ refreshes[r].pc = "revoke"
    /\ RefreshStepTo(r, "issue")
    /\ UNCHANGED <<clock, server, calls, auth, served, browser>>

\* rotateRefreshToken is two calls: the old row is revoked,
RotateRevoke(r) ==
    /\ refreshes[r].pc = "revoke"
    /\ tokens' = RevokeRefreshToken(refreshes[r].token, "rotated")
    /\ RefreshStepTo(r, "issue")
    /\ UNCHANGED <<clock, active, reset, calls, auth, served, browser>>

\* Mutant: the new row keeps the lastUsedAt of the old one.
RotateIssueStale(r) ==
    /\ refreshes[r].pc = "issue"
    /\ Len(tokens) < MaxTokens
    /\ LET old == tokens[refreshes[r].token]
       IN  tokens' = Append(tokens, [old EXCEPT !.revoked = "no", !.at = now,
                                     !.spared = old.spared \/ refreshes[r].late])
    /\ refreshes' = [refreshes EXCEPT ![r].pc = "granted", ![r].made = Len(tokens) + 1]
    /\ UNCHANGED <<clock, active, reset, calls, auth, served, browser>>

\* and a new one inserted, whether or not the update found a row to revoke.
RotateIssue(r) ==
    /\ refreshes[r].pc = "issue"
    /\ Len(tokens) < MaxTokens
    /\ LET old == tokens[refreshes[r].token]
       IN  tokens' = Append(tokens, Row(old.login, old.password,
                                        old.spared \/ refreshes[r].late))
    /\ refreshes' = [refreshes EXCEPT ![r].pc = "granted", ![r].made = Len(tokens) + 1]
    /\ UNCHANGED <<clock, active, reset, calls, auth, served, browser>>

Waiting(b) == {c \in Calls : TabOf[c] = b /\ calls[c].pc = "waiting"}

\* Mutant: only the call that started the refresh hears of it.
RefreshArrivesOnce(r) ==
    /\ refreshes[r].pc \in {"granted", "refused"}
    /\ ~refreshes[r].lost
    /\ LET b == refreshes[r].tab
           granted == refreshes[r].pc = "granted"
           woken == {CHOOSE c \in Calls : c \in Waiting(b)} \cap Waiting(b)
       IN  /\ IF granted THEN SetAuthCookies(refreshes[r].made) ELSE UNCHANGED jar
           /\ promise' = [promise EXCEPT ![b] = 0]
           /\ calls' = [c \in Calls |->
                  IF c \notin woken THEN calls[c]
                  ELSE IF granted
                  THEN [pc |-> "sent", access |-> refreshes[r].made,
                        skipAuthRetry |-> TRUE]
                  ELSE NoCall]
           /\ page' = IF granted THEN page ELSE PagesWithout(woken)
    /\ RefreshStepTo(r, "over")
    /\ UNCHANGED <<clock, server, auth, served, signedOut>>

\* The answer sets the cookies, settles the promise, and every call that
\* waited for it is sent again, or fails.
RefreshArrives(r) ==
    /\ refreshes[r].pc \in {"granted", "refused"}
    /\ ~refreshes[r].lost
    /\ LET b == refreshes[r].tab
           granted == refreshes[r].pc = "granted"
           woken == Waiting(b)
       IN  /\ IF granted THEN SetAuthCookies(refreshes[r].made) ELSE UNCHANGED jar
           /\ promise' = [promise EXCEPT ![b] = 0]
           /\ calls' = [c \in Calls |->
                  IF c \notin woken THEN calls[c]
                  ELSE IF granted
                  THEN [pc |-> "sent", access |-> refreshes[r].made,
                        skipAuthRetry |-> TRUE]
                  ELSE NoCall]
           /\ page' = IF granted THEN page ELSE PagesWithout(woken)
    /\ RefreshStepTo(r, "over")
    /\ UNCHANGED <<clock, server, auth, served, signedOut>>

\* The connection breaks: fetch rejects, and so does every call that waited.
\* The handler runs on without anyone to answer.
RefreshLost(r) ==
    /\ refreshes[r].pc # "over"
    /\ ~refreshes[r].lost
    /\ LET b == refreshes[r].tab
       IN  /\ promise' = [promise EXCEPT ![b] = 0]
           /\ calls' = [c \in Calls |-> IF c \in Waiting(b) THEN NoCall ELSE calls[c]]
           /\ page' = PagesWithout(Waiting(b))
    /\ refreshes' = [refreshes EXCEPT ![r].lost = TRUE]
    /\ UNCHANGED <<clock, server, auth, served, jar, signedOut>>

-----------------------------------------------------------------------------
(* Sign-in, sign-out, password reset, and what happens besides.            *)

\* One of the events the instance has room for.
Event ==
    /\ events < MaxEvents
    /\ events' = events + 1

\* The login form is submitted with the current password.
Login(b) ==
    /\ Event
    /\ page[b] = "login"
    /\ auth[b].pc = "none"
    /\ auth' = [auth EXCEPT ![b] = [NoAuth EXCEPT !.pc = "validate"]]
    /\ signedOut' = FALSE
    /\ UNCHANGED <<now, server, refreshes, calls, served, jar, promise, page>>

ValidateCredentials(b) ==
    /\ auth[b].pc = "validate"
    /\ auth' = [auth EXCEPT ![b] =
           IF active
           THEN [@ EXCEPT !.pc = "issue",
                          !.password = IF reset \in {"changed", "done"} THEN 1 ELSE 0]
           ELSE NoAuth]
    /\ UNCHANGED <<clock, server, refreshes, calls, served, browser>>

IssueSessionTokens(b) ==
    /\ auth[b].pc = "issue"
    /\ Len(tokens) < MaxTokens
    /\ LET t == Len(tokens) + 1
       IN  /\ tokens' = Append(tokens, Row(t, auth[b].password, auth[b].late))
           /\ served' = [served EXCEPT ![t] = now]
           /\ auth' = [auth EXCEPT ![b].pc = "login", ![b].token = t]
    /\ UNCHANGED <<clock, active, reset, refreshes, calls, browser>>

LoginArrives(b) ==
    /\ auth[b].pc = "login"
    /\ SetAuthCookies(auth[b].token)
    /\ page' = [page EXCEPT ![b] = "app"]
    /\ auth' = [auth EXCEPT ![b] = NoAuth]
    /\ UNCHANGED <<clock, server, refreshes, calls, served, promise, signedOut>>

Logout(b) ==
    /\ Event
    /\ page[b] = "app"
    /\ auth[b].pc = "none"
    /\ auth' = [auth EXCEPT ![b] = [NoAuth EXCEPT !.pc = "revoke", !.token = jar]]
    /\ UNCHANGED <<now, server, refreshes, calls, served, browser>>

LogoutRevoke(b) ==
    /\ auth[b].pc = "revoke"
    /\ tokens' = RevokeRefreshToken(auth[b].token, "logout")
    /\ auth' = [auth EXCEPT ![b].pc = "logout"]
    /\ UNCHANGED <<clock, active, reset, refreshes, calls, served, browser>>

\* The answer clears both cookies, and the page its cache.
LogoutArrives(b) ==
    /\ auth[b].pc = "logout"
    /\ ClearAuthCookies
    /\ page' = [page EXCEPT ![b] = "login"]
    /\ auth' = [auth EXCEPT ![b] = NoAuth]
    /\ signedOut' = TRUE
    /\ UNCHANGED <<clock, server, refreshes, calls, served, promise>>

\* resetPassword: the link is checked, one transaction sets the password and
\* uses the link up, and then, outside of it, the sessions are revoked.
ResetCheck ==
    /\ Event
    /\ reset = "none"
    /\ reset' = "checked"
    /\ UNCHANGED <<now, active, tokens, refreshes, calls, auth, served, browser>>

ResetCommit ==
    /\ reset = "checked"
    /\ reset' = "changed"
    /\ UNCHANGED <<clock, active, tokens, refreshes, calls, auth, served, browser>>

\* Mutant: only the newest session is revoked.
ResetRevokeNewest ==
    /\ reset = "changed"
    /\ reset' = "done"
    /\ tokens' = RevokeRefreshToken(Len(tokens), "reset")
    /\ refreshes' = [r \in DOMAIN refreshes |->
           [refreshes[r] EXCEPT
               !.late = refreshes[r].pc \in {"checkUser", "revoke", "issue"}]]
    /\ auth' = [b \in Tabs |-> [auth[b] EXCEPT !.late = auth[b].pc = "issue"]]
    /\ UNCHANGED <<clock, active, calls, served, browser>>

\* What is overtaken here still holds a token, or a password, it has checked.
ResetRevokeAll ==
    /\ reset = "changed"
    /\ reset' = "done"
    /\ tokens' = RevokeAllRefreshTokens
    /\ refreshes' = [r \in DOMAIN refreshes |->
           [refreshes[r] EXCEPT
               !.late = refreshes[r].pc \in {"checkUser", "revoke", "issue"}]]
    /\ auth' = [b \in Tabs |-> [auth[b] EXCEPT !.late = auth[b].pc = "issue"]]
    /\ UNCHANGED <<clock, active, calls, served, browser>>

\* UsersService.adminUpdate suspends the account or activates it again.
SetStatus ==
    /\ Event
    /\ active' = ~active
    /\ UNCHANGED <<now, reset, tokens, refreshes, calls, auth, served, browser>>

Tick ==
    /\ now < MaxTime
    /\ now' = now + 1
    /\ UNCHANGED <<events, server, refreshes, calls, auth, served, browser>>

-----------------------------------------------------------------------------
RefreshHandler(r) ==
    \/ VerifyRefreshToken(r) \/ RefreshCheckUser(r)
    \/ RotateRevoke(r) \/ RotateIssue(r) \/ RefreshArrives(r)

Next ==
    \/ \E c \in Calls : Send(c) \/ Validate(c) \/ Answer(c)
    \/ \E r \in DOMAIN refreshes : RefreshHandler(r) \/ RefreshLost(r)
    \/ \E b \in Tabs : \/ Login(b) \/ ValidateCredentials(b)
                       \/ IssueSessionTokens(b) \/ LoginArrives(b)
                       \/ Logout(b) \/ LogoutRevoke(b) \/ LogoutArrives(b)
    \/ ResetCheck \/ ResetCommit \/ ResetRevokeAll
    \/ SetStatus
    \/ Tick

Spec == Init /\ [][Next]_vars

-----------------------------------------------------------------------------
TypeOK ==
    /\ now \in 0..MaxTime
    /\ events \in 0..MaxEvents
    /\ active \in BOOLEAN
    /\ reset \in {"none", "checked", "changed", "done"}
    /\ tokens \in Seq(TokenRow) /\ Len(tokens) <= MaxTokens
    /\ jar \in 0..Len(tokens)
    /\ refreshes \in Seq(Refresh) /\ Len(refreshes) <= MaxRefreshes
    /\ promise \in [Tabs -> 0..Len(refreshes)]
    /\ calls \in [Calls -> Call]
    /\ auth \in [Tabs -> Auth]
    /\ page \in [Tabs -> {"app", "login"}]
    /\ served \in [Token -> 0..MaxTime]
    /\ signedOut \in BOOLEAN

\* A tab presents a refresh token twice only when it never heard the first
\* answer or was refused: requests that fail together share one refresh.
OnePresentation ==
    \A r, s \in DOMAIN refreshes :
        (r < s /\ refreshes[r].tab = refreshes[s].tab
               /\ refreshes[r].token = refreshes[s].token)
            => \/ refreshes[r].lost
               \/ refreshes[r].pc = "over" /\ refreshes[r].made = 0

\* Whoever waits for a refresh waits for one that will still be heard, so no
\* request of a page hangs for ever.
WaitersAreHeard ==
    \A c \in Calls :
        calls[c].pc = "waiting" =>
            LET r == promise[TabOf[c]]
            IN  /\ r # 0
                /\ refreshes[r].tab = TabOf[c]
                /\ refreshes[r].pc # "over" /\ ~refreshes[r].lost

\* Two refreshes have verified the same token of a login.
Forked(l) ==
    \E r, s \in DOMAIN refreshes :
        /\ r # s
        /\ refreshes[r].verified /\ refreshes[s].verified
        /\ refreshes[r].token = refreshes[s].token
        /\ tokens[refreshes[r].token].login = l

\* Rotation: one login has two usable refresh tokens only if two refreshes
\* verified the same one before either revoked it.
RotationLinear ==
    \A t, u \in DOMAIN tokens :
        (t # u /\ Live(t) /\ Live(u) /\ tokens[t].login = tokens[u].login)
            => Forked(tokens[t].login)

\* Inactivity is measured from the last rotation, not from the last request:
\* still, nobody is thrown out as inactive who was served within the window
\* less the lifetime of an access token. A login of which two refreshes verified
\* the same token is excepted: one branch is idle while the other is served.
InactiveMeansIdle ==
    \A t \in DOMAIN tokens :
        tokens[t].revoked = "inactive" =>
            tokens[t].idle > Inactivity - AccessTtl \/ Forked(tokens[t].login)

\* Once a password reset is complete, a session of the old password survives
\* only if a refresh or a login was past its checks when the reset revoked.
ResetEndsSessions ==
    \A t \in DOMAIN tokens :
        (reset = "done" /\ Live(t) /\ tokens[t].password = 0) => tokens[t].spared

\* After logout the browser holds no usable session until the next login.
LogoutInvalidates == signedOut => ~Live(jar)

=============================================================================
