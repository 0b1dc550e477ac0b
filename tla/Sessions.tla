------------------------------ MODULE Sessions ------------------------------
(***************************************************************************)
(* A browser session: the refresh token in an httpOnly cookie that every   *)
(* tab shares, the access token each tab keeps in memory (token-store.ts), *)
(* the refresh all the waiting calls of a tab share (api.ts), the router   *)
(* guard that restores a session when a page loads, logout, and the server *)
(* views that rotate and end refresh tokens.                               *)
(*                                                                         *)
(* RefreshTokenView verifies the token it was sent and then, in another    *)
(* statement, blacklists it and makes its heir; nothing locks the token.   *)
(* An answer may be lost after the server has acted, a page may be         *)
(* reloaded while a call is under way (the call then runs on as a stray),  *)
(* and sessions expire or are revoked from elsewhere.                      *)
(***************************************************************************)
EXTENDS Naturals, FiniteSets

CONSTANTS
  Tabs,       \* tabs of the browser
  MaxTokens,  \* bound: refresh tokens ever made
  MaxEvents   \* bound: pages loaded, calls and logouts made, tokens expired or
              \* revoked from elsewhere

ASSUME SessionBoundsAssumption == MaxTokens \in Nat \ {0} /\ MaxEvents \in Nat

VARIABLES
  fate,    \* what became of each refresh token
  cookie,  \* the refresh token the browser holds, 0 for none
  hint,    \* localStorage: whether a session may exist
  tab,     \* page, access token and waiting calls of each tab
  call,    \* the requests of each tab, and one it no longer waits for
  lost,    \* history: tokens rotated by a request whose answer is lost
  out,     \* history: "yes" after a logout until the next login, "ended" if it
           \* was answered while no refresh was under way
  events   \* how many of the bounded events there were

sessionVars == <<fate, cookie, hint, tab, call, lost, out, events>>

Tokens == 1..MaxTokens
\* "over": expired, or revoked from elsewhere.
Fates == {"unmade", "valid", "rotated", "ended", "over"}
Pages == {"login", "app", "shop"}
\* One refresh at a time per tab (refreshRequest), a logout beside it, and the
\* last request the tab gave up.
Places == {"refresh", "logout", "stray"}
Message(kind, step, token, heir, again) ==
  [kind |-> kind, step |-> step, token |-> token, heir |-> heir, again |-> again]
Idle == Message("none", "none", 0, 0, FALSE)
Shows(page, access, booted, want) ==
  [page |-> page, access |-> access, booted |-> booted, want |-> want]

SessionsTypeOK ==
  /\ fate \in [Tokens -> Fates]
  /\ cookie \in {0} \cup {k \in Tokens : fate[k] # "unmade"}
  /\ hint \in BOOLEAN
  /\ out \in {"no", "yes", "ended"}
  /\ tab \in [Tabs -> [page : Pages, access : BOOLEAN,
                       booted : BOOLEAN, want : SUBSET {"boot", "call", "logout"}]]
  /\ call \in [Tabs \X Places ->
       [kind : {"none", "refresh", "logout"},
        step : {"none", "sent", "verified", "rotated", "refused", "cleared"},
        token : 0..MaxTokens, heir : 0..MaxTokens, again : BOOLEAN]]
  /\ \A x \in Tabs \X Places : call[x].step = "rotated" <=> call[x].heir # 0
  /\ \A t \in Tabs : tab[t].want # {} => call[<<t, "refresh">>].kind = "refresh"
  /\ lost \subseteq Tokens
  /\ events \in 0..MaxEvents

\* The tabs show the shop to a visitor, or the dashboard to a user who is
\* signed in.
SessionsInit ==
  \E signedIn \in BOOLEAN :
    /\ fate = [k \in Tokens |-> IF signedIn /\ k = 1 THEN "valid" ELSE "unmade"]
    /\ cookie = (IF signedIn THEN 1 ELSE 0)
    /\ hint = signedIn
    /\ tab = [t \in Tabs |->
         Shows(IF signedIn THEN "app" ELSE "shop", signedIn, signedIn, {})]
    /\ call = [x \in Tabs \X Places |-> Idle]
    /\ lost = {} /\ out = "no" /\ events = 0
-----------------------------------------------------------------------------
Unmade == {k \in Tokens : fate[k] = "unmade"}
NextToken == CHOOSE k \in Unmade : TRUE
Refresh(t) == call[<<t, "refresh">>]
Logout(t) == call[<<t, "logout">>]

Sent(kind, c, again) == Message(kind, "sent", c, 0, again)

\* Request `c` of tab `t` is given up: a rotation already answered is lost, and
\* a request the server has not answered may run on.
LostWith(c) == IF c.step = "rotated" THEN {c.token} ELSE {}
Strays(t, c) ==
  {call[<<t, "stray">>]} \cup
    (IF c.step \in {"sent", "verified"} THEN {[c EXCEPT !.again = FALSE]} ELSE {})

\* ensureAuthBooted for a page: forced on the dashboard and the login pages,
\* tried on a shop page if the hint is set.
Boots(page, h) == page # "shop" \/ h

\* A full page load: nothing is left in memory, and the guard asks for the
\* session with cookie `c` and hint `h`.
Load(t, page, c, h) ==
  /\ tab' = [tab EXCEPT ![t] =
       Shows(page, FALSE, Boots(page, h), IF Boots(page, h) THEN {"boot"} ELSE {})]
  /\ \E stray \in Strays(t, Refresh(t)) \cup Strays(t, Logout(t)) :
       call' = [call EXCEPT
         ![<<t, "refresh">>] = IF Boots(page, h) THEN Sent("refresh", c, FALSE) ELSE Idle,
         ![<<t, "logout">>] = Idle,
         ![<<t, "stray">>] = stray]

Event == events < MaxEvents /\ events' = events + 1

\* The user opens a page, or reloads it.
Open(t, page) ==
  /\ Event
  /\ Load(t, page, cookie, hint)
  /\ lost' = lost \cup LostWith(Refresh(t))
  /\ UNCHANGED <<fate, cookie, hint, out>>

\* refreshAuthTokens: join the refresh under way, or send one.
Joined(t) ==
  IF Refresh(t).kind = "none" THEN Sent("refresh", cookie, FALSE) ELSE Refresh(t)

Wait(t, what) ==
  /\ tab' = [tab EXCEPT ![t].want = @ \cup {what}]
  /\ call' = [call EXCEPT ![<<t, "refresh">>] = Joined(t)]
  /\ UNCHANGED <<fate, cookie, hint, lost, out>>

\* The router goes from a shop page to the dashboard without a page load; the
\* boot is memoized.
Navigate(t) ==
  /\ tab[t].page = "shop" /\ tab[t].want = {}
  /\ Event
  /\ IF tab[t].booted
     THEN tab' = [tab EXCEPT ![t].page =
                    IF tab[t].access THEN "app" ELSE "login"] /\ UNCHANGED call
     ELSE /\ tab' = [tab EXCEPT ![t] = Shows("app", @.access, TRUE, {"boot"})]
          /\ call' = [call EXCEPT ![<<t, "refresh">>] = Joined(t)]
  /\ UNCHANGED <<fate, cookie, hint, lost, out>>

\* authService.login: tokens for right credentials.
Login(t) ==
  /\ tab[t].page = "login" /\ tab[t].want = {} /\ Unmade # {}
  /\ fate' = [fate EXCEPT ![NextToken] = "valid"]
  /\ cookie' = NextToken
  /\ hint' = TRUE
  /\ tab' = [tab EXCEPT ![t] = Shows("app", TRUE, @.booted, {})]
  /\ out' = "no"
  /\ UNCHANGED <<call, lost, events>>

\* The response interceptor: a call whose access token has expired is answered
\* 401 and waits for a refresh.
Call(t) ==
  /\ tab[t].access /\ "call" \notin tab[t].want
  /\ Event
  /\ Wait(t, "call")

\* authService.logout; the call waits for a refresh like any other.
StartLogout(t) ==
  /\ tab[t].page = "app" /\ tab[t].access
  /\ Logout(t).kind = "none" /\ "logout" \notin tab[t].want
  /\ Event
  /\ \/ Wait(t, "logout")
     \/ /\ call' = [call EXCEPT ![<<t, "logout">>] = Sent("logout", cookie, FALSE)]
        /\ UNCHANGED <<fate, cookie, hint, tab, lost, out>>
-----------------------------------------------------------------------------
\* Nobody waits for the answer to a stray.
Answered(x, c) == call' = [call EXCEPT ![x] = IF x[2] = "stray" THEN Idle ELSE c]
Refused(x) == Answered(x, [call[x] EXCEPT !.step = "refused"])
ServerOnly == UNCHANGED <<cookie, hint, tab, out, events>>

\* RefreshTokenView: no cookie, or a token that is blacklisted or expired, is
\* refused; so is any request when the throttle says so.
Verify(x) ==
  /\ call[x].kind = "refresh" /\ call[x].step = "sent"
  /\ \/ /\ call[x].token # 0 /\ fate[call[x].token] = "valid"
        /\ call' = [call EXCEPT ![x].step = "verified"]
     \/ Refused(x)
  /\ UNCHANGED <<fate, lost>> /\ ServerOnly

\* Mutated form: the answer to a rotation carries no new refresh token.
RotateOnly(x) ==
  /\ call[x].step = "verified" /\ Unmade # {}
  /\ fate' = [fate EXCEPT ![call[x].token] = "rotated", ![NextToken] = "valid"]
  /\ call' = [call EXCEPT ![x].step = "rotated"]
  /\ UNCHANGED lost /\ ServerOnly

\* The verified token is blacklisted, whatever happened to it since, and its
\* heir is made and put into the answer with the lifetime of the session.
Rotate(x) ==
  LET k == call[x].token
  IN /\ call[x].step = "verified" /\ Unmade # {}
     /\ fate' = [fate EXCEPT ![k] = IF @ = "valid" THEN "rotated" ELSE @,
                             ![NextToken] = "valid"]
     /\ Answered(x, Message("refresh", "rotated", k, NextToken, call[x].again))
     /\ lost' = IF x[2] = "stray" THEN lost \cup {k} ELSE lost
     /\ ServerOnly

\* LogoutView: a valid token is blacklisted and the answer clears the cookie.
EndSession(x) ==
  LET k == call[x].token
  IN /\ call[x].kind = "logout" /\ call[x].step = "sent"
     /\ IF k # 0 /\ fate[k] = "valid"
        THEN /\ fate' = [fate EXCEPT ![k] = "ended"]
             /\ Answered(x, [call[x] EXCEPT !.step = "cleared"])
        ELSE UNCHANGED fate /\ Refused(x)
     /\ UNCHANGED lost /\ ServerOnly

Serve(x) == Verify(x) \/ Rotate(x) \/ EndSession(x)

\* A token reaches its exp claim.
Expire(k) ==
  /\ fate[k] = "valid"
  /\ fate' = [fate EXCEPT ![k] = "over"]
  /\ Event
  /\ UNCHANGED <<cookie, hint, tab, call, lost, out>>

\* Another device logs out everywhere, or the password is reset: the tokens the
\* server lists as outstanding are blacklisted.  Which rotated ones the library
\* lists is left open.
RevokeAll ==
  \E revoked \in (SUBSET {k \in Tokens : fate[k] = "valid"}) \ {{}} :
    /\ fate' = [k \in Tokens |-> IF k \in revoked THEN "over" ELSE fate[k]]
    /\ Event
    /\ UNCHANGED <<cookie, hint, tab, call, lost, out>>
-----------------------------------------------------------------------------
\* A tab with a new access token; a guest page moves on to the dashboard.
SignedIn(shown) ==
  Shows(IF shown.page = "login" THEN "app" ELSE shown.page, TRUE, shown.booted, {})

\* Mutated form: the rotated token stays in the cookie.
KeepCookie(t) ==
  /\ Refresh(t).step = "rotated"
  /\ hint' = TRUE
  /\ tab' = [tab EXCEPT ![t] = SignedIn(@)]
  /\ call' = [call EXCEPT ![<<t, "refresh">>] = Idle]
  /\ UNCHANGED <<fate, cookie, lost, out, events>>

\* The refresh is answered: the browser stores the new cookie, the waiting
\* calls are repeated with the new access token.
Refreshed(t) ==
  LET heir == Refresh(t).heir
  IN /\ Refresh(t).step = "rotated"
     /\ cookie' = heir
     /\ hint' = TRUE
     /\ tab' = [tab EXCEPT ![t] = SignedIn(@)]
     /\ call' = [call EXCEPT ![<<t, "refresh">>] = Idle,
          ![<<t, "logout">>] = IF "logout" \in tab[t].want
                               THEN Sent("logout", heir, FALSE) ELSE @]
     /\ UNCHANGED <<fate, lost, out, events>>

\* Mutated form: a page that waited is left as it is.
GiveUpQuietly(t) ==
  /\ tab' = [tab EXCEPT ![t] = Shows(@.page, FALSE, @.booted, {})]
  /\ call' = [call EXCEPT ![<<t, "refresh">>] = Idle]
  /\ UNCHANGED out

\* The refresh has failed.  A boot swallows it and the guard sends a dashboard
\* page to the login; a call hands it to handleAuthFailure, which loads the
\* login page unless the tab shows a public page; a logout goes on to its end.
GiveUp(t) ==
  LET calls == tab[t].want \ {"boot"}
  IN \/ /\ calls = {} \/ (calls = {"call"} /\ tab[t].page # "app")
        /\ tab' = [tab EXCEPT ![t] =
             Shows(IF @.page = "app" THEN "login" ELSE @.page, FALSE, @.booted, {})]
        /\ call' = [call EXCEPT ![<<t, "refresh">>] = Idle]
        /\ UNCHANGED out
     \/ /\ "logout" \in calls \/ (calls # {} /\ tab[t].page = "app")
        /\ Load(t, "login", cookie, FALSE)
        /\ out' = IF "logout" \in calls THEN "yes" ELSE out

\* The refresh is refused: the first attempt drops the access token and the
\* hint at once, the second leaves that to handleAuthFailure.
Denied(t) ==
  /\ Refresh(t).step = "refused"
  /\ hint' = (hint /\ Refresh(t).again /\ tab[t].want = {"boot"})
  /\ GiveUp(t)
  /\ UNCHANGED <<fate, cookie, lost, events>>

\* Mutated form: a refresh without an answer is sent again every time.
RetryForEver(t) ==
  /\ Refresh(t).kind = "refresh"
  /\ call' = [call EXCEPT ![<<t, "refresh">>] = Sent("refresh", cookie, TRUE)]
  /\ UNCHANGED <<fate, cookie, hint, tab, lost, out, events>>

\* No answer to a refresh: it is sent once more with the cookie of the moment,
\* and the second time it has failed.
Broken(t) ==
  /\ Refresh(t).kind = "refresh"
  /\ lost' = lost \cup LostWith(Refresh(t))
  /\ \/ /\ ~Refresh(t).again
        /\ \E stray \in Strays(t, Refresh(t)) :
             call' = [call EXCEPT ![<<t, "refresh">>] = Sent("refresh", cookie, TRUE),
                                  ![<<t, "stray">>] = stray]
        /\ UNCHANGED <<hint, tab, out>>
     \/ /\ Refresh(t).again
        /\ hint' = (hint /\ tab[t].want = {"boot"})
        /\ GiveUp(t)
  /\ UNCHANGED <<fate, cookie, events>>

\* Mutated form: the answer names another path, and the cookie stays.
LeaveCookie(t) ==
  /\ Logout(t).kind = "logout"
  /\ hint' = FALSE
  /\ Load(t, "login", cookie, FALSE)
  /\ out' = IF /\ Logout(t).step = "cleared"
              /\ \A u \in Tabs : Refresh(u).kind = "none" THEN "ended" ELSE "yes"
  /\ lost' = lost \cup LostWith(Refresh(t))
  /\ UNCHANGED <<fate, cookie, events>>

\* logout ends with or without an answer, or with a refusal: the tab forgets
\* its access token and loads the login page.  Only an answer that ended the
\* session clears the cookie.
LoggedOut(t) ==
  LET answered == Logout(t).step = "cleared"
  IN /\ Logout(t).kind = "logout"
     /\ \E received \in {answered, FALSE} :
          /\ cookie' = IF received THEN 0 ELSE cookie
          /\ Load(t, "login", cookie', FALSE)
          /\ out' = IF received /\ \A u \in Tabs : Refresh(u).kind = "none"
                    THEN "ended" ELSE "yes"
     /\ hint' = FALSE
     /\ lost' = lost \cup LostWith(Refresh(t))
     /\ UNCHANGED <<fate, events>>
-----------------------------------------------------------------------------
Browser(t) ==
  \/ \E page \in Pages : Open(t, page)
  \/ Navigate(t) \/ Login(t) \/ Call(t) \/ StartLogout(t)
  \/ Refreshed(t) \/ Denied(t) \/ Broken(t) \/ LoggedOut(t)

SessionsNext ==
  \/ \E t \in Tabs : Browser(t)
  \/ \E x \in Tabs \X Places : Serve(x)
  \/ \E k \in Tokens : Expire(k)
  \/ RevokeAll

\* A connection does not stay open for ever: it is answered or it breaks.
SessionsFairness == \A t \in Tabs : WF_sessionVars(Broken(t))

SessionsSpec == SessionsInit /\ [][SessionsNext]_sessionVars /\ SessionsFairness
-----------------------------------------------------------------------------
\* The cookie is dead by rotation only while the answer that replaces it is on
\* its way or lost: tabs that refresh at the same time, late answers and logins
\* in between never put a used token back (RefreshTokenView rewrites the
\* cookie).
CookieExplained ==
  cookie # 0 /\ fate[cookie] = "rotated" =>
    \/ cookie \in lost
    \/ \E t \in Tabs : Refresh(t).step = "rotated" /\ Refresh(t).token = cookie

\* After a logout that was answered while no refresh was under way, no tab gets
\* a session back before the next login (LogoutView, authService.logout).
AnsweredLogoutEnds ==
  out = "ended" =>
    /\ cookie = 0
    /\ \A t \in Tabs : Refresh(t).step \notin {"verified", "rotated"}

\* No tab shows a dashboard page with neither an access token nor a refresh
\* under way (the guard and handleAuthFailure between them).
AppPagesAreSignedIn ==
  \A t \in Tabs : tab[t].page = "app" => tab[t].access \/ tab[t].want # {}

\* Calls that wait for a refresh do not wait for ever: one retry, and then an
\* end (refreshAuthTokens).
WaitsEnd == \A t \in Tabs : tab[t].want # {} ~> tab[t].want = {}
-----------------------------------------------------------------------------
\* logout clears and redirects "even if the revocation call fails ... so the
\* user is never stuck logged in" (authService.logout).
LogoutSticks == out # "no" => \A t \in Tabs : ~tab[t].access
=============================================================================
