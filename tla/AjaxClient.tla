----------------------------- MODULE AjaxClient -----------------------------
(***************************************************************************)
(* The credentials of the web clients: Ajax.ts, which attaches them to     *)
(* every request and refreshes them, the browser's storage they are kept   *)
(* in, and the pages that obtain and drop them.  Each tab has a page with  *)
(* its own credentials and a session storage; the local storage, where the *)
(* refresh token of a user who asked to be remembered is kept, is shared.  *)
(*                                                                         *)
(* A pair of tokens the server issues is a number; Nothing stands for none.*)
(* An action is the callback of an event with the promises it resolves.    *)
(* The server keeps the refresh tokens that are valid, and replaces one by *)
(* the next when it is used (auth-router.go, module Accounts).             *)
(***************************************************************************)
EXTENDS Naturals

CONSTANTS
  Tabs,
  Slots,        \* the requests a page has pending
  First,        \* the slot a page starts with
  MaxTokens,    \* bounds the tokens the server issues
  MaxInputs     \* bounds what the users do

ASSUME ClientAssumption == First \in Slots /\ MaxTokens \in Nat /\ MaxInputs \in Nat

Nothing == 0
Tokens == 1 .. MaxTokens

VARIABLES
  status,       \* of each tab: closed, verifying its token, ready, or stuck
  app,          \* the client it shows: for booking, or for administration
  cred,         \* Ajax.CREDENTIALS: an access and a refresh token
  session,      \* the token in the session storage of each tab
  local,        \* the refresh token in the local storage
  request,      \* the requests of each tab
  issued,       \* the number of tokens issued
  valid,        \* the refresh tokens the server accepts
  expired,      \* the tokens whose accessTokenExpiry has passed
  inputs,       \* what the users may still do
  \* History variables.
  remembered,   \* the tokens that go back to a login with "remember me"
  usedBy,       \* the tabs that used a refresh token
  spoiled,      \* tokens the server forgot, and tokens whose successor nobody got
  mixed,        \* a tab has stored its token over that of another login
  forgotten,    \* no one has asked to be remembered since a tab forgot its user
  loggedOut,    \* the tabs whose user logged out
  revived       \* the tabs that had a refresh pending at that time

pages == <<status, app>>
storage == <<session, local>>
server == <<issued, valid>>
ghosts == <<remembered, usedBy, spoiled, mixed, forgotten, loggedOut, revived>>
vars == <<pages, cred, storage, request, server, expired, inputs, ghosts>>

NoCredentials == [access |-> Nothing, refresh |-> Nothing]
Pair(n) == [access |-> n, refresh |-> n]

\* What a request is for: any query of a page, the two of verifyToken, its call
\* of refreshAccessToken, the role the sidebar asks for, and the logins.
Purposes == {"page", "self", "settings", "verify", "role", "login", "loginRemember"}
Stages == {"idle", "queued", "posted", "rotated", "refused", "sent"}
Request(at, purpose, token) == [at |-> at, for |-> purpose, token |-> token, next |-> Nothing]
Idle == Request("idle", "page", Nothing)

----------------------------------------------------------------------------
(* Ajax.query and the mutex of Ajax.refreshAccessToken.  The mutex is held *)
(* while a refresh is pending; whoever waits for it has its turn in the    *)
(* same moment as it is released.                                          *)

IsFresh(c) == c.access # Nothing /\ c.access \notin expired
Holds(q) == q.at \in {"posted", "rotated", "refused"}
Refreshing(rs) == \E r \in Slots : Holds(rs[r])

AskedWithoutMutex(c, rs, purpose) == \* mutant
  IF c.refresh = Nothing \/ IsFresh(c) THEN Request("sent", purpose, c.access)
  ELSE Request("posted", purpose, c.refresh)

\* A request for a purpose, by a page with the credentials c and the requests rs.
Asked(c, rs, purpose) ==
  IF c.refresh = Nothing THEN Request("sent", purpose, c.access)
  ELSE IF Refreshing(rs) THEN Request("queued", purpose, c.refresh)
  ELSE IF IsFresh(c) THEN Request("sent", purpose, c.access)
  ELSE Request("posted", purpose, c.refresh)

ReleasedByAnswerOnly(rs, r, x, c) == \* mutant
  {[w \in Slots |-> IF w = r THEN x
                    ELSE IF rs[w].at = "queued" /\ IsFresh(c)
                      THEN Request("sent", rs[w].for, c.access)
                    ELSE rs[w]]}

\* Slot r releases the mutex and goes on as x, with the credentials c by now:
\* all who wait go on with a fresh token; otherwise the next one refreshes, with
\* the refresh token it has come with.
Released(rs, r, x, c) ==
  LET waiting == {w \in Slots : rs[w].at = "queued"}
  IN  IF IsFresh(c)
        THEN {[w \in Slots |-> IF w = r THEN x
                               ELSE IF w \in waiting THEN Request("sent", rs[w].for, c.access)
                               ELSE rs[w]]}
      ELSE IF waiting = {} THEN {[rs EXCEPT ![r] = x]}
      ELSE {[rs EXCEPT ![r] = x, ![w].at = "posted"] : w \in waiting}

StoredForGood(t, n) == \* mutant
  /\ cred' = [cred EXCEPT ![t] = Pair(n)] /\ session' = [session EXCEPT ![t] = n]
  /\ local' = n /\ mixed' = (mixed \/ (local # Nothing /\ n \notin remembered'))
StoredAside(t, n) == \* mutant
  /\ cred' = [cred EXCEPT ![t] = Pair(n)] /\ session' = [session EXCEPT ![t] = n]
  /\ UNCHANGED <<local, mixed>>

\* A refresh has succeeded: the session storage, and the local storage if it
\* holds a token, whosever it is.
Stored(t, n) ==
  /\ cred' = [cred EXCEPT ![t] = Pair(n)]
  /\ session' = [session EXCEPT ![t] = n]
  /\ local' = IF local # Nothing THEN n ELSE local
  /\ mixed' = (mixed \/ (local # Nothing /\ n \notin remembered'))

DropMemory(t) == \* mutant
  /\ cred' = [cred EXCEPT ![t] = NoCredentials] /\ local' = Nothing
  /\ forgotten' = TRUE /\ UNCHANGED session

\* deleteCredentialsFromSessionStorage: the local storage, too.
Drop(t) ==
  /\ cred' = [cred EXCEPT ![t] = NoCredentials]
  /\ session' = [session EXCEPT ![t] = Nothing]
  /\ local' = Nothing
  /\ forgotten' = TRUE

\* A request is rejected.  Without an answer to getSelf the user is forgotten;
\* nobody catches the failure of the settings, or of a refresh in verifyToken.
Rejected(t, purpose) ==
  /\ status' = CASE purpose = "self" -> [status EXCEPT ![t] = "ready"]
                 [] purpose \in {"settings", "verify"} -> [status EXCEPT ![t] = "stuck"]
                 [] OTHER -> status
  /\ IF purpose = "self" THEN Drop(t) ELSE UNCHANGED <<cred, storage, forgotten>>

----------------------------------------------------------------------------
Init ==
  /\ status = [t \in Tabs |-> "closed"] /\ app = [t \in Tabs |-> "booking"]
  /\ cred = [t \in Tabs |-> NoCredentials]
  /\ session = [t \in Tabs |-> Nothing] /\ local = Nothing
  /\ request = [t \in Tabs |-> [r \in Slots |-> Idle]]
  /\ issued = 0 /\ valid = {} /\ expired = {} /\ inputs = MaxInputs
  /\ remembered = {} /\ usedBy = [n \in Tokens |-> {}] /\ spoiled = {} /\ mixed = FALSE
  /\ forgotten = TRUE /\ loggedOut = {} /\ revived = {}

Input == inputs > 0 /\ inputs' = inputs - 1

\* The page of a tab is left: a refresh that is on its way may still reach the
\* server, but nobody gets its answer.
Left(t) ==
  LET posted == {request[t][r].token : r \in {x \in Slots : request[t][x].at = "posted"}}
      rotated == {request[t][r].token : r \in {x \in Slots : request[t][x].at = "rotated"}}
  IN  \E served \in SUBSET (posted \cap valid) :
        valid' = valid \ served /\ spoiled' = spoiled \cup served \cup rotated

----------------------------------------------------------------------------
(* What the users do.                                                      *)

\* _app.tsx: a page is loaded, or loaded again, with nothing but what is
\* stored.  The booking client verifies its token before it shows a page.
Open(t, a) ==
  /\ Input /\ Left(t)
  /\ app' = [app EXCEPT ![t] = a]
  /\ LET n == IF session[t] = Nothing /\ a = "booking" THEN local ELSE session[t]
         c == IF session[t] # Nothing THEN Pair(n) ELSE [NoCredentials EXCEPT !.refresh = n]
         none == [r \in Slots |-> Idle]
         first == IF a = "admin" \/ n = Nothing THEN Idle
                  ELSE IF c.access = Nothing THEN Request("posted", "verify", n)
                  ELSE Asked(c, none, "self")
     IN  /\ cred' = [cred EXCEPT ![t] = c]
         /\ request' = [request EXCEPT ![t] = [none EXCEPT ![First] = first]]
         /\ status' = [status EXCEPT ![t] = IF first = Idle THEN "ready" ELSE "verifying"]
         /\ loggedOut' = IF n = Nothing THEN loggedOut ELSE loggedOut \ {t}
  /\ revived' = revived \ {t}
  /\ UNCHANGED <<storage, issued, expired, remembered, usedBy, mixed, forgotten>>

\* The session storage goes with the tab.
Close(t) ==
  /\ Input /\ status[t] # "closed" /\ Left(t)
  /\ status' = [status EXCEPT ![t] = "closed"]
  /\ cred' = [cred EXCEPT ![t] = NoCredentials] /\ session' = [session EXCEPT ![t] = Nothing]
  /\ request' = [request EXCEPT ![t] = [r \in Slots |-> Idle]]
  /\ loggedOut' = loggedOut \ {t} /\ revived' = revived \ {t}
  /\ UNCHANGED <<app, local, issued, expired, remembered, usedBy, mixed, forgotten>>

\* The booking client shows its login only without a token, and its sidebar is
\* the other client's.
MayAsk(t, purpose) ==
  /\ purpose \in {"page", "role", "login", "loginRemember"}
  /\ app[t] = "admin" => purpose # "loginRemember"
  /\ app[t] = "booking" => purpose # "role"
  /\ app[t] = "booking" /\ cred[t].access # Nothing => purpose = "page"

Query(t, r, purpose) ==
  /\ Input /\ status[t] = "ready" /\ request[t][r] = Idle /\ MayAsk(t, purpose)
  /\ request' = [request EXCEPT ![t][r] = Asked(cred[t], request[t], purpose)]
  /\ UNCHANGED <<pages, cred, storage, server, expired, ghosts>>

\* NavBar.logOut: the server is not told, and what is pending stays pending.
Logout(t) ==
  /\ Input /\ status[t] = "ready" /\ cred[t].access # Nothing
  /\ Drop(t)
  /\ loggedOut' = loggedOut \cup {t}
  /\ revived' = IF Refreshing(request[t]) THEN revived \cup {t} ELSE revived
  /\ UNCHANGED <<pages, request, server, expired, remembered, usedBy, spoiled, mixed>>

User == \E t \in Tabs :
  \/ \E a \in {"booking", "admin"} : Open(t, a)
  \/ Close(t) \/ Logout(t)
  \/ \E r \in Slots, purpose \in Purposes : Query(t, r, purpose)

----------------------------------------------------------------------------
(* The network and the server.                                             *)

ServerRefresh(t, r) ==
  LET q == request[t][r]
  IN  /\ q.at = "posted"
      /\ usedBy' = [usedBy EXCEPT ![q.token] = @ \cup {t}]
      /\ IF q.token \in valid
           THEN /\ issued < MaxTokens /\ issued' = issued + 1
                /\ valid' = (valid \ {q.token}) \cup {issued'}
                /\ remembered' = IF q.token \in remembered THEN remembered \cup {issued'}
                                 ELSE remembered
                /\ request' = [request EXCEPT ![t][r].at = "rotated", ![t][r].next = issued']
           ELSE /\ request' = [request EXCEPT ![t][r].at = "refused"]
                /\ UNCHANGED <<server, remembered>>
      /\ UNCHANGED <<pages, cred, storage, expired, inputs, spoiled, mixed, forgotten, loggedOut,
                     revived>>

Refreshed(t, r) ==
  LET q == request[t][r]
  IN  /\ q.at = "rotated"
      /\ UNCHANGED remembered
      /\ Stored(t, q.next)
      /\ \E rs \in Released(request[t], r,
                            Request("sent", IF q.for = "verify" THEN "self" ELSE q.for, q.next),
                            Pair(q.next)) :
           request' = [request EXCEPT ![t] = rs]
      /\ UNCHANGED <<pages, server, expired, inputs, usedBy, spoiled, forgotten, loggedOut,
                     revived>>

RefusedUnresolved(t, r) == \* mutant
  LET q == request[t][r]
  IN  /\ q.at = "refused" /\ Drop(t)
      /\ \E rs \in Released(request[t], r,
                            IF q.for = "verify" THEN Idle ELSE Request("sent", q.for, Nothing),
                            NoCredentials) :
           request' = [request EXCEPT ![t] = rs]
      /\ UNCHANGED <<pages, server, expired, inputs, remembered, usedBy, spoiled, mixed, loggedOut,
                     revived>>

\* The request goes on without a token; verifyToken shows the page.
RefreshRefused(t, r) ==
  LET q == request[t][r]
  IN  /\ q.at = "refused"
      /\ Drop(t)
      /\ status' = IF q.for = "verify" THEN [status EXCEPT ![t] = "ready"] ELSE status
      /\ \E rs \in Released(request[t], r,
                            IF q.for = "verify" THEN Idle ELSE Request("sent", q.for, Nothing),
                            NoCredentials) :
           request' = [request EXCEPT ![t] = rs]
      /\ UNCHANGED <<app, server, expired, inputs, remembered, usedBy, spoiled, mixed, loggedOut,
                     revived>>

\* A network error, before or after the server has had the request.
RefreshLost(t, r) ==
  LET q == request[t][r]
  IN  /\ Holds(q)
      /\ spoiled' = IF q.at = "rotated" THEN spoiled \cup {q.token} ELSE spoiled
      /\ Rejected(t, q.for)
      /\ \E rs \in Released(request[t], r, Idle, cred[t]) : request' = [request EXCEPT ![t] = rs]
      /\ UNCHANGED <<app, server, expired, inputs, remembered, usedBy, mixed, loggedOut, revived>>

\* A request of verifyToken, or of a page that does nothing to the credentials.
QueryAnswered(t, r) ==
  LET q == request[t][r]
  IN  /\ q.at = "sent" /\ q.for \notin {"login", "loginRemember"}
      /\ request' = [request EXCEPT ![t][r] =
                       IF q.for = "self" THEN Asked(cred[t], request[t], "settings") ELSE Idle]
      /\ status' = IF q.for = "settings" THEN [status EXCEPT ![t] = "ready"] ELSE status
      /\ UNCHANGED <<app, cred, storage, server, expired, inputs, ghosts>>

\* SideBar: someone without a role in the administration is sent to the login.
RoleRefused(t, r) ==
  LET q == request[t][r]
  IN  /\ q.at = "sent" /\ q.for = "role"
      /\ Drop(t)
      /\ request' = [request EXCEPT ![t][r] = Idle]
      /\ UNCHANGED <<pages, server, expired, inputs, remembered, usedBy, spoiled, mixed, loggedOut,
                     revived>>

QueryFailed(t, r) ==
  LET q == request[t][r]
  IN  /\ q.at = "sent"
      /\ Rejected(t, q.for)
      /\ request' = [request EXCEPT ![t][r] = Idle]
      /\ UNCHANGED <<app, server, expired, inputs, remembered, usedBy, spoiled, mixed, loggedOut,
                     revived>>

\* onPasswordSubmit, or the page an OAuth provider returns to.
LoggedIn(t, r) ==
  LET q == request[t][r]
      n == issued + 1
  IN  /\ q.at = "sent" /\ q.for \in {"login", "loginRemember"} /\ issued < MaxTokens
      /\ issued' = n /\ valid' = valid \cup {n}
      /\ cred' = [cred EXCEPT ![t] = Pair(n)] /\ session' = [session EXCEPT ![t] = n]
      /\ IF q.for = "loginRemember"
           THEN local' = n /\ remembered' = remembered \cup {n} /\ forgotten' = FALSE
           ELSE UNCHANGED <<local, remembered, forgotten>>
      /\ loggedOut' = loggedOut \ {t} /\ revived' = revived \ {t}
      /\ request' = [request EXCEPT ![t][r] = Idle]
      /\ UNCHANGED <<pages, expired, inputs, usedBy, spoiled, mixed>>

Exchange(t, r) ==
  \/ ServerRefresh(t, r) \/ Refreshed(t, r) \/ RefreshRefused(t, r) \/ RefreshLost(t, r)
  \/ QueryAnswered(t, r) \/ RoleRefused(t, r) \/ QueryFailed(t, r) \/ LoggedIn(t, r)

\* Five minutes after it has got it a page takes an access token for expired.
Expire(n) ==
  /\ n \notin expired /\ expired' = expired \cup {n}
  /\ \E t \in Tabs : cred[t].access = n
  /\ UNCHANGED <<pages, cred, storage, request, server, inputs, ghosts>>

\* The server deletes a refresh token: its time is up, or its user is banned.
Forget(n) ==
  /\ n \in valid /\ valid' = valid \ {n} /\ spoiled' = spoiled \cup {n}
  /\ UNCHANGED <<pages, cred, storage, request, issued, expired, inputs, remembered, usedBy, mixed,
                 forgotten, loggedOut, revived>>

Next ==
  \/ User
  \/ \E t \in Tabs, r \in Slots : Exchange(t, r)
  \/ \E n \in Tokens : Expire(n) \/ Forget(n)

Spec == Init /\ [][Next]_vars

\* Every request is answered or fails.
Fairness == \A t \in Tabs, r \in Slots : WF_vars(Exchange(t, r))
FairSpec == Spec /\ Fairness

----------------------------------------------------------------------------
(* Properties.                                                             *)

RequestType == [at : Stages, for : Purposes, token : Tokens \cup {Nothing},
                next : Tokens \cup {Nothing}]

TypeOK ==
  /\ status \in [Tabs -> {"closed", "verifying", "ready", "stuck"}]
  /\ app \in [Tabs -> {"booking", "admin"}]
  /\ cred \in [Tabs -> [access : Tokens \cup {Nothing}, refresh : Tokens \cup {Nothing}]]
  /\ session \in [Tabs -> Tokens \cup {Nothing}] /\ local \in Tokens \cup {Nothing}
  /\ request \in [Tabs -> [Slots -> RequestType]]
  /\ issued \in 0 .. MaxTokens /\ inputs \in 0 .. MaxInputs
  /\ valid \subseteq Tokens /\ expired \subseteq Tokens
  /\ remembered \subseteq Tokens /\ spoiled \subseteq Tokens
  /\ usedBy \in [Tokens -> SUBSET Tabs]
  /\ mixed \in BOOLEAN /\ forgotten \in BOOLEAN
  /\ loggedOut \subseteq Tabs /\ revived \subseteq Tabs

\* A page never has two refreshes pending: the server would refuse the second,
\* and the user would be logged out (the mutex of refreshAccessToken).
OneRefreshPerPage ==
  \A t \in Tabs : \A r1, r2 \in Slots :
    Holds(request[t][r1]) /\ Holds(request[t][r2]) => r1 = r2

\* No request waits for a mutex that nobody holds: however a refresh ends, with
\* tokens, a refusal or an error, somebody else goes on.
NobodyWaitsInVain ==
  \A t \in Tabs : \A r \in Slots : request[t][r].at = "queued" => Refreshing(request[t])

\* The server refuses a refresh token, which logs the user out, for a reason
\* that is not in this page: the server has deleted it, its successor was lost
\* with the answer or the page, or another tab has used it, because both have
\* taken it from the local storage.
RefusedForAReason ==
  \A t \in Tabs : \A r \in Slots :
    LET q == request[t][r]
    IN  q.at = "refused" => q.token \in spoiled \/ usedBy[q.token] \ {t} # {}

\* After a logout, or a refused token, in any tab no token is stored for good
\* until somebody asks to be remembered again: a tab that still has a session
\* and refreshes it later does not store its token.
ForgottenStaysForgotten == forgotten => local = Nothing

\* What is stored for good is a refresh token the server accepts, or one whose
\* successor is on its way to some tab: unless it was spoiled.
RememberedTokenWorks ==
  \/ local \in {Nothing} \cup valid \cup spoiled
  \/ \E t \in Tabs : \E r \in Slots : request[t][r].at = "rotated" /\ request[t][r].token = local

\* The token stored for good is of somebody who asked to be remembered; only a
\* tab with another login, which refreshes its token, puts its own there.
RememberedAskedForIt == local \in {Nothing} \cup remembered \/ mixed

\* A token is stored for good on request only, until the request is taken back.
StoredOnRequest == ForgottenStaysForgotten /\ RememberedAskedForIt

\* Who has logged out of a tab stays logged out, also when the page is loaded
\* again, until the next login: unless a refresh was pending at that time,
\* whose answer brings the credentials back.
LoggedOutStaysOut ==
  \A t \in loggedOut \ revived : cred[t].access = Nothing /\ session[t] = Nothing

\* A page that is loaded does not verify its token for ever: it is shown, or
\* stuck because a request failed that nobody catches.
VerificationEnds == \A t \in Tabs : status[t] = "verifying" ~> status[t] # "verifying"
=============================================================================
