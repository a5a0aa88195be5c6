-------------------------- MODULE AjaxClient_proofs --------------------------
(***************************************************************************)
(* Proofs about the credentials of the web clients, for any number of tabs,*)
(* of requests of a page and of tokens.                                    *)
(*                                                                         *)
(* The proofs come in layers, each of which uses the ones before: types;   *)
(* the mutex (who holds it, and that its queue is served); what a logout   *)
(* and a forgotten user leave behind; and the tokens.  The last one rests  *)
(* on two facts that are not among the properties: the successor of a      *)
(* refresh token is known to nobody while it is on its way (Secret), and   *)
(* whatever token a tab may still send is good, spoiled, used by another   *)
(* tab, or being exchanged by that very tab (Excused).                     *)
(***************************************************************************)
EXTENDS AjaxClient, TLAPS

Known == Tokens \cup {Nothing}
Credentials == [access : Known, refresh : Known]
Rotated(t, r) == request[t][r].at = "rotated"

\* Types: only a request that has a refresh token waits or refreshes.
HasToken(q) ==
  /\ q.at \in {"queued", "posted", "rotated", "refused"} => q.token \in Tokens
  /\ q.at = "rotated" => q.next \in Tokens
WellFormed == TypeOK /\ \A t \in Tabs : \A r \in Slots : HasToken(request[t][r])

MutexOf(rs) ==
  /\ \A r1, r2 \in Slots : Holds(rs[r1]) /\ Holds(rs[r2]) => r1 = r2
  /\ \A r \in Slots : rs[r].at = "queued" => Refreshing(rs)
Mutex == OneRefreshPerPage /\ NobodyWaitsInVain

\* Who has logged out has no token and no request that could bring one.
NothingPending(t) ==
  /\ cred[t] = NoCredentials /\ session[t] = Nothing
  /\ \A r \in Slots : request[t][r].at \in {"idle", "sent"}
LogoutIsFinal == \A t \in Tabs : t \in loggedOut \ revived => NothingPending(t)

\* The tokens in the memory of tab t, its session storage and its requests.
Knows(t, n) ==
  \/ n = cred[t].access \/ n = cred[t].refresh \/ n = session[t]
  \/ \E r \in Slots : n = request[t][r].token

\* No token is known before it is issued.
Bounded ==
  /\ \A n \in valid \cup expired \cup remembered \cup {local} : n <= issued
  /\ \A t \in Tabs : \A n \in Known : Knows(t, n) => n <= issued
  /\ \A t \in Tabs : \A r \in Slots : Rotated(t, r) => request[t][r].next <= issued

\* No page has the token, and none could take it for expired.
Hidden(n) == n # Nothing /\ n \notin expired /\ n # local /\ \A t \in Tabs : ~Knows(t, n)

\* The successor of a token is hidden while it is on its way.
Secret ==
  \A t \in Tabs : \A r \in Slots : Rotated(t, r) =>
    /\ Hidden(request[t][r].next) /\ request[t][r].next \in valid \cup spoiled
    /\ \A u \in Tabs : \A s \in Slots :
         Rotated(u, s) /\ request[u][s].next = request[t][r].next => u = t /\ s = r

\* The server accepts the token, or has a reason to refuse it that is not in
\* tab t.
Justified(t, n) == n \in valid \cup spoiled \/ usedBy[n] \ {t} # {}
InExchange(t, n) == \E r \in Slots : Rotated(t, r) /\ request[t][r].token = n

\* The tokens tab t may send.
MaySend(t, n) ==
  \/ n = cred[t].refresh \/ n = session[t] \/ n = local
  \/ \E r \in Slots : request[t][r].at \in {"queued", "posted"} /\ request[t][r].token = n

Excused ==
  \A t \in Tabs : \A n \in Tokens : MaySend(t, n) => Justified(t, n) \/ InExchange(t, n)

TokensInv == Bounded /\ Secret /\ Excused /\ RefusedForAReason /\ RememberedTokenWorks

\* A step that issues no token and hands none on: a tab learns what was stored
\* at most, and an exchange that is given up spoils its token.
CalmFor(t) ==
  /\ \A n \in Known : Knows(t, n)' => Knows(t, n) \/ n \in {local, Nothing}
  /\ \A n \in Tokens : MaySend(t, n)' => MaySend(t, n)
  /\ \A r \in Slots :
       /\ request'[t][r].at = "rotated" => request'[t][r] = request[t][r]
       /\ request'[t][r].at = "refused" =>
            LET n == request'[t][r].token
            IN  \/ request'[t][r] = request[t][r]
                \/ n \in spoiled' \/ usedBy'[n] \ {t} # {}
       /\ Rotated(t, r) => request'[t][r] = request[t][r] \/ request[t][r].token \in spoiled'
Calm ==
  /\ issued' = issued /\ remembered' = remembered /\ local' \in {local, Nothing}
  /\ valid' \subseteq valid /\ spoiled \subseteq spoiled' /\ valid \subseteq valid' \cup spoiled'
  /\ \A n \in Tokens : usedBy[n] \subseteq usedBy'[n]
  /\ \A n \in expired' \ expired : \E t \in Tabs : Knows(t, n)
  /\ \A t \in Tabs : CalmFor(t)

\* Tab t only has acted.
Elsewhere(t) ==
  \A u \in Tabs \ {t} :
    /\ cred'[u] = cred[u] /\ session'[u] = session[u] /\ request'[u] = request[u]
    /\ (u \in loggedOut' <=> u \in loggedOut) /\ (u \in revived' <=> u \in revived)

----------------------------------------------------------------------------
(* The operators of Ajax.query and the mutex.                              *)

\* A request is of its type, whatever it is for.
LEMMA RequestTyped ==
  ASSUME NEW at \in Stages, NEW purpose \in Purposes, NEW n \in Known
  PROVE  Request(at, purpose, n) \in RequestType
BY DEF Request, RequestType, Known, Stages, Purposes, Nothing

LEMMA IdleTyped == Idle \in RequestType /\ Idle.at = "idle" /\ Idle.token = Nothing
BY DEF Idle, Request, RequestType, Stages, Purposes, Nothing

\* Ajax.query: a request goes out with the access token, unless that has
\* expired: then it waits for the refresh that is pending, or is the refresh.
LEMMA AskedIs ==
  ASSUME NEW c \in Credentials, NEW rs \in [Slots -> RequestType], NEW purpose \in Purposes
  PROVE  /\ Asked(c, rs, purpose) \in RequestType
         /\ Asked(c, rs, purpose).at \in {"sent", "queued", "posted"}
         /\ Asked(c, rs, purpose).for = purpose
         /\ Asked(c, rs, purpose).next = Nothing
         /\ Asked(c, rs, purpose).at = "sent" => Asked(c, rs, purpose).token = c.access
         /\ Asked(c, rs, purpose).at = "queued" => Refreshing(rs)
         /\ Asked(c, rs, purpose).at = "posted" => ~Refreshing(rs)
         /\ Asked(c, rs, purpose).at # "sent"
              => c.refresh # Nothing /\ Asked(c, rs, purpose).token = c.refresh
<1>1. c.access \in Known /\ c.refresh \in Known
  BY DEF Credentials
<1>2. /\ Request("sent", purpose, c.access) \in RequestType
      /\ Request("queued", purpose, c.refresh) \in RequestType
      /\ Request("posted", purpose, c.refresh) \in RequestType
  BY <1>1, RequestTyped DEF Stages
<1>3. QED
  BY <1>1, <1>2 DEF Asked, Request

\* The mutex passes on: whoever releases it is not in its queue, and either all
\* of the queue goes on with a fresh token or one of it holds the mutex next.
LEMMA ReleasedIs ==
  ASSUME NEW c \in Credentials, NEW rs \in [Slots -> RequestType], NEW r \in Slots,
         NEW x \in RequestType, x.at \in {"idle", "sent"}, Holds(rs[r]),
         \A r1, r2 \in Slots : Holds(rs[r1]) /\ Holds(rs[r2]) => r1 = r2,
         NEW new \in Released(rs, r, x, c)
  PROVE  /\ new \in [Slots -> RequestType] /\ new[r] = x
         /\ \A w \in Slots \ {r} :
              \/ rs[w].at # "queued" /\ new[w] = rs[w]
              \/ rs[w].at = "queued" /\ IsFresh(c) /\ new[w] = Request("sent", rs[w].for, c.access)
              \/ rs[w].at = "queued" /\ ~IsFresh(c) /\ new[w] = rs[w]
              \/ rs[w].at = "queued" /\ ~IsFresh(c) /\ new[w] = [rs[w] EXCEPT !.at = "posted"]
         /\ \A r1, r2 \in Slots : Holds(new[r1]) /\ Holds(new[r2]) => r1 = r2
         /\ \A w \in Slots : new[w].at = "queued" => Refreshing(new)
<1> DEFINE waiting == {w \in Slots : rs[w].at = "queued"}
<1>1. c.access \in Known
  BY DEF Credentials
<1>2. \A w \in Slots : rs[w].for \in Purposes
  BY DEF RequestType
<1>3. r \notin waiting
  BY DEF Holds
<1>4. \A w \in Slots : Request("sent", rs[w].for, c.access) \in RequestType
  BY <1>1, <1>2, RequestTyped DEF Stages
<1>5. \A w \in Slots : [rs[w] EXCEPT !.at = "posted"] \in RequestType
  BY DEF RequestType, Stages
<1>6. CASE IsFresh(c)
  <2>1. new = [w \in Slots |-> IF w = r THEN x
                 ELSE IF w \in waiting THEN Request("sent", rs[w].for, c.access) ELSE rs[w]]
    BY <1>6 DEF Released
  <2>2. new \in [Slots -> RequestType] /\ new[r] = x
    BY <2>1, <1>4
  <2>3. \A w \in Slots \ {r} :
          \/ rs[w].at # "queued" /\ new[w] = rs[w]
          \/ rs[w].at = "queued" /\ new[w] = Request("sent", rs[w].for, c.access)
    BY <2>1
  <2>4. \A w \in Slots : ~Holds(new[w]) /\ new[w].at # "queued"
    BY <2>2, <2>3 DEF Holds, Request
  <2>5. QED
    BY <1>6, <2>2, <2>3, <2>4
<1>7. CASE ~IsFresh(c) /\ waiting = {}
  <2>1. new = [rs EXCEPT ![r] = x]
    BY <1>7 DEF Released
  <2>2. \A w \in Slots : ~Holds(new[w]) /\ new[w].at # "queued"
    BY <2>1, <1>7 DEF Holds
  <2>3. QED
    BY <1>7, <2>1, <2>2
<1>8. CASE ~IsFresh(c) /\ waiting # {}
  <2>1. PICK v \in waiting : new = [rs EXCEPT ![r] = x, ![v].at = "posted"]
    BY <1>8 DEF Released
  <2>2. v \in Slots /\ v # r /\ rs[v].at = "queued"
    BY <1>3
  <2>3. /\ new[r] = x /\ new[v] = [rs[v] EXCEPT !.at = "posted"]
        /\ \A w \in Slots \ {r, v} : new[w] = rs[w]
        /\ DOMAIN new = Slots
    BY <2>1, <2>2
  <2>4. new \in [Slots -> RequestType]
    BY <2>1, <2>2, <2>3, <1>5
  <2>5. new[v].at = "posted" /\ Holds(new[v])
    BY <2>2, <2>3 DEF Holds, RequestType
  <2>6. \A w \in Slots \ {v} : ~Holds(new[w])
    BY <2>2, <2>3 DEF Holds
  <2>7. Refreshing(new)
    BY <2>2, <2>5 DEF Refreshing
  <2>8. QED
    BY <1>8, <2>2, <2>3, <2>4, <2>5, <2>6, <2>7
<1>9. QED
  BY <1>6, <1>7, <1>8

----------------------------------------------------------------------------
(* Types.                                                                  *)

LEMMA StoredTyped ==
  ASSUME TypeOK, NEW t \in Tabs, NEW n \in Tokens, Stored(t, n)
  PROVE  /\ cred' \in [Tabs -> Credentials] /\ session' \in [Tabs -> Known]
         /\ local' \in Known /\ mixed' \in BOOLEAN
<1>1. Pair(n) \in Credentials
  BY DEF Pair, Credentials, Known
<1>2. QED
  BY <1>1 DEF TypeOK, Stored, Known, Credentials

LEMMA DropTyped ==
  ASSUME TypeOK, NEW t \in Tabs, Drop(t)
  PROVE  /\ cred' \in [Tabs -> Credentials] /\ session' \in [Tabs -> Known]
         /\ local' \in Known /\ forgotten' \in BOOLEAN
<1>1. NoCredentials \in Credentials
  BY DEF NoCredentials, Credentials, Known
<1>2. QED
  BY <1>1 DEF TypeOK, Drop, Known, Credentials

LEMMA RejectedTyped ==
  ASSUME TypeOK, NEW t \in Tabs, NEW purpose \in Purposes, Rejected(t, purpose)
  PROVE  /\ status' \in [Tabs -> {"closed", "verifying", "ready", "stuck"}]
         /\ cred' \in [Tabs -> Credentials] /\ session' \in [Tabs -> Known]
         /\ local' \in Known /\ forgotten' \in BOOLEAN
<1>1. status' \in [Tabs -> {"closed", "verifying", "ready", "stuck"}]
  BY DEF Rejected, TypeOK
<1>2. CASE purpose = "self"
  BY <1>1, <1>2, DropTyped DEF Rejected
<1>3. CASE purpose # "self"
  BY <1>1, <1>3 DEF Rejected, TypeOK, storage, Credentials, Known
<1>4. QED
  BY <1>2, <1>3

LEMMA LeftTyped ==
  ASSUME WellFormed, NEW t \in Tabs, Left(t)
  PROVE  valid' \subseteq Tokens /\ spoiled' \subseteq Tokens
<1>1. \A r \in Slots : request[t][r].at = "rotated" => request[t][r].token \in Tokens
  BY DEF WellFormed, HasToken
<1>2. QED
  BY <1>1 DEF Left, WellFormed, TypeOK

\* The requests of one tab change.
LEMMA RequestsTyped ==
  ASSUME WellFormed, NEW t \in Tabs, NEW rs \in [Slots -> RequestType],
         \A r \in Slots : HasToken(rs[r]), request' = [request EXCEPT ![t] = rs]
  PROVE  /\ request' \in [Tabs -> [Slots -> RequestType]]
         /\ \A u \in Tabs : \A r \in Slots : HasToken(request'[u][r])
<1>1. request \in [Tabs -> [Slots -> RequestType]]
  BY DEF WellFormed, TypeOK
<1>2. request' \in [Tabs -> [Slots -> RequestType]]
  BY <1>1
<1>3. \A u \in Tabs \ {t} : request'[u] = request[u]
  BY <1>1
<1>4. request'[t] = rs
  BY <1>1
<1>5. QED
  BY <1>2, <1>3, <1>4 DEF WellFormed

LEMMA RequestTypedSet ==
  ASSUME WellFormed, NEW t \in Tabs, NEW r \in Slots, NEW x \in RequestType, HasToken(x),
         request' = [request EXCEPT ![t][r] = x]
  PROVE  /\ request' \in [Tabs -> [Slots -> RequestType]]
         /\ \A u \in Tabs : \A s \in Slots : HasToken(request'[u][s])
<1>1. request \in [Tabs -> [Slots -> RequestType]]
  BY DEF WellFormed, TypeOK
<1>2. request' \in [Tabs -> [Slots -> RequestType]]
  BY <1>1
<1>3. \A u \in Tabs, s \in Slots : request'[u][s] = IF u = t /\ s = r THEN x ELSE request[u][s]
  BY <1>1
<1>4. QED
  BY <1>2, <1>3 DEF WellFormed

LEMMA ReleasedTyped ==
  ASSUME WellFormed, OneRefreshPerPage, NEW t \in Tabs, NEW r \in Slots, Holds(request[t][r]),
         NEW c \in Credentials, NEW x \in RequestType, x.at \in {"idle", "sent"},
         NEW rs \in Released(request[t], r, x, c), request' = [request EXCEPT ![t] = rs]
  PROVE  /\ request' \in [Tabs -> [Slots -> RequestType]]
         /\ \A u \in Tabs : \A s \in Slots : HasToken(request'[u][s])
<1>1. request[t] \in [Slots -> RequestType]
  BY DEF WellFormed, TypeOK
<1>2. \A r1, r2 \in Slots : Holds(request[t][r1]) /\ Holds(request[t][r2]) => r1 = r2
  BY DEF OneRefreshPerPage
<1>3. /\ rs \in [Slots -> RequestType] /\ rs[r] = x
      /\ \A w \in Slots \ {r} :
            \/ rs[w] = request[t][w]
            \/ rs[w] = Request("sent", request[t][w].for, c.access)
            \/ request[t][w].at = "queued" /\ rs[w] = [request[t][w] EXCEPT !.at = "posted"]
  BY <1>1, <1>2, ReleasedIs
<1>4. HasToken(rs[r])
  BY <1>3 DEF HasToken
<1>5. ASSUME NEW w \in Slots \ {r} PROVE HasToken(rs[w])
  <2>1. HasToken(request[t][w]) /\ request[t][w] \in RequestType
    BY <1>1 DEF WellFormed
  <2>2. CASE rs[w] = request[t][w]
    BY <2>1, <2>2
  <2>3. CASE rs[w] = Request("sent", request[t][w].for, c.access)
    BY <2>3 DEF HasToken, Request
  <2>4. CASE request[t][w].at = "queued" /\ rs[w] = [request[t][w] EXCEPT !.at = "posted"]
    <3>1. rs[w].token = request[t][w].token
      BY <2>1, <2>4 DEF RequestType
    <3>2. QED
      BY <2>1, <2>4, <3>1 DEF HasToken
  <2>5. QED
    BY <1>3, <2>2, <2>3, <2>4
<1>6. QED
  BY <1>3, <1>4, <1>5, RequestsTyped

----------------------------------------------------------------------------
(* The mutex of each page.                                                 *)

LEMMA MutexPerTab == Mutex <=> \A t \in Tabs : MutexOf(request[t])
BY DEF Mutex, MutexOf, OneRefreshPerPage, NobodyWaitsInVain

\* A request that neither waits nor refreshes is replaced by one that asks the
\* mutex, or by none.
LEMMA ReplacedMutex ==
  ASSUME NEW rs \in [Slots -> RequestType], MutexOf(rs), NEW r \in Slots, NEW c \in Credentials,
         NEW purpose \in Purposes, rs[r].at \in {"idle", "sent"},
         NEW x \in {Idle, Asked(c, rs, purpose)}
  PROVE  MutexOf([rs EXCEPT ![r] = x])
<1> DEFINE new == [rs EXCEPT ![r] = x]
<1>1. new[r] = x /\ \A w \in Slots \ {r} : new[w] = rs[w]
  OBVIOUS
<1>2. ~Holds(rs[r])
  BY DEF Holds
<1>3. Refreshing(rs) => Refreshing(new)
  BY <1>1, <1>2 DEF Refreshing
<1>4. CASE x = Idle
  BY <1>1, <1>3, <1>4, IdleTyped DEF MutexOf, Holds
<1>5. CASE x = Asked(c, rs, purpose)
  <2>1. /\ x.at \in {"sent", "queued", "posted"}
        /\ x.at = "queued" => Refreshing(rs)
        /\ x.at = "posted" => ~Refreshing(rs)
    BY <1>5, AskedIs
  <2>2. Holds(x) => x.at = "posted"
    BY <2>1 DEF Holds
  <2>3. \A r1, r2 \in Slots : Holds(new[r1]) /\ Holds(new[r2]) => r1 = r2
    BY <1>1, <2>1, <2>2 DEF MutexOf, Refreshing
  <2>4. \A w \in Slots : new[w].at = "queued" => Refreshing(new)
    BY <1>1, <1>3, <2>1 DEF MutexOf
  <2>5. QED
    BY <2>3, <2>4 DEF MutexOf
<1>6. QED
  BY <1>4, <1>5

\* A page that is loaded has at most one request.
LEMMA LoadedMutex ==
  ASSUME NEW x
  PROVE  LET rs == [[r \in Slots |-> Idle] EXCEPT ![First] = x]
         IN  x.at # "queued" => MutexOf(rs)
<1> DEFINE rs == [[r \in Slots |-> Idle] EXCEPT ![First] = x]
<1>1. \A r \in Slots : rs[r] = IF r = First THEN x ELSE Idle
  OBVIOUS
<1>2. \A r \in Slots \ {First} : ~Holds(rs[r]) /\ rs[r].at # "queued"
  BY <1>1, IdleTyped DEF Holds
<1>3. QED
  BY <1>1, <1>2, ClientAssumption DEF MutexOf

\* A holder goes on holding.
LEMMA HeldMutex ==
  ASSUME NEW rs \in [Slots -> RequestType], MutexOf(rs), NEW r \in Slots, Holds(rs[r]),
         NEW x, Holds(x)
  PROVE  MutexOf([rs EXCEPT ![r] = x])
<1> DEFINE new == [rs EXCEPT ![r] = x]
<1>1. new[r] = x /\ \A w \in Slots \ {r} : new[w] = rs[w]
  OBVIOUS
<1>2. Refreshing(new)
  BY <1>1 DEF Refreshing
<1>3. QED
  BY <1>1, <1>2 DEF MutexOf

\* What becomes of a page's requests: the mutex is one of them only.
LEMMA OneTabMutex ==
  ASSUME WellFormed, Mutex, NEW t \in Tabs, NEW rs, MutexOf(rs),
         request' = [request EXCEPT ![t] = rs]
  PROVE  Mutex'
<1>1. request \in [Tabs -> [Slots -> RequestType]]
  BY DEF WellFormed, TypeOK
<1>2. \A u \in Tabs : request'[u] = IF u = t THEN rs ELSE request[u]
  BY <1>1
<1>3. \A u \in Tabs : MutexOf(request'[u])
  BY <1>2, MutexPerTab
<1>4. QED
  BY <1>3 DEF Mutex, MutexOf, OneRefreshPerPage, NobodyWaitsInVain, Refreshing

----------------------------------------------------------------------------
(* Types and the mutex, action by action.                                  *)

LEMMA OpenSafe ==
  ASSUME WellFormed, Mutex, NEW t \in Tabs, NEW a \in {"booking", "admin"}, Open(t, a)
  PROVE  WellFormed' /\ Mutex'
<1> DEFINE n == IF session[t] = Nothing /\ a = "booking" THEN local ELSE session[t]
           c == IF session[t] # Nothing THEN Pair(n) ELSE [NoCredentials EXCEPT !.refresh = n]
           none == [r \in Slots |-> Idle]
           first == IF a = "admin" \/ n = Nothing THEN Idle
                    ELSE IF c.access = Nothing THEN Request("posted", "verify", n)
                    ELSE Asked(c, none, "self")
           rs == [none EXCEPT ![First] = first]
<1>1. /\ cred' = [cred EXCEPT ![t] = c]
      /\ request' = [request EXCEPT ![t] = rs]
      /\ status' = [status EXCEPT ![t] = IF first = Idle THEN "ready" ELSE "verifying"]
      /\ loggedOut' \subseteq loggedOut
  BY DEF Open
<1>2. n \in Known /\ c \in Credentials
  BY DEF WellFormed, TypeOK, Known, Credentials, Pair, NoCredentials
<1>3. none \in [Slots -> RequestType] /\ ~Refreshing(none)
  BY IdleTyped DEF Refreshing, Holds
<1>4. /\ Asked(c, none, "self") \in RequestType /\ Asked(c, none, "self").at \in {"sent", "posted"}
      /\ Asked(c, none, "self").at = "posted" => Asked(c, none, "self").token \in Tokens
  BY <1>2, <1>3, AskedIs DEF Purposes, Credentials, Known
<1>5. /\ Request("posted", "verify", n) \in RequestType
      /\ Request("posted", "verify", n).at = "posted" /\ Request("posted", "verify", n).token = n
  BY <1>2, RequestTyped DEF Stages, Purposes, Request
<1>6. first \in RequestType /\ first.at # "queued" /\ HasToken(first)
  BY <1>2, <1>4, <1>5, IdleTyped DEF HasToken, Known
<1>7. rs \in [Slots -> RequestType] /\ \A r \in Slots : HasToken(rs[r])
  BY <1>3, <1>6, IdleTyped DEF HasToken
<1>8. /\ request' \in [Tabs -> [Slots -> RequestType]]
      /\ \A u \in Tabs : \A r \in Slots : HasToken(request'[u][r])
  BY <1>1, <1>7, RequestsTyped
<1>9. valid' \subseteq Tokens /\ spoiled' \subseteq Tokens
  BY LeftTyped DEF Open
<1>10. cred' \in [Tabs -> Credentials]
  BY <1>1, <1>2 DEF WellFormed, TypeOK, Credentials, Known
<1>11. /\ status' \in [Tabs -> {"closed", "verifying", "ready", "stuck"}]
       /\ app' \in [Tabs -> {"booking", "admin"}] /\ inputs' \in 0 .. MaxInputs
       /\ loggedOut' \subseteq Tabs /\ revived' \subseteq Tabs
  BY <1>1, ClientAssumption DEF WellFormed, TypeOK, Open, Input
<1>12. UNCHANGED <<session, local, issued, expired, remembered, usedBy, mixed, forgotten>>
  BY DEF Open, storage
<1>13. WellFormed'
  BY <1>8, <1>9, <1>10, <1>11, <1>12 DEF WellFormed, TypeOK, Credentials, Known
<1>14. Mutex'
  BY <1>1, <1>6, LoadedMutex, OneTabMutex
<1>15. QED
  BY <1>13, <1>14

LEMMA CloseSafe ==
  ASSUME WellFormed, Mutex, NEW t \in Tabs, Close(t)
  PROVE  WellFormed' /\ Mutex'
<1> DEFINE rs == [r \in Slots |-> Idle]
<1>1. request' = [request EXCEPT ![t] = rs]
  BY DEF Close
<1>2. rs \in [Slots -> RequestType] /\ (\A r \in Slots : HasToken(rs[r])) /\ MutexOf(rs)
  BY IdleTyped DEF HasToken, MutexOf, Holds
<1>3. /\ request' \in [Tabs -> [Slots -> RequestType]]
      /\ \A u \in Tabs : \A r \in Slots : HasToken(request'[u][r])
  BY <1>1, <1>2, RequestsTyped
<1>4. valid' \subseteq Tokens /\ spoiled' \subseteq Tokens
  BY LeftTyped DEF Close
<1>5. /\ status' \in [Tabs -> {"closed", "verifying", "ready", "stuck"}]
      /\ session' \in [Tabs -> Known] /\ inputs' \in 0 .. MaxInputs
      /\ loggedOut' \subseteq Tabs /\ revived' \subseteq Tabs
  BY ClientAssumption DEF WellFormed, TypeOK, Close, Input, Known
<1>6. cred' \in [Tabs -> Credentials]
  BY DEF Close, WellFormed, TypeOK, Credentials, Known, NoCredentials
<1>7. UNCHANGED <<app, local, issued, expired, remembered, usedBy, mixed, forgotten>>
  BY DEF Close
<1>8. WellFormed'
  BY <1>3, <1>4, <1>5, <1>6, <1>7 DEF WellFormed, TypeOK, Credentials, Known
<1>9. QED
  BY <1>1, <1>2, <1>8, OneTabMutex

LEMMA QuerySafe ==
  ASSUME WellFormed, Mutex, NEW t \in Tabs, NEW r \in Slots, NEW purpose \in Purposes,
         Query(t, r, purpose)
  PROVE  WellFormed' /\ Mutex'
<1> DEFINE x == Asked(cred[t], request[t], purpose)
<1>1. request' = [request EXCEPT ![t][r] = x] /\ request[t][r].at = "idle"
  BY IdleTyped DEF Query
<1>2. cred[t] \in Credentials /\ request[t] \in [Slots -> RequestType]
  BY DEF WellFormed, TypeOK, Credentials, Known
<1>3. x \in RequestType /\ HasToken(x)
  BY <1>2, AskedIs DEF HasToken, Credentials, Known
<1>4. /\ request' \in [Tabs -> [Slots -> RequestType]]
      /\ \A u \in Tabs : \A s \in Slots : HasToken(request'[u][s])
  BY <1>1, <1>3, RequestTypedSet
<1>5. inputs' \in 0 .. MaxInputs
  BY ClientAssumption DEF WellFormed, TypeOK, Query, Input
<1>6. WellFormed'
  BY <1>4, <1>5 DEF WellFormed, TypeOK, Query, pages, storage, server, ghosts
<1>7. request' = [request EXCEPT ![t] = [request[t] EXCEPT ![r] = x]]
  BY <1>1
<1>8. MutexOf([request[t] EXCEPT ![r] = x])
  BY <1>1, <1>2, MutexPerTab, ReplacedMutex
<1>9. QED
  BY <1>6, <1>7, <1>8, OneTabMutex

LEMMA LogoutSafe ==
  ASSUME WellFormed, Mutex, NEW t \in Tabs, Logout(t)
  PROVE  WellFormed' /\ Mutex'
<1>1. /\ cred' \in [Tabs -> Credentials] /\ session' \in [Tabs -> Known]
      /\ local' \in Known /\ forgotten' \in BOOLEAN
  BY DropTyped DEF Logout, WellFormed
<1>2. inputs' \in 0 .. MaxInputs /\ loggedOut' \subseteq Tabs /\ revived' \subseteq Tabs
  BY ClientAssumption DEF WellFormed, TypeOK, Logout, Input
<1>3. WellFormed'
  BY <1>1, <1>2 DEF WellFormed, TypeOK, Logout, pages, server, Credentials, Known
<1>4. QED
  BY <1>3 DEF Logout, Mutex, OneRefreshPerPage, NobodyWaitsInVain, Refreshing

LEMMA ServerRefreshSafe ==
  ASSUME WellFormed, Mutex, NEW t \in Tabs, NEW r \in Slots, ServerRefresh(t, r)
  PROVE  WellFormed' /\ Mutex'
<1> DEFINE q == request[t][r]
<1>1. /\ q \in RequestType /\ q.at = "posted" /\ q.token \in Tokens
      /\ request[t] \in [Slots -> RequestType]
  BY DEF ServerRefresh, WellFormed, TypeOK, HasToken
<1>2. PICK x \in {[q EXCEPT !.at = "refused"], [q EXCEPT !.at = "rotated", !.next = issued']} :
        /\ request' = [request EXCEPT ![t][r] = x]
        /\ x.at = "rotated" => issued' \in Tokens
  <2>1. CASE q.token \in valid
    <3>1. request' = [request EXCEPT ![t][r].at = "rotated", ![t][r].next = issued']
      BY <2>1 DEF ServerRefresh
    <3>2. request' = [request EXCEPT ![t][r] = [q EXCEPT !.at = "rotated", !.next = issued']]
      BY <3>1, <1>1 DEF WellFormed, TypeOK
    <3>3. issued' \in Tokens
      BY <2>1, ClientAssumption DEF ServerRefresh, WellFormed, TypeOK, Tokens
    <3>4. QED
      BY <3>2, <3>3
  <2>2. CASE q.token \notin valid
    <3>1. request' = [request EXCEPT ![t][r].at = "refused"]
      BY <2>2 DEF ServerRefresh
    <3>2. request' = [request EXCEPT ![t][r] = [q EXCEPT !.at = "refused"]]
      BY <3>1, <1>1 DEF WellFormed, TypeOK
    <3>3. [q EXCEPT !.at = "refused"].at # "rotated"
      BY <1>1 DEF RequestType
    <3>4. QED
      BY <3>2, <3>3
  <2>3. QED
    BY <2>1, <2>2
<1>3. /\ x \in RequestType /\ x.token = q.token /\ x.at \in {"rotated", "refused"}
      /\ x.at = "rotated" => x.next \in Tokens
  BY <1>1, <1>2 DEF RequestType, Stages
<1>4. HasToken(x) /\ Holds(x)
  BY <1>1, <1>3 DEF HasToken, Holds
<1>5. /\ request' \in [Tabs -> [Slots -> RequestType]]
      /\ \A u \in Tabs : \A s \in Slots : HasToken(request'[u][s])
  BY <1>2, <1>3, <1>4, RequestTypedSet
<1>6. usedBy' \in [Tokens -> SUBSET Tabs]
  BY <1>1 DEF ServerRefresh, WellFormed, TypeOK
<1>7. issued' \in 0 .. MaxTokens /\ valid' \subseteq Tokens /\ remembered' \subseteq Tokens
  <2>1. CASE q.token \in valid
    <3>1. issued' \in Tokens /\ valid' = (valid \ {q.token}) \cup {issued'}
          /\ remembered' \subseteq remembered \cup {issued'}
      BY <2>1, ClientAssumption DEF ServerRefresh, WellFormed, TypeOK, Tokens
    <3>2. QED
      BY <3>1, ClientAssumption DEF WellFormed, TypeOK, Tokens
  <2>2. CASE q.token \notin valid
    BY <2>2 DEF ServerRefresh, WellFormed, TypeOK, server
  <2>3. QED
    BY <2>1, <2>2
<1>8. WellFormed'
  BY <1>5, <1>6, <1>7 DEF WellFormed, TypeOK, ServerRefresh, pages, storage
<1>9. request' = [request EXCEPT ![t] = [request[t] EXCEPT ![r] = x]]
  BY <1>2
<1>10. MutexOf([request[t] EXCEPT ![r] = x])
  BY <1>1, <1>4, MutexPerTab, HeldMutex DEF Holds
<1>11. QED
  BY <1>8, <1>9, <1>10, OneTabMutex

\* The three ways a refresh ends: each releases the mutex.
LEMMA ReleasedSafe ==
  ASSUME WellFormed, Mutex, NEW t \in Tabs, NEW r \in Slots, Holds(request[t][r]),
         NEW c \in Credentials, NEW x \in RequestType, x.at \in {"idle", "sent"},
         NEW rs \in Released(request[t], r, x, c), request' = [request EXCEPT ![t] = rs]
  PROVE  /\ request' \in [Tabs -> [Slots -> RequestType]]
         /\ \A u \in Tabs : \A s \in Slots : HasToken(request'[u][s])
         /\ Mutex'
<1>1. request[t] \in [Slots -> RequestType]
  BY DEF WellFormed, TypeOK
<1>2. OneRefreshPerPage
      /\ \A r1, r2 \in Slots : Holds(request[t][r1]) /\ Holds(request[t][r2]) => r1 = r2
  BY DEF Mutex, OneRefreshPerPage
<1>3. MutexOf(rs)
  BY <1>1, <1>2, ReleasedIs DEF MutexOf
<1>4. QED
  BY <1>2, <1>3, ReleasedTyped, OneTabMutex

LEMMA RefreshedSafe ==
  ASSUME WellFormed, Mutex, NEW t \in Tabs, NEW r \in Slots, Refreshed(t, r)
  PROVE  WellFormed' /\ Mutex'
<1> DEFINE q == request[t][r]
           x == Request("sent", IF q.for = "verify" THEN "self" ELSE q.for, q.next)
<1>1. q \in RequestType /\ q.at = "rotated" /\ Holds(q) /\ q.next \in Tokens
  BY DEF Refreshed, WellFormed, TypeOK, Holds, HasToken
<1>2. PICK rs \in Released(request[t], r, x, Pair(q.next)) : request' = [request EXCEPT ![t] = rs]
  BY DEF Refreshed
<1>3. (IF q.for = "verify" THEN "self" ELSE q.for) \in Purposes
  BY <1>1 DEF RequestType, Purposes
<1>4. x \in RequestType /\ x.at = "sent"
  BY <1>1, <1>3, RequestTyped DEF Stages, Request, Known
<1>5. Pair(q.next) \in Credentials
  BY <1>1 DEF Pair, Credentials, Known
<1>6. /\ request' \in [Tabs -> [Slots -> RequestType]]
      /\ \A u \in Tabs : \A s \in Slots : HasToken(request'[u][s])
      /\ Mutex'
  BY <1>1, <1>2, <1>4, <1>5, ReleasedSafe
<1>7. /\ cred' \in [Tabs -> Credentials] /\ session' \in [Tabs -> Known]
      /\ local' \in Known /\ mixed' \in BOOLEAN
  BY <1>1, StoredTyped DEF Refreshed, WellFormed
<1>8. WellFormed'
  BY <1>6, <1>7 DEF WellFormed, TypeOK, Refreshed, pages, server, Credentials, Known
<1>9. QED
  BY <1>6, <1>8

LEMMA RefreshRefusedSafe ==
  ASSUME WellFormed, Mutex, NEW t \in Tabs, NEW r \in Slots, RefreshRefused(t, r)
  PROVE  WellFormed' /\ Mutex'
<1> DEFINE q == request[t][r]
           x == IF q.for = "verify" THEN Idle ELSE Request("sent", q.for, Nothing)
<1>1. q \in RequestType /\ Holds(q)
  BY DEF RefreshRefused, WellFormed, TypeOK, Holds
<1>2. PICK rs \in Released(request[t], r, x, NoCredentials) : request' = [request EXCEPT ![t] = rs]
  BY DEF RefreshRefused
<1>3. Request("sent", q.for, Nothing) \in RequestType /\ Request("sent", q.for, Nothing).at = "sent"
  BY <1>1, RequestTyped DEF RequestType, Stages, Known, Request
<1>4. x \in RequestType /\ x.at \in {"idle", "sent"}
  BY <1>3, IdleTyped
<1>5. NoCredentials \in Credentials
  BY DEF NoCredentials, Credentials, Known
<1>6. /\ request' \in [Tabs -> [Slots -> RequestType]]
      /\ \A u \in Tabs : \A s \in Slots : HasToken(request'[u][s])
      /\ Mutex'
  BY <1>1, <1>2, <1>4, <1>5, ReleasedSafe
<1>7. /\ cred' \in [Tabs -> Credentials] /\ session' \in [Tabs -> Known]
      /\ local' \in Known /\ forgotten' \in BOOLEAN
  BY DropTyped DEF RefreshRefused, WellFormed
<1>8. status' \in [Tabs -> {"closed", "verifying", "ready", "stuck"}]
  BY DEF RefreshRefused, WellFormed, TypeOK
<1>9. WellFormed'
  BY <1>6, <1>7, <1>8 DEF WellFormed, TypeOK, RefreshRefused, server, Credentials, Known
<1>10. QED
  BY <1>6, <1>9

LEMMA RefreshLostSafe ==
  ASSUME WellFormed, Mutex, NEW t \in Tabs, NEW r \in Slots, RefreshLost(t, r)
  PROVE  WellFormed' /\ Mutex'
<1> DEFINE q == request[t][r]
<1>1. q \in RequestType /\ Holds(q) /\ q.for \in Purposes /\ cred[t] \in Credentials
  BY DEF RefreshLost, WellFormed, TypeOK, RequestType, Credentials, Known
<1>2. PICK rs \in Released(request[t], r, Idle, cred[t]) : request' = [request EXCEPT ![t] = rs]
  BY DEF RefreshLost
<1>3. /\ request' \in [Tabs -> [Slots -> RequestType]]
      /\ \A u \in Tabs : \A s \in Slots : HasToken(request'[u][s])
      /\ Mutex'
  BY <1>1, <1>2, IdleTyped, ReleasedSafe
<1>4. /\ status' \in [Tabs -> {"closed", "verifying", "ready", "stuck"}]
      /\ cred' \in [Tabs -> Credentials] /\ session' \in [Tabs -> Known]
      /\ local' \in Known /\ forgotten' \in BOOLEAN
  BY <1>1, RejectedTyped DEF RefreshLost, WellFormed
<1>5. spoiled' \subseteq Tokens
  <2>1. q.at = "rotated" => q.token \in Tokens
    BY DEF WellFormed, HasToken
  <2>2. QED
    BY <2>1 DEF RefreshLost, WellFormed, TypeOK
<1>6. WellFormed'
  BY <1>3, <1>4, <1>5 DEF WellFormed, TypeOK, RefreshLost, server, Credentials, Known
<1>7. QED
  BY <1>3, <1>6

\* A request that has been sent ends, or is followed by another.
LEMMA EndedSafe ==
  ASSUME WellFormed, Mutex, NEW t \in Tabs, NEW r \in Slots, request[t][r].at = "sent",
         NEW purpose \in Purposes, NEW x \in {Idle, Asked(cred[t], request[t], purpose)},
         request' = [request EXCEPT ![t][r] = x]
  PROVE  /\ request' \in [Tabs -> [Slots -> RequestType]]
         /\ \A u \in Tabs : \A s \in Slots : HasToken(request'[u][s])
         /\ Mutex'
<1>1. request[t] \in [Slots -> RequestType] /\ cred[t] \in Credentials
  BY DEF WellFormed, TypeOK, Credentials, Known
<1>2. x \in RequestType /\ HasToken(x)
  BY <1>1, AskedIs, IdleTyped DEF HasToken, Credentials, Known
<1>3. request' = [request EXCEPT ![t] = [request[t] EXCEPT ![r] = x]]
  OBVIOUS
<1>4. MutexOf([request[t] EXCEPT ![r] = x])
  BY <1>1, MutexPerTab, ReplacedMutex
<1>5. QED
  BY <1>2, <1>3, <1>4, RequestTypedSet, OneTabMutex

LEMMA QueryAnsweredSafe ==
  ASSUME WellFormed, Mutex, NEW t \in Tabs, NEW r \in Slots, QueryAnswered(t, r)
  PROVE  WellFormed' /\ Mutex'
<1>1. PICK x \in {Idle, Asked(cred[t], request[t], "settings")} :
        request' = [request EXCEPT ![t][r] = x]
  BY DEF QueryAnswered
<1>2. /\ request' \in [Tabs -> [Slots -> RequestType]]
      /\ \A u \in Tabs : \A s \in Slots : HasToken(request'[u][s])
      /\ Mutex'
  BY <1>1, EndedSafe DEF QueryAnswered, Purposes
<1>3. status' \in [Tabs -> {"closed", "verifying", "ready", "stuck"}]
  BY DEF QueryAnswered, WellFormed, TypeOK
<1>4. QED
  BY <1>2, <1>3 DEF WellFormed, TypeOK, QueryAnswered, storage, server, ghosts

LEMMA RoleRefusedSafe ==
  ASSUME WellFormed, Mutex, NEW t \in Tabs, NEW r \in Slots, RoleRefused(t, r)
  PROVE  WellFormed' /\ Mutex'
<1>1. /\ request' \in [Tabs -> [Slots -> RequestType]]
      /\ \A u \in Tabs : \A s \in Slots : HasToken(request'[u][s])
      /\ Mutex'
  BY EndedSafe DEF RoleRefused, Purposes
<1>2. /\ cred' \in [Tabs -> Credentials] /\ session' \in [Tabs -> Known]
      /\ local' \in Known /\ forgotten' \in BOOLEAN
  BY DropTyped DEF RoleRefused, WellFormed
<1>3. QED
  BY <1>1, <1>2 DEF WellFormed, TypeOK, RoleRefused, pages, server, Credentials, Known

LEMMA QueryFailedSafe ==
  ASSUME WellFormed, Mutex, NEW t \in Tabs, NEW r \in Slots, QueryFailed(t, r)
  PROVE  WellFormed' /\ Mutex'
<1>1. /\ request' \in [Tabs -> [Slots -> RequestType]]
      /\ \A u \in Tabs : \A s \in Slots : HasToken(request'[u][s])
      /\ Mutex'
  BY EndedSafe DEF QueryFailed, Purposes
<1>2. request[t][r].for \in Purposes
  BY DEF WellFormed, TypeOK, RequestType
<1>3. /\ status' \in [Tabs -> {"closed", "verifying", "ready", "stuck"}]
      /\ cred' \in [Tabs -> Credentials] /\ session' \in [Tabs -> Known]
      /\ local' \in Known /\ forgotten' \in BOOLEAN
  BY <1>2, RejectedTyped DEF QueryFailed, WellFormed
<1>4. QED
  BY <1>1, <1>3 DEF WellFormed, TypeOK, QueryFailed, server, Credentials, Known

LEMMA LoggedInSafe ==
  ASSUME WellFormed, Mutex, NEW t \in Tabs, NEW r \in Slots, LoggedIn(t, r)
  PROVE  WellFormed' /\ Mutex'
<1>1. /\ request' \in [Tabs -> [Slots -> RequestType]]
      /\ \A u \in Tabs : \A s \in Slots : HasToken(request'[u][s])
      /\ Mutex'
  BY EndedSafe DEF LoggedIn, Purposes
<1>2. issued + 1 \in Tokens /\ issued' = issued + 1 /\ issued' \in 0 .. MaxTokens
  BY ClientAssumption DEF LoggedIn, WellFormed, TypeOK, Tokens
<1>3. /\ cred' \in [Tabs -> Credentials] /\ session' \in [Tabs -> Known] /\ local' \in Known
  BY <1>2 DEF LoggedIn, WellFormed, TypeOK, Pair, Credentials, Known
<1>4. /\ valid' \subseteq Tokens /\ remembered' \subseteq Tokens /\ forgotten' \in BOOLEAN
      /\ loggedOut' \subseteq Tabs /\ revived' \subseteq Tabs
  BY <1>2 DEF LoggedIn, WellFormed, TypeOK
<1>5. QED
  BY <1>1, <1>2, <1>3, <1>4 DEF WellFormed, TypeOK, LoggedIn, pages, Credentials, Known

LEMMA ServerSafe ==
  ASSUME WellFormed, Mutex, NEW n \in Tokens, Expire(n) \/ Forget(n)
  PROVE  WellFormed' /\ Mutex'
<1>1. CASE Expire(n)
  <2>1. UNCHANGED <<status, app, cred, session, local, request, issued, valid, inputs, remembered,
                    usedBy, spoiled, mixed, forgotten, loggedOut, revived>>
    BY <1>1 DEF Expire, pages, storage, server, ghosts
  <2>2. expired' \subseteq Tokens
    BY <1>1 DEF Expire, WellFormed, TypeOK
  <2>3. WellFormed'
    BY <2>1, <2>2 DEF WellFormed, TypeOK
  <2>4. QED
    BY <2>1, <2>3 DEF Mutex, OneRefreshPerPage, NobodyWaitsInVain, Refreshing
<1>2. CASE Forget(n)
  <2>1. UNCHANGED <<status, app, cred, session, local, request, issued, expired, inputs, remembered,
                    usedBy, mixed, forgotten, loggedOut, revived>>
    BY <1>2 DEF Forget, pages, storage
  <2>2. valid' \subseteq Tokens /\ spoiled' \subseteq Tokens
    BY <1>2 DEF Forget, WellFormed, TypeOK
  <2>3. WellFormed'
    BY <2>1, <2>2 DEF WellFormed, TypeOK
  <2>4. QED
    BY <2>1, <2>3 DEF Mutex, OneRefreshPerPage, NobodyWaitsInVain, Refreshing
<1>3. QED
  BY <1>1, <1>2

LEMMA InitSafe == Init => WellFormed /\ Mutex
<1> SUFFICES ASSUME Init PROVE WellFormed /\ Mutex
  OBVIOUS
<1>1. \A t \in Tabs, r \in Slots : request[t][r] = Idle
  BY DEF Init
<1>2. \A t \in Tabs, r \in Slots : HasToken(request[t][r]) /\ ~Holds(request[t][r])
                                   /\ request[t][r].at # "queued"
  BY <1>1, IdleTyped DEF HasToken, Holds
<1>3. Mutex
  BY <1>2 DEF Mutex, OneRefreshPerPage, NobodyWaitsInVain
<1>4. request \in [Tabs -> [Slots -> RequestType]]
  BY IdleTyped DEF Init
<1>5. NoCredentials \in Credentials
  BY DEF NoCredentials, Credentials, Known
<1>6. cred \in [Tabs -> Credentials]
  BY <1>5 DEF Init
<1>7. usedBy \in [Tokens -> SUBSET Tabs]
  BY DEF Init
<1>8. issued \in 0 .. MaxTokens /\ inputs \in 0 .. MaxInputs
  BY ClientAssumption DEF Init
<1>9. /\ status \in [Tabs -> {"closed", "verifying", "ready", "stuck"}]
      /\ app \in [Tabs -> {"booking", "admin"}]
      /\ session \in [Tabs -> Tokens \cup {Nothing}] /\ local \in Tokens \cup {Nothing}
  BY DEF Init
<1>10. TypeOK
  BY <1>4, <1>6, <1>7, <1>8, <1>9 DEF Init, TypeOK, Credentials, Known
<1>11. QED
  BY <1>2, <1>3, <1>10 DEF WellFormed

LEMMA StepSafe == WellFormed /\ Mutex /\ [Next]_vars => WellFormed' /\ Mutex'
<1> SUFFICES ASSUME WellFormed, Mutex, [Next]_vars PROVE WellFormed' /\ Mutex'
  OBVIOUS
<1>1. ASSUME NEW t \in Tabs, NEW a \in {"booking", "admin"}, Open(t, a)
      PROVE  WellFormed' /\ Mutex'
  BY <1>1, OpenSafe
<1>2. ASSUME NEW t \in Tabs, Close(t) \/ Logout(t) PROVE WellFormed' /\ Mutex'
  BY <1>2, CloseSafe, LogoutSafe
<1>3. ASSUME NEW t \in Tabs, NEW r \in Slots, NEW purpose \in Purposes, Query(t, r, purpose)
      PROVE  WellFormed' /\ Mutex'
  BY <1>3, QuerySafe
<1>4. ASSUME NEW t \in Tabs, NEW r \in Slots, Exchange(t, r) PROVE WellFormed' /\ Mutex'
  BY <1>4, ServerRefreshSafe, RefreshedSafe, RefreshRefusedSafe, RefreshLostSafe,
     QueryAnsweredSafe, RoleRefusedSafe, QueryFailedSafe, LoggedInSafe DEF Exchange
<1>5. ASSUME NEW n \in Tokens, Expire(n) \/ Forget(n) PROVE WellFormed' /\ Mutex'
  BY <1>5, ServerSafe
<1>6. CASE UNCHANGED vars
  BY <1>6 DEF vars, pages, storage, server, ghosts, WellFormed, TypeOK, Mutex, OneRefreshPerPage,
              NobodyWaitsInVain, Refreshing
<1>7. QED
  BY <1>1, <1>2, <1>3, <1>4, <1>5, <1>6 DEF Next, User

LEMMA AlwaysSafe == Spec => [](WellFormed /\ Mutex)
<1>1. Init => WellFormed /\ Mutex
  BY InitSafe
<1>2. WellFormed /\ Mutex /\ [Next]_vars => (WellFormed /\ Mutex)'
  BY StepSafe
<1>3. QED
  BY <1>1, <1>2, PTL DEF Spec

\* The credentials of every tab, the storage and the requests stay well formed.
THEOREM TypeCorrect == Spec => []TypeOK
<1>1. WellFormed => TypeOK
  BY DEF WellFormed
<1>2. QED
  BY <1>1, AlwaysSafe, PTL

\* The mutex of refreshAccessToken: a page has one refresh pending at most.
THEOREM RefreshesExclude == Spec => []OneRefreshPerPage
<1>1. Mutex => OneRefreshPerPage
  BY DEF Mutex
<1>2. QED
  BY <1>1, AlwaysSafe, PTL

\* The queue of the mutex is served: nobody waits while no refresh is pending.
THEOREM QueueIsServed == Spec => []NobodyWaitsInVain
<1>1. Mutex => NobodyWaitsInVain
  BY DEF Mutex
<1>2. QED
  BY <1>1, AlwaysSafe, PTL

----------------------------------------------------------------------------
(* Logouts.                                                                *)

LEMMA UserElsewhere ==
  ASSUME WellFormed, NEW t \in Tabs,
         \/ \E a \in {"booking", "admin"} : Open(t, a)
         \/ Close(t) \/ Logout(t)
         \/ \E r \in Slots, purpose \in Purposes : Query(t, r, purpose)
  PROVE  Elsewhere(t)
<1>1. /\ cred \in [Tabs -> Credentials] /\ session \in [Tabs -> Known]
      /\ request \in [Tabs -> [Slots -> RequestType]]
  BY DEF WellFormed, TypeOK, Credentials, Known
<1>2. CASE \E a \in {"booking", "admin"} : Open(t, a)
  BY <1>1, <1>2 DEF Open, Elsewhere, storage
<1>3. CASE Close(t)
  BY <1>1, <1>3 DEF Close, Elsewhere
<1>4. CASE Logout(t)
  BY <1>1, <1>4 DEF Logout, Drop, Elsewhere
<1>5. ASSUME NEW r \in Slots, NEW purpose \in Purposes, Query(t, r, purpose) PROVE Elsewhere(t)
  <2> DEFINE x == Asked(cred[t], request[t], purpose)
  <2>1. UNCHANGED <<cred, session, loggedOut, revived>>
        /\ request' = [request EXCEPT ![t][r] = x]
    BY <1>5 DEF Query, storage, ghosts
  <2> HIDE DEF x
  <2>2. QED
    BY <1>1, <2>1 DEF Elsewhere
<1>6. QED
  BY <1>2, <1>3, <1>4, <1>5

LEMMA ExchangeElsewhere ==
  ASSUME WellFormed, NEW t \in Tabs, NEW r \in Slots, Exchange(t, r)
  PROVE  Elsewhere(t)
<1>1. /\ cred \in [Tabs -> Credentials] /\ session \in [Tabs -> Known]
      /\ request \in [Tabs -> [Slots -> RequestType]]
  BY DEF WellFormed, TypeOK, Credentials, Known
<1>2. CASE ServerRefresh(t, r)
  BY <1>1, <1>2 DEF ServerRefresh, Elsewhere, storage
<1>3. CASE Refreshed(t, r)
  BY <1>1, <1>3 DEF Refreshed, Stored, Elsewhere
<1>4. CASE RefreshRefused(t, r)
  BY <1>1, <1>4 DEF RefreshRefused, Drop, Elsewhere
<1>5. CASE RefreshLost(t, r)
  BY <1>1, <1>5 DEF RefreshLost, Rejected, Drop, Elsewhere, storage
<1>6. CASE QueryAnswered(t, r)
  BY <1>1, <1>6 DEF QueryAnswered, Elsewhere, storage, ghosts
<1>7. CASE RoleRefused(t, r)
  BY <1>1, <1>7 DEF RoleRefused, Drop, Elsewhere
<1>8. CASE QueryFailed(t, r)
  BY <1>1, <1>8 DEF QueryFailed, Rejected, Drop, Elsewhere, storage
<1>9. CASE LoggedIn(t, r)
  BY <1>1, <1>9 DEF LoggedIn, Elsewhere
<1>10. QED
  BY <1>2, <1>3, <1>4, <1>5, <1>6, <1>7, <1>8, <1>9 DEF Exchange

\* What tab t does concerns t only.
LEMMA LogoutOfOne ==
  ASSUME LogoutIsFinal, NEW t \in Tabs, Elsewhere(t),
         t \in loggedOut' \ revived' => NothingPending(t)'
  PROVE  LogoutIsFinal'
BY DEF LogoutIsFinal, NothingPending, Elsewhere

LEMMA UserLogsOut ==
  ASSUME WellFormed, Mutex, LogoutIsFinal, NEW t \in Tabs,
         \/ \E a \in {"booking", "admin"} : Open(t, a)
         \/ Close(t) \/ Logout(t)
         \/ \E r \in Slots, purpose \in Purposes : Query(t, r, purpose)
  PROVE  LogoutIsFinal'
<1>1. /\ cred \in [Tabs -> Credentials] /\ session \in [Tabs -> Known]
      /\ request \in [Tabs -> [Slots -> RequestType]]
  BY DEF WellFormed, TypeOK, Credentials, Known
<1>2. SUFFICES ASSUME t \in loggedOut' \ revived' PROVE NothingPending(t)'
  BY UserElsewhere, LogoutOfOne
<1>3. ASSUME NEW a \in {"booking", "admin"}, Open(t, a) PROVE NothingPending(t)'
  <2> DEFINE n == IF session[t] = Nothing /\ a = "booking" THEN local ELSE session[t]
             c == IF session[t] # Nothing THEN Pair(n) ELSE [NoCredentials EXCEPT !.refresh = n]
             none == [r \in Slots |-> Idle]
  <2>1. n = Nothing
    BY <1>2, <1>3 DEF Open
  <2>2. session[t] = Nothing /\ c = NoCredentials
    BY <2>1 DEF NoCredentials
  <2>3. cred' = [cred EXCEPT ![t] = c] /\ UNCHANGED session
    BY <1>3 DEF Open, storage
  <2>4. request' = [request EXCEPT ![t] = [none EXCEPT ![First] = Idle]]
    BY <1>3, <2>1 DEF Open
  <2>5. \A r \in Slots : request'[t][r] = Idle
    BY <1>1, <2>4
  <2>6. QED
    BY <1>1, <2>2, <2>3, <2>5, IdleTyped DEF NothingPending
<1>4. CASE Close(t)
  BY <1>2, <1>4 DEF Close
<1>5. CASE Logout(t)
  <2>1. cred'[t] = NoCredentials /\ session'[t] = Nothing /\ request' = request
    BY <1>1, <1>5 DEF Logout, Drop
  <2>2. ~Refreshing(request[t])
    BY <1>2, <1>5 DEF Logout
  <2>3. \A r \in Slots : ~Holds(request[t][r]) /\ request[t][r].at # "queued"
    BY <2>2 DEF Refreshing, Mutex, NobodyWaitsInVain
  <2>4. \A r \in Slots : request[t][r].at \in Stages
    BY <1>1 DEF RequestType
  <2>5. QED
    BY <2>1, <2>3, <2>4 DEF NothingPending, Holds, Stages
<1>6. ASSUME NEW r \in Slots, NEW purpose \in Purposes, Query(t, r, purpose)
      PROVE  NothingPending(t)'
  <2>1. NothingPending(t) /\ UNCHANGED <<cred, session>>
        /\ request' = [request EXCEPT ![t][r] = Asked(cred[t], request[t], purpose)]
    BY <1>2, <1>6 DEF Query, LogoutIsFinal, storage, ghosts
  <2>2. Asked(cred[t], request[t], purpose).at = "sent"
    BY <2>1 DEF NothingPending, Asked, NoCredentials, Request
  <2>3. QED
    BY <1>1, <2>1, <2>2 DEF NothingPending
<1>7. QED
  BY <1>3, <1>4, <1>5, <1>6

\* With nothing pending no refresh can end.
LEMMA ExchangeLogsOut ==
  ASSUME WellFormed, Mutex, LogoutIsFinal, NEW t \in Tabs, NEW r \in Slots, Exchange(t, r)
  PROVE  LogoutIsFinal'
<1>1. /\ cred \in [Tabs -> Credentials] /\ session \in [Tabs -> Known]
      /\ request \in [Tabs -> [Slots -> RequestType]]
  BY DEF WellFormed, TypeOK, Credentials, Known
<1>2. SUFFICES ASSUME t \in loggedOut' \ revived' PROVE NothingPending(t)'
  BY ExchangeElsewhere, LogoutOfOne
<1>3. CASE LoggedIn(t, r)
  BY <1>2, <1>3 DEF LoggedIn
<1>4. CASE ~LoggedIn(t, r)
  <2>1. UNCHANGED <<loggedOut, revived>>
    BY <1>4 DEF Exchange, ServerRefresh, Refreshed, RefreshRefused, RefreshLost, QueryAnswered,
                RoleRefused, QueryFailed, ghosts
  <2>2. NothingPending(t)
    BY <1>2, <2>1 DEF LogoutIsFinal
  <2>3. request[t][r].at \in {"idle", "sent"}
    BY <2>2 DEF NothingPending
  <2>4. QueryAnswered(t, r) \/ RoleRefused(t, r) \/ QueryFailed(t, r)
    BY <1>4, <2>3 DEF Exchange, ServerRefresh, Refreshed, RefreshRefused, RefreshLost, Holds
  <2>5. Drop(t) \/ UNCHANGED <<cred, session>>
    BY <2>4 DEF QueryAnswered, RoleRefused, QueryFailed, Rejected, storage
  <2>6. cred'[t] = NoCredentials /\ session'[t] = Nothing
    BY <1>1, <2>2, <2>5 DEF NothingPending, Drop
  <2>7. PICK x \in {Idle, Asked(cred[t], request[t], "settings")} :
          request' = [request EXCEPT ![t][r] = x]
    <3>1. CASE QueryAnswered(t, r)
      BY <3>1 DEF QueryAnswered
    <3>2. CASE RoleRefused(t, r) \/ QueryFailed(t, r)
      BY <3>2 DEF RoleRefused, QueryFailed
    <3>3. QED
      BY <2>4, <3>1, <3>2
  <2>8. x.at \in {"idle", "sent"}
    BY <2>2, IdleTyped DEF NothingPending, Asked, NoCredentials, Request
  <2>9. QED
    BY <1>1, <2>2, <2>6, <2>7, <2>8 DEF NothingPending
<1>5. QED
  BY <1>3, <1>4

LEMMA AlwaysFinal == Spec => [](WellFormed /\ Mutex /\ LogoutIsFinal)
<1> DEFINE Inv == WellFormed /\ Mutex /\ LogoutIsFinal
<1>1. Init => Inv
  BY InitSafe DEF Init, LogoutIsFinal
<1>2. Inv /\ [Next]_vars => Inv'
  <2> SUFFICES ASSUME WellFormed, Mutex, LogoutIsFinal, [Next]_vars PROVE Inv'
    OBVIOUS
  <2>1. WellFormed' /\ Mutex'
    BY StepSafe
  <2>2. CASE User
    BY <2>1, <2>2, UserLogsOut DEF User
  <2>3. CASE \E t \in Tabs, r \in Slots : Exchange(t, r)
    BY <2>1, <2>3, ExchangeLogsOut
  <2>4. CASE (\E n \in Tokens : Expire(n) \/ Forget(n)) \/ UNCHANGED vars
    <3>1. UNCHANGED <<cred, session, request, loggedOut, revived>>
      BY <2>4 DEF Expire, Forget, vars, pages, storage, ghosts
    <3>2. LogoutIsFinal'
      BY <3>1 DEF LogoutIsFinal, NothingPending
    <3>3. QED
      BY <2>1, <3>2
  <2>5. LogoutIsFinal'
    BY <2>2, <2>3, <2>4 DEF Next
  <2>6. QED
    BY <2>1, <2>5
<1>3. QED
  BY <1>1, <1>2, PTL DEF Spec

\* A logout that finds no refresh pending is final: neither an answer nor a
\* reload brings credentials back, until the next login.
THEOREM LogoutsLast == Spec => []LoggedOutStaysOut
<1>1. NoCredentials.access = Nothing
  BY DEF NoCredentials
<1>2. WellFormed => loggedOut \subseteq Tabs
  BY DEF WellFormed, TypeOK
<1>3. WellFormed /\ LogoutIsFinal => LoggedOutStaysOut
  BY <1>1, <1>2 DEF LogoutIsFinal, NothingPending, LoggedOutStaysOut
<1>4. QED
  BY <1>3, AlwaysFinal, PTL

----------------------------------------------------------------------------
(* What is stored for good.                                                *)

LEMMA DropForgets ==
  ASSUME NEW t \in Tabs, Drop(t), UNCHANGED <<remembered, mixed>>
  PROVE  StoredOnRequest'
BY DEF Drop, StoredOnRequest, ForgottenStaysForgotten, RememberedAskedForIt

LEMMA SameStored ==
  ASSUME StoredOnRequest, UNCHANGED <<local, forgotten, mixed>>, remembered \subseteq remembered'
  PROVE  StoredOnRequest'
BY DEF StoredOnRequest, ForgottenStaysForgotten, RememberedAskedForIt

LEMMA StepStores ==
  ASSUME WellFormed, StoredOnRequest, [Next]_vars
  PROVE  StoredOnRequest'
<1>1. ASSUME NEW t \in Tabs, NEW a \in {"booking", "admin"}, Open(t, a) \/ Close(t)
      PROVE  StoredOnRequest'
  BY <1>1, SameStored DEF Open, Close, storage
<1>2. ASSUME NEW t \in Tabs, Logout(t) PROVE StoredOnRequest'
  BY <1>2, DropForgets DEF Logout
<1>3. ASSUME NEW t \in Tabs, NEW r \in Slots, NEW purpose \in Purposes, Query(t, r, purpose)
      PROVE  StoredOnRequest'
  BY <1>3, SameStored DEF Query, storage, ghosts
<1>4. ASSUME NEW t \in Tabs, NEW r \in Slots, Exchange(t, r) PROVE StoredOnRequest'
  <2>1. CASE ServerRefresh(t, r)
    <3>1. UNCHANGED <<local, forgotten, mixed>>
      BY <2>1 DEF ServerRefresh, storage
    <3>2. remembered \subseteq remembered'
      BY <2>1 DEF ServerRefresh
    <3>3. QED
      BY <3>1, <3>2, SameStored
  <2>2. CASE Refreshed(t, r)
    BY <2>2 DEF Refreshed, Stored, StoredOnRequest, ForgottenStaysForgotten, RememberedAskedForIt
  <2>3. CASE RefreshRefused(t, r)
    BY <2>3, DropForgets DEF RefreshRefused
  <2>4. CASE RoleRefused(t, r)
    BY <2>4, DropForgets DEF RoleRefused
  <2>5. CASE RefreshLost(t, r) \/ QueryFailed(t, r)
    <3>1. Drop(t) \/ UNCHANGED <<local, forgotten>>
      BY <2>5 DEF RefreshLost, QueryFailed, Rejected, storage
    <3>2. UNCHANGED <<remembered, mixed>>
      BY <2>5 DEF RefreshLost, QueryFailed
    <3>3. QED
      BY <3>1, <3>2, DropForgets, SameStored
  <2>6. CASE QueryAnswered(t, r)
    BY <2>6, SameStored DEF QueryAnswered, storage, ghosts
  <2>7. CASE LoggedIn(t, r)
    BY <2>7 DEF LoggedIn, StoredOnRequest, ForgottenStaysForgotten, RememberedAskedForIt
  <2>8. QED
    BY <1>4, <2>1, <2>2, <2>3, <2>4, <2>5, <2>6, <2>7 DEF Exchange
<1>5. ASSUME NEW n \in Tokens, Expire(n) \/ Forget(n) PROVE StoredOnRequest'
  BY <1>5, SameStored DEF Expire, Forget, storage, ghosts
<1>6. CASE UNCHANGED vars
  BY <1>6, SameStored DEF vars, storage, ghosts
<1>7. QED
  BY <1>1, <1>2, <1>3, <1>4, <1>5, <1>6 DEF Next, User

\* A refresh token is stored for good on request only, in whatever order the
\* tabs refresh, log in and log out.
THEOREM StorageIsAskedFor == Spec => []StoredOnRequest
<1>1. Init => StoredOnRequest
  BY DEF Init, StoredOnRequest, ForgottenStaysForgotten, RememberedAskedForIt
<1>2. WellFormed /\ StoredOnRequest /\ [Next]_vars => StoredOnRequest'
  BY StepStores
<1>3. QED
  BY <1>1, <1>2, AlwaysSafe, PTL DEF Spec

----------------------------------------------------------------------------
(* The tokens: steps that leave them where they are.                       *)

LEMMA CalmIsBounded ==
  ASSUME WellFormed, WellFormed', Bounded, Calm
  PROVE  Bounded'
<1>1. issued \in Nat /\ issued' = issued /\ Nothing <= issued /\ local <= issued
  BY ClientAssumption DEF Calm, Bounded, WellFormed, TypeOK, Nothing
<1>2. ASSUME NEW t \in Tabs, NEW n \in Known, Knows(t, n)' PROVE n <= issued'
  <2>1. Knows(t, n) \/ n \in {local, Nothing}
    BY <1>2 DEF Calm, CalmFor
  <2>2. QED
    BY <1>1, <2>1 DEF Bounded
<1>3. ASSUME NEW n \in expired' PROVE n <= issued'
  <2>1. n \in expired \/ \E t \in Tabs : Knows(t, n)
    BY <1>3 DEF Calm
  <2>2. n \in Known
    BY <1>3 DEF WellFormed, TypeOK, Known
  <2>3. QED
    BY <1>1, <2>1, <2>2 DEF Bounded
<1>4. ASSUME NEW t \in Tabs, NEW r \in Slots, Rotated(t, r)' PROVE request'[t][r].next <= issued'
  <2>1. request'[t][r] = request[t][r] /\ Rotated(t, r)
    BY <1>4 DEF Calm, CalmFor, Rotated
  <2>2. QED
    BY <1>1, <2>1 DEF Bounded
<1>5. \A n \in valid' \cup remembered' \cup {local'} : n <= issued'
  BY <1>1 DEF Calm, Bounded
<1>6. QED
  BY <1>2, <1>3, <1>4, <1>5 DEF Bounded

LEMMA CalmIsSecret ==
  ASSUME WellFormed, Secret, Calm
  PROVE  Secret'
<1> SUFFICES ASSUME NEW t \in Tabs, NEW r \in Slots, Rotated(t, r)'
             PROVE  /\ Hidden(request[t][r].next)' /\ request'[t][r].next \in valid' \cup spoiled'
                    /\ \A u \in Tabs : \A s \in Slots :
                         Rotated(u, s)' /\ request'[u][s].next = request'[t][r].next
                           => u = t /\ s = r
  BY DEF Secret
<1> DEFINE n == request[t][r].next
<1>1. \A u \in Tabs, s \in Slots : Rotated(u, s)' => Rotated(u, s) /\ request'[u][s] = request[u][s]
  BY DEF Calm, CalmFor, Rotated
<1>2. Rotated(t, r) /\ request'[t][r].next = n /\ n \in Tokens
  BY <1>1 DEF WellFormed, HasToken, Rotated
<1>3. Hidden(n) /\ n \in valid \cup spoiled
  BY <1>2 DEF Secret
<1>4. n \in valid' \cup spoiled'
  BY <1>3 DEF Calm
<1>5. \A u \in Tabs : ~Knows(u, n)'
  BY <1>2, <1>3 DEF Calm, CalmFor, Hidden, Known
<1>6. n \notin expired' /\ n # local'
  BY <1>3 DEF Calm, Hidden
<1>7. Hidden(request[t][r].next)'
  BY <1>2, <1>3, <1>5, <1>6 DEF Hidden
<1>8. QED
  BY <1>1, <1>2, <1>4, <1>7 DEF Secret

LEMMA CalmIsExcused ==
  ASSUME Excused, Calm
  PROVE  Excused'
<1> SUFFICES ASSUME NEW t \in Tabs, NEW n \in Tokens, MaySend(t, n)'
             PROVE  Justified(t, n)' \/ InExchange(t, n)'
  BY DEF Excused
<1>1. MaySend(t, n)
  BY DEF Calm, CalmFor
<1>2. CASE Justified(t, n)
  BY <1>2 DEF Justified, Calm
<1>3. CASE InExchange(t, n)
  <2>1. PICK r \in Slots : Rotated(t, r) /\ request[t][r].token = n
    BY <1>3 DEF InExchange
  <2>2. CASE request'[t][r] = request[t][r]
    BY <2>1, <2>2 DEF InExchange, Rotated
  <2>3. CASE n \in spoiled'
    BY <2>3 DEF Justified
  <2>4. QED
    BY <2>1, <2>2, <2>3 DEF Calm, CalmFor
<1>4. QED
  BY <1>1, <1>2, <1>3 DEF Excused

LEMMA CalmIsSafe ==
  ASSUME WellFormed, WellFormed', TokensInv, Calm
  PROVE  TokensInv'
<1>1. Bounded' /\ Secret' /\ Excused'
  BY CalmIsBounded, CalmIsSecret, CalmIsExcused DEF TokensInv
<1>2. RefusedForAReason'
  <2> SUFFICES ASSUME NEW t \in Tabs, NEW r \in Slots, request'[t][r].at = "refused"
               PROVE  request'[t][r].token \in spoiled' \/ usedBy'[request'[t][r].token] \ {t} # {}
    BY DEF RefusedForAReason
  <2>1. CASE request'[t][r] = request[t][r]
    <3>1. request[t][r].token \in spoiled \/ usedBy[request[t][r].token] \ {t} # {}
      BY <2>1 DEF TokensInv, RefusedForAReason
    <3>2. request[t][r].token \in Tokens
      BY <2>1 DEF WellFormed, HasToken
    <3>3. QED
      BY <2>1, <3>1, <3>2 DEF Calm
  <2>2. CASE request'[t][r] # request[t][r]
    BY <2>2 DEF Calm, CalmFor
  <2>3. QED
    BY <2>1, <2>2
<1>3. RememberedTokenWorks'
  <2>1. CASE local' = Nothing
    BY <2>1 DEF RememberedTokenWorks
  <2>2. CASE local' = local /\ local \in {Nothing} \cup valid \cup spoiled
    BY <2>2 DEF RememberedTokenWorks, Calm
  <2>3. ASSUME local' = local, NEW t \in Tabs, NEW r \in Slots,
               request[t][r].at = "rotated", request[t][r].token = local
        PROVE  RememberedTokenWorks'
    <3>1. request'[t][r] = request[t][r] \/ local \in spoiled'
      BY <2>3 DEF Calm, CalmFor, Rotated
    <3>2. QED
      BY <2>3, <3>1 DEF RememberedTokenWorks
  <2>4. QED
    BY <2>1, <2>2, <2>3 DEF Calm, TokensInv, RememberedTokenWorks
<1>4. QED
  BY <1>1, <1>2, <1>3 DEF TokensInv

\* For a step of tab t it is enough to look at t.
LEMMA CalmElsewhere ==
  ASSUME NEW t \in Tabs, Elsewhere(t), CalmFor(t), local' \in {local, Nothing}
  PROVE  \A u \in Tabs : CalmFor(u)
<1> SUFFICES ASSUME NEW u \in Tabs \ {t} PROVE CalmFor(u)
  OBVIOUS
<1>1. cred'[u] = cred[u] /\ session'[u] = session[u] /\ request'[u] = request[u]
  BY DEF Elsewhere
<1>2. \A n \in Known : Knows(u, n)' => Knows(u, n)
  BY <1>1 DEF Knows
<1>3. \A n \in Tokens : MaySend(u, n)' => MaySend(u, n)
  BY <1>1 DEF MaySend, Tokens, Nothing
<1>4. QED
  BY <1>1, <1>2, <1>3 DEF CalmFor

\* What a tab may have next, and what it may ask next.
LEMMA CalmTab ==
  ASSUME WellFormed, NEW t \in Tabs, local' \in {local, Nothing},
         cred'[t].access \in {cred[t].access, session[t], Nothing},
         cred'[t].refresh \in {cred[t].refresh, session[t], local, Nothing},
         session'[t] \in {session[t], Nothing},
         \A w \in Slots :
           LET x == request'[t][w]
           IN  \/ x = request[t][w]
               \/ x.at \in {"idle", "sent"} /\ (Knows(t, x.token) \/ x.token \in {local, Nothing})
               \/ x.at \in {"queued", "posted"} /\ (MaySend(t, x.token) \/ x.token = Nothing),
         \A w \in Slots :
           Rotated(t, w) => request'[t][w] = request[t][w] \/ request[t][w].token \in spoiled'
  PROVE  CalmFor(t)
<1>1. \A n \in Known : MaySend(t, n) => Knows(t, n) \/ n = local
  BY DEF MaySend, Knows
<1>2. \A w \in Slots : request[t][w].token \in Known
  BY DEF WellFormed, TypeOK, RequestType, Known
<1>3. ASSUME NEW n \in Known, NEW w \in Slots, n = request'[t][w].token
      PROVE  Knows(t, n) \/ n \in {local, Nothing}
  <2>1. CASE request'[t][w] = request[t][w]
    BY <1>3, <2>1 DEF Knows
  <2>2. QED
    BY <1>1, <1>3, <2>1
<1>4. \A n \in Known : Knows(t, n)' => Knows(t, n) \/ n \in {local, Nothing}
  BY <1>3 DEF Knows
<1>5. ASSUME NEW n \in Tokens, NEW w \in Slots, n = request'[t][w].token,
             request'[t][w].at \in {"queued", "posted"}
      PROVE  MaySend(t, n)
  <2>1. CASE request'[t][w] = request[t][w]
    BY <1>5, <2>1 DEF MaySend
  <2>2. CASE MaySend(t, request'[t][w].token)
    BY <1>5, <2>2
  <2>3. QED
    BY <1>5, <2>1, <2>2 DEF Tokens, Nothing
<1>6. \A n \in Tokens : MaySend(t, n)' => MaySend(t, n)
  <2> SUFFICES ASSUME NEW n \in Tokens, MaySend(t, n)' PROVE MaySend(t, n)
    OBVIOUS
  <2>1. n # Nothing
    BY DEF Tokens, Nothing
  <2>2. CASE n = cred'[t].refresh \/ n = session'[t] \/ n = local'
    BY <2>1, <2>2 DEF MaySend
  <2>3. CASE \E w \in Slots : request'[t][w].at \in {"queued", "posted"}
                              /\ request'[t][w].token = n
    BY <1>5, <2>3
  <2>4. QED
    BY <2>2, <2>3 DEF MaySend
<1>7. QED
  BY <1>4, <1>6 DEF CalmFor

\* A request that has just been asked for.
LEMMA AskedCalmly ==
  ASSUME WellFormed, NEW t \in Tabs, NEW purpose \in Purposes,
         NEW rs \in [Slots -> RequestType]
  PROVE  LET x == Asked(cred[t], rs, purpose)
         IN  \/ x.at = "sent" /\ Knows(t, x.token)
             \/ x.at \in {"queued", "posted"} /\ MaySend(t, x.token)
<1>1. cred[t] \in Credentials
  BY DEF WellFormed, TypeOK, Credentials, Known
<1>2. QED
  BY <1>1, AskedIs DEF Knows, MaySend

\* The answers after which no token is new.
LEMMA AnswerIsCalm ==
  ASSUME WellFormed, NEW t \in Tabs, NEW r \in Slots,
         QueryAnswered(t, r) \/ RoleRefused(t, r) \/ QueryFailed(t, r)
  PROVE  Calm
<1>1. /\ cred \in [Tabs -> Credentials] /\ session \in [Tabs -> Known]
      /\ request \in [Tabs -> [Slots -> RequestType]]
  BY DEF WellFormed, TypeOK, Credentials, Known
<1>2. Elsewhere(t)
  BY ExchangeElsewhere DEF Exchange
<1>3. Drop(t) \/ UNCHANGED <<cred, session, local>>
  BY DEF QueryAnswered, RoleRefused, QueryFailed, Rejected, storage
<1>4. local' \in {local, Nothing} /\ session'[t] \in {session[t], Nothing}
  BY <1>1, <1>3 DEF Drop
<1>5. cred'[t].access \in {cred[t].access, Nothing} /\ cred'[t].refresh \in {cred[t].refresh, Nothing}
  BY <1>1, <1>3 DEF Drop, NoCredentials
<1>6. PICK x \in {Idle, Asked(cred[t], request[t], "settings")} :
        request' = [request EXCEPT ![t][r] = x]
  <2>1. CASE QueryAnswered(t, r)
    BY <2>1 DEF QueryAnswered
  <2>2. CASE RoleRefused(t, r) \/ QueryFailed(t, r)
    BY <2>2 DEF RoleRefused, QueryFailed
  <2>3. QED
    BY <2>1, <2>2
<1>7. \/ x.at \in {"idle", "sent"} /\ (Knows(t, x.token) \/ x.token = Nothing)
      \/ x.at \in {"queued", "posted"} /\ MaySend(t, x.token)
  <2>1. "settings" \in Purposes /\ request[t] \in [Slots -> RequestType]
    BY <1>1 DEF Purposes
  <2>2. CASE x = Idle
    BY <2>2, IdleTyped
  <2>3. CASE x = Asked(cred[t], request[t], "settings")
    BY <2>1, <2>3, AskedCalmly
  <2>4. QED
    BY <2>2, <2>3
<1>8. \A w \in Slots : request'[t][w] = IF w = r THEN x ELSE request[t][w]
  BY <1>1, <1>6
<1>9. ~Rotated(t, r)
  BY DEF Rotated, QueryAnswered, RoleRefused, QueryFailed
<1>10. CalmFor(t)
  BY <1>4, <1>5, <1>7, <1>8, <1>9, CalmTab
<1>11. UNCHANGED <<issued, remembered, valid, spoiled, usedBy, expired>>
  BY DEF QueryAnswered, RoleRefused, QueryFailed, server, ghosts
<1>12. QED
  BY <1>2, <1>4, <1>10, <1>11, CalmElsewhere DEF Calm

\* A page that is left: its exchanges are spoiled.
LEMMA LeftSpoils ==
  ASSUME WellFormed, NEW t \in Tabs, Left(t)
  PROVE  /\ valid' \subseteq valid /\ spoiled \subseteq spoiled'
         /\ valid \subseteq valid' \cup spoiled'
         /\ \A r \in Slots : Rotated(t, r) => request[t][r].token \in spoiled'
BY DEF Left, Rotated

LEMMA OpenIsCalm ==
  ASSUME WellFormed, NEW t \in Tabs, NEW a \in {"booking", "admin"}, Open(t, a)
  PROVE  Calm
<1> DEFINE n == IF session[t] = Nothing /\ a = "booking" THEN local ELSE session[t]
           c == IF session[t] # Nothing THEN Pair(n) ELSE [NoCredentials EXCEPT !.refresh = n]
           none == [r \in Slots |-> Idle]
           first == IF a = "admin" \/ n = Nothing THEN Idle
                    ELSE IF c.access = Nothing THEN Request("posted", "verify", n)
                    ELSE Asked(c, none, "self")
<1>1. /\ cred \in [Tabs -> Credentials] /\ session \in [Tabs -> Known]
      /\ request \in [Tabs -> [Slots -> RequestType]] /\ local \in Known
  BY DEF WellFormed, TypeOK, Credentials, Known
<1>2. /\ cred' = [cred EXCEPT ![t] = c] /\ UNCHANGED <<session, local>>
      /\ request' = [request EXCEPT ![t] = [none EXCEPT ![First] = first]]
  BY DEF Open, storage
<1>3. n \in {session[t], local} /\ n \in Known
  BY <1>1
<1>4. /\ c.access \in {session[t], Nothing} /\ c.refresh = n
      /\ c \in Credentials
  BY <1>3 DEF Pair, NoCredentials, Credentials, Known
<1>5. MaySend(t, n)
  BY <1>3 DEF MaySend
<1>6. none \in [Slots -> RequestType]
  BY IdleTyped
<1>7. LET x == Asked(c, none, "self")
      IN  \/ x.at = "sent" /\ (Knows(t, x.token) \/ x.token = Nothing)
          \/ x.at \in {"queued", "posted"} /\ MaySend(t, x.token)
  <2> DEFINE x == Asked(c, none, "self")
  <2>1. "self" \in Purposes
    BY DEF Purposes
  <2> HIDE DEF c, none
  <2>2. /\ x.at \in {"sent", "queued", "posted"}
        /\ x.at = "sent" => x.token = c.access
        /\ x.at # "sent" => x.token = c.refresh
    BY <1>4, <1>6, <2>1, AskedIs
  <2>3. QED
    BY <1>4, <1>5, <2>2 DEF Knows
<1>8. Request("posted", "verify", n).at = "posted" /\ Request("posted", "verify", n).token = n
  BY DEF Request
<1>9. \/ first.at \in {"idle", "sent"} /\ (Knows(t, first.token) \/ first.token = Nothing)
      \/ first.at \in {"queued", "posted"} /\ MaySend(t, first.token)
  BY <1>5, <1>7, <1>8, IdleTyped
<1> HIDE DEF first
<1>10. \A w \in Slots : request'[t][w] = IF w = First THEN first ELSE Idle
  BY <1>1, <1>2
<1>11. cred'[t] = c
  BY <1>1, <1>2
<1>12. Left(t) /\ \A r \in Slots : Rotated(t, r) => request[t][r].token \in spoiled'
  BY LeftSpoils DEF Open
<1>13. CalmFor(t)
  <2>1. \A w \in Slots :
          LET x == request'[t][w]
          IN  \/ x.at \in {"idle", "sent"} /\ (Knows(t, x.token) \/ x.token \in {local, Nothing})
              \/ x.at \in {"queued", "posted"} /\ (MaySend(t, x.token) \/ x.token = Nothing)
    BY <1>9, <1>10, IdleTyped
  <2>2. /\ cred'[t].access \in {cred[t].access, session[t], Nothing}
        /\ cred'[t].refresh \in {cred[t].refresh, session[t], local, Nothing}
        /\ session'[t] \in {session[t], Nothing} /\ local' \in {local, Nothing}
    BY <1>2, <1>3, <1>4, <1>11
  <2>3. QED
    BY <1>12, <2>1, <2>2, CalmTab
<1>14. Elsewhere(t)
  BY UserElsewhere
<1>15. UNCHANGED <<issued, remembered, usedBy, expired>>
  BY DEF Open
<1>16. QED
  BY <1>2, <1>12, <1>13, <1>14, <1>15, LeftSpoils, CalmElsewhere DEF Calm

LEMMA CloseIsCalm ==
  ASSUME WellFormed, NEW t \in Tabs, Close(t)
  PROVE  Calm
<1>1. /\ cred \in [Tabs -> Credentials] /\ session \in [Tabs -> Known]
      /\ request \in [Tabs -> [Slots -> RequestType]]
  BY DEF WellFormed, TypeOK, Credentials, Known
<1>2. /\ cred'[t] = NoCredentials /\ session'[t] = Nothing /\ local' = local
      /\ \A w \in Slots : request'[t][w] = Idle
  BY <1>1 DEF Close
<1>3. cred'[t].access = Nothing /\ cred'[t].refresh = Nothing
  BY <1>2 DEF NoCredentials
<1>4. Left(t) /\ \A r \in Slots : Rotated(t, r) => request[t][r].token \in spoiled'
  BY LeftSpoils DEF Close
<1>5. CalmFor(t)
  BY <1>2, <1>3, <1>4, IdleTyped, CalmTab
<1>6. Elsewhere(t)
  BY UserElsewhere
<1>7. UNCHANGED <<issued, remembered, usedBy, expired>>
  BY DEF Close
<1>8. QED
  BY <1>2, <1>4, <1>5, <1>6, <1>7, LeftSpoils, CalmElsewhere DEF Calm

LEMMA LogoutIsCalm ==
  ASSUME WellFormed, NEW t \in Tabs, Logout(t)
  PROVE  Calm
<1>1. cred \in [Tabs -> Credentials] /\ session \in [Tabs -> Known]
  BY DEF WellFormed, TypeOK, Credentials, Known
<1>2. cred'[t] = NoCredentials /\ session'[t] = Nothing /\ local' = Nothing /\ request' = request
  BY <1>1 DEF Logout, Drop
<1>3. cred'[t].access = Nothing /\ cred'[t].refresh = Nothing
  BY <1>2 DEF NoCredentials
<1>4. CalmFor(t)
  BY <1>2, <1>3, CalmTab
<1>5. UNCHANGED <<issued, valid, remembered, usedBy, spoiled, expired>>
  BY DEF Logout, server
<1>6. QED
  BY <1>2, <1>4, <1>5, UserElsewhere, CalmElsewhere DEF Calm

LEMMA QueryIsCalm ==
  ASSUME WellFormed, NEW t \in Tabs, NEW r \in Slots, NEW purpose \in Purposes,
         Query(t, r, purpose)
  PROVE  Calm
<1> DEFINE x == Asked(cred[t], request[t], purpose)
<1>1. request \in [Tabs -> [Slots -> RequestType]]
  BY DEF WellFormed, TypeOK
<1>2. /\ request' = [request EXCEPT ![t][r] = x]
      /\ UNCHANGED <<cred, session, local, issued, valid, remembered, usedBy, spoiled, expired>>
      /\ ~Rotated(t, r)
  BY IdleTyped DEF Query, storage, server, ghosts, Rotated
<1>3. \/ x.at = "sent" /\ Knows(t, x.token)
      \/ x.at \in {"queued", "posted"} /\ MaySend(t, x.token)
  BY <1>1, AskedCalmly
<1> HIDE DEF x
<1>4. \A w \in Slots : request'[t][w] = IF w = r THEN x ELSE request[t][w]
  BY <1>1, <1>2
<1>5. CalmFor(t)
  BY <1>2, <1>3, <1>4, CalmTab
<1>6. Elsewhere(t)
  BY UserElsewhere
<1>7. QED
  BY <1>2, <1>5, <1>6, CalmElsewhere DEF Calm

\* A page whose refresh has failed: who waited refreshes next, with the token
\* it has waited with.
LEMMA ReleasedCalmly ==
  ASSUME WellFormed, Mutex, NEW t \in Tabs, NEW r \in Slots, Holds(request[t][r]),
         NEW c \in Credentials, NEW x \in RequestType, x.at \in {"idle", "sent"}, x.token = Nothing,
         c.access \in {cred[t].access, Nothing},
         NEW rs \in Released(request[t], r, x, c), request' = [request EXCEPT ![t] = rs]
  PROVE  /\ \A w \in Slots :
              LET y == request'[t][w]
              IN  \/ y = request[t][w]
                  \/ y.at \in {"idle", "sent"} /\ (Knows(t, y.token) \/ y.token \in {local, Nothing})
                  \/ y.at \in {"queued", "posted"} /\ (MaySend(t, y.token) \/ y.token = Nothing)
         /\ \A w \in Slots \ {r} : Rotated(t, w) => request'[t][w] = request[t][w]
<1>1. request \in [Tabs -> [Slots -> RequestType]] /\ request[t] \in [Slots -> RequestType]
  BY DEF WellFormed, TypeOK
<1>2. \A r1, r2 \in Slots : Holds(request[t][r1]) /\ Holds(request[t][r2]) => r1 = r2
  BY DEF Mutex, OneRefreshPerPage
<1>3. /\ rs[r] = x
      /\ \A w \in Slots \ {r} :
            \/ request[t][w].at # "queued" /\ rs[w] = request[t][w]
            \/ request[t][w].at = "queued" /\ rs[w] = Request("sent", request[t][w].for, c.access)
            \/ request[t][w].at = "queued" /\ rs[w] = request[t][w]
            \/ request[t][w].at = "queued" /\ rs[w] = [request[t][w] EXCEPT !.at = "posted"]
  BY <1>1, <1>2, ReleasedIs
<1>4. request'[t] = rs
  BY <1>1
<1>5. ASSUME NEW w \in Slots \ {r}
      PROVE  \/ rs[w] = request[t][w]
             \/ rs[w].at = "sent" /\ rs[w].token = c.access
             \/ rs[w].at = "posted" /\ MaySend(t, rs[w].token)
  <2>1. ASSUME request[t][w].at = "queued" PROVE MaySend(t, request[t][w].token)
    BY <2>1 DEF MaySend
  <2>2. CASE rs[w] = Request("sent", request[t][w].for, c.access)
    BY <2>2 DEF Request
  <2>3. CASE request[t][w].at = "queued" /\ rs[w] = [request[t][w] EXCEPT !.at = "posted"]
    <3>1. rs[w].at = "posted" /\ rs[w].token = request[t][w].token
      BY <1>1, <2>3 DEF RequestType
    <3>2. QED
      BY <2>1, <2>3, <3>1
  <2>4. QED
    BY <1>3, <2>2, <2>3
<1>6. Knows(t, c.access) \/ c.access = Nothing
  BY DEF Knows
<1>7. \A w \in Slots \ {r} : Rotated(t, w) => rs[w] = request[t][w]
  BY <1>3 DEF Rotated
<1>8. QED
  BY <1>3, <1>4, <1>5, <1>6, <1>7

LEMMA RefreshRefusedIsCalm ==
  ASSUME WellFormed, Mutex, NEW t \in Tabs, NEW r \in Slots, RefreshRefused(t, r)
  PROVE  Calm
<1> DEFINE q == request[t][r]
           x == IF q.for = "verify" THEN Idle ELSE Request("sent", q.for, Nothing)
<1>1. /\ cred \in [Tabs -> Credentials] /\ session \in [Tabs -> Known]
      /\ q \in RequestType /\ q.at = "refused"
  BY DEF WellFormed, TypeOK, Credentials, Known, RefreshRefused
<1>2. cred'[t] = NoCredentials /\ session'[t] = Nothing /\ local' = Nothing
  BY <1>1 DEF RefreshRefused, Drop
<1>3. PICK rs \in Released(request[t], r, x, NoCredentials) : request' = [request EXCEPT ![t] = rs]
  BY DEF RefreshRefused
<1>4. NoCredentials \in Credentials /\ NoCredentials.access = Nothing
      /\ NoCredentials.refresh = Nothing
  BY DEF NoCredentials, Credentials, Known
<1>5. /\ Request("sent", q.for, Nothing) \in RequestType
      /\ Request("sent", q.for, Nothing).at = "sent" /\ Request("sent", q.for, Nothing).token = Nothing
  BY <1>1, RequestTyped DEF RequestType, Stages, Known, Request
<1>6. x \in RequestType /\ x.at \in {"idle", "sent"} /\ x.token = Nothing
  BY <1>5, IdleTyped
<1>7. Holds(q) /\ ~Rotated(t, r)
  BY <1>1 DEF Holds, Rotated
<1> HIDE DEF x
<1>8. CalmFor(t)
  BY <1>2, <1>3, <1>4, <1>6, <1>7, ReleasedCalmly, CalmTab
<1>9. UNCHANGED <<issued, valid, remembered, usedBy, spoiled, expired>>
  BY DEF RefreshRefused, server
<1>10. Elsewhere(t)
  BY ExchangeElsewhere DEF Exchange
<1>11. QED
  BY <1>2, <1>8, <1>9, <1>10, CalmElsewhere DEF Calm

LEMMA RefreshLostIsCalm ==
  ASSUME WellFormed, Mutex, NEW t \in Tabs, NEW r \in Slots, RefreshLost(t, r)
  PROVE  Calm
<1> DEFINE q == request[t][r]
<1>1. /\ cred \in [Tabs -> Credentials] /\ session \in [Tabs -> Known]
      /\ q \in RequestType /\ Holds(q) /\ cred[t] \in Credentials
  BY DEF WellFormed, TypeOK, Credentials, Known, RefreshLost
<1>2. Drop(t) \/ UNCHANGED <<cred, session, local>>
  BY DEF RefreshLost, Rejected, storage
<1>3. local' \in {local, Nothing} /\ session'[t] \in {session[t], Nothing}
  BY <1>1, <1>2 DEF Drop
<1>4. cred'[t].access \in {cred[t].access, Nothing} /\ cred'[t].refresh \in {cred[t].refresh, Nothing}
  BY <1>1, <1>2 DEF Drop, NoCredentials
<1>5. PICK rs \in Released(request[t], r, Idle, cred[t]) : request' = [request EXCEPT ![t] = rs]
  BY DEF RefreshLost
<1>6. spoiled \subseteq spoiled' /\ (Rotated(t, r) => q.token \in spoiled')
  BY DEF RefreshLost, Rotated
<1>7. CalmFor(t)
  <2>1. /\ \A w \in Slots :
             LET y == request'[t][w]
             IN  \/ y = request[t][w]
                 \/ y.at \in {"idle", "sent"} /\ (Knows(t, y.token) \/ y.token \in {local, Nothing})
                 \/ y.at \in {"queued", "posted"} /\ (MaySend(t, y.token) \/ y.token = Nothing)
        /\ \A w \in Slots \ {r} : Rotated(t, w) => request'[t][w] = request[t][w]
    BY <1>1, <1>5, IdleTyped, ReleasedCalmly
  <2>2. \A w \in Slots :
          Rotated(t, w) => request'[t][w] = request[t][w] \/ request[t][w].token \in spoiled'
    BY <1>6, <2>1
  <2>3. QED
    BY <1>3, <1>4, <2>1, <2>2, CalmTab
<1>8. UNCHANGED <<issued, valid, remembered, usedBy, expired>>
  BY DEF RefreshLost, server
<1>9. Elsewhere(t)
  BY ExchangeElsewhere DEF Exchange
<1>10. QED
  BY <1>3, <1>6, <1>7, <1>8, <1>9, CalmElsewhere DEF Calm

LEMMA ServerIsCalm ==
  ASSUME WellFormed, NEW n \in Tokens, Expire(n) \/ Forget(n)
  PROVE  Calm
<1>1. UNCHANGED <<cred, session, local, request, issued, remembered, usedBy>>
  BY DEF Expire, Forget, storage, server, ghosts
<1>2. valid' \subseteq valid /\ spoiled \subseteq spoiled' /\ valid \subseteq valid' \cup spoiled'
  BY DEF Expire, Forget, server, ghosts
<1>3. \A m \in expired' \ expired : \E t \in Tabs : Knows(t, m)
  BY DEF Expire, Forget, Knows
<1>4. \A t \in Tabs : CalmFor(t)
  BY <1>1 DEF CalmFor, Knows, MaySend
<1>5. QED
  BY <1>1, <1>2, <1>3, <1>4 DEF Calm

\* The server refuses a refresh token: by then the page has a reason, since the
\* page itself exchanges one token at a time.
LEMMA RefusalIsCalm ==
  ASSUME WellFormed, Mutex, TokensInv, NEW t \in Tabs, NEW r \in Slots, ServerRefresh(t, r),
         request[t][r].token \notin valid
  PROVE  Calm
<1> DEFINE q == request[t][r]
<1>1. /\ request \in [Tabs -> [Slots -> RequestType]] /\ usedBy \in [Tokens -> SUBSET Tabs]
      /\ q.at = "posted" /\ q.token \in Tokens /\ q \in RequestType
  BY DEF WellFormed, TypeOK, HasToken, ServerRefresh
<1>2. /\ request' = [request EXCEPT ![t][r].at = "refused"]
      /\ UNCHANGED <<cred, session, local, issued, valid, remembered, expired, spoiled>>
      /\ usedBy' = [usedBy EXCEPT ![q.token] = @ \cup {t}]
  BY DEF ServerRefresh, storage, server
<1>3. \A w \in Slots : request'[t][w] =
        IF w = r THEN [q EXCEPT !.at = "refused"] ELSE request[t][w]
  BY <1>1, <1>2
<1>4. [q EXCEPT !.at = "refused"].at = "refused" /\ [q EXCEPT !.at = "refused"].token = q.token
  BY <1>1 DEF RequestType
<1>5. ~InExchange(t, q.token)
  BY <1>1 DEF InExchange, Rotated, Mutex, OneRefreshPerPage, Holds
<1>6. MaySend(t, q.token)
  BY <1>1 DEF MaySend
<1>7. Justified(t, q.token)
  BY <1>1, <1>5, <1>6 DEF TokensInv, Excused
<1>8. q.token \in spoiled' \/ usedBy'[q.token] \ {t} # {}
  BY <1>1, <1>2, <1>7 DEF Justified
<1>9. \A n \in Tokens : usedBy[n] \subseteq usedBy'[n]
  BY <1>1, <1>2
<1>10. CalmFor(t)
  <2>1. \A n \in Known : Knows(t, n)' => Knows(t, n)
    BY <1>2, <1>3, <1>4 DEF Knows
  <2>2. \A n \in Tokens : MaySend(t, n)' => MaySend(t, n)
    BY <1>2, <1>3, <1>4 DEF MaySend
  <2>3. ~Rotated(t, r)
    BY <1>1 DEF Rotated
  <2>4. QED
    BY <1>3, <1>4, <1>8, <2>1, <2>2, <2>3 DEF CalmFor
<1>11. Elsewhere(t)
  BY ExchangeElsewhere DEF Exchange
<1>12. QED
  BY <1>2, <1>9, <1>10, <1>11, CalmElsewhere DEF Calm

----------------------------------------------------------------------------
(* The tokens: the server issues one, and a page gets it.                  *)

\* The server exchanges a token for its successor, which nobody knows yet.
LEMMA ExchangeIsSafe ==
  ASSUME WellFormed, WellFormed', TokensInv, NEW t \in Tabs, NEW r \in Slots, ServerRefresh(t, r),
         request[t][r].token \in valid
  PROVE  TokensInv'
<1> DEFINE q == request[t][r]
           k == q.token
           m == issued + 1
           x == [q EXCEPT !.at = "rotated", !.next = m]
<1>1. /\ request \in [Tabs -> [Slots -> RequestType]] /\ usedBy \in [Tokens -> SUBSET Tabs]
      /\ q.at = "posted" /\ k \in Tokens /\ q \in RequestType
      /\ issued \in Nat /\ m \in Nat
  BY ClientAssumption DEF WellFormed, TypeOK, HasToken, ServerRefresh
<1>2. /\ issued' = m /\ valid' = (valid \ {k}) \cup {m}
      /\ remembered' \subseteq remembered \cup {m} /\ remembered \subseteq remembered'
      /\ usedBy' = [usedBy EXCEPT ![k] = @ \cup {t}]
      /\ UNCHANGED <<cred, session, local, expired, spoiled>>
  BY DEF ServerRefresh, storage
<1>3. request' = [request EXCEPT ![t][r].at = "rotated", ![t][r].next = m]
  BY DEF ServerRefresh
<1>4. \A u \in Tabs, s \in Slots : request'[u][s] = IF u = t /\ s = r THEN x ELSE request[u][s]
  BY <1>1, <1>3
<1>5. x.at = "rotated" /\ x.next = m /\ x.token = k
  BY <1>1 DEF RequestType
<1> HIDE DEF x
<1>6. \A u \in Tabs : \A n \in Known : Knows(u, n)' <=> Knows(u, n)
  BY <1>2, <1>4, <1>5 DEF Knows
<1>7. \A n \in Known \cup {local} : n \in Nat
  BY ClientAssumption DEF WellFormed, TypeOK, Known, Tokens, Nothing
<1>8. m \in Tokens /\ \A u \in Tabs : ~Knows(u, m)
  <2>1. m \in Tokens
    BY <1>1, ClientAssumption DEF ServerRefresh, WellFormed, TypeOK, Tokens
  <2>2. ~(m <= issued)
    BY <1>1
  <2>3. QED
    BY <2>1, <2>2 DEF TokensInv, Bounded, Known
<1>9. \A u \in Tabs, s \in Slots : Rotated(u, s)' <=> Rotated(u, s) \/ (u = t /\ s = r)
  BY <1>1, <1>4, <1>5 DEF Rotated
<1>10. Bounded'
  <2>1. \A n \in Nat : n <= issued => n <= m
    BY <1>1
  <2>2. \A n \in valid' \cup expired' \cup remembered' \cup {local'} : n <= m
    <3>1. \A n \in valid \cup expired \cup remembered \cup {local} : n \in Nat /\ n <= issued
      BY <1>7 DEF WellFormed, TypeOK, TokensInv, Bounded, Known
    <3>2. m <= m
      BY <1>1
    <3>3. QED
      BY <1>2, <2>1, <3>1, <3>2
  <2>3. \A u \in Tabs : \A n \in Known : Knows(u, n)' => n <= m
    BY <1>6, <1>7, <2>1 DEF TokensInv, Bounded
  <2>4. \A u \in Tabs : \A s \in Slots : Rotated(u, s)' => request'[u][s].next <= m
    <3> SUFFICES ASSUME NEW u \in Tabs, NEW s \in Slots, Rotated(u, s)'
                 PROVE  request'[u][s].next <= m
      OBVIOUS
    <3>1. CASE u = t /\ s = r
      BY <1>1, <1>4, <1>5, <3>1
    <3>2. CASE ~(u = t /\ s = r)
      <4>1. Rotated(u, s) /\ request'[u][s] = request[u][s]
        BY <1>4, <1>9, <3>2
      <4>2. request[u][s].next \in Nat
        BY <1>7, <4>1 DEF WellFormed, HasToken, Rotated, Known
      <4>3. QED
        BY <2>1, <4>1, <4>2 DEF TokensInv, Bounded
    <3>3. QED
      BY <3>1, <3>2
  <2>5. QED
    BY <1>2, <2>2, <2>3, <2>4 DEF Bounded
<1>11. \A n \in Tokens : Hidden(n)' <=> Hidden(n)
  BY <1>2, <1>6 DEF Hidden, Known
<1>12. Hidden(m)
  <2>1. m \notin expired /\ m # local /\ m # Nothing
    <3>1. ~(m <= issued)
      BY <1>1
    <3>2. QED
      BY <1>8, <3>1 DEF TokensInv, Bounded, Tokens, Nothing
  <2>2. QED
    BY <1>8, <2>1 DEF Hidden
<1>13. \A u \in Tabs, s \in Slots : Rotated(u, s) => request[u][s].next # m
  <2>1. ~(m <= issued)
    BY <1>1
  <2>2. QED
    BY <2>1 DEF TokensInv, Bounded
<1>14. Secret'
  <2> SUFFICES ASSUME NEW u \in Tabs, NEW s \in Slots, Rotated(u, s)'
               PROVE  /\ Hidden(request[u][s].next)'
                      /\ request'[u][s].next \in valid' \cup spoiled'
                      /\ \A v \in Tabs : \A w \in Slots :
                           Rotated(v, w)' /\ request'[v][w].next = request'[u][s].next
                             => v = u /\ w = s
    BY DEF Secret
  <2>1. CASE u = t /\ s = r
    <3>1. request'[u][s].next = m
      BY <1>4, <1>5, <2>1
    <3>2. Hidden(request[u][s].next)' /\ request'[u][s].next \in valid'
      BY <1>2, <1>8, <1>11, <1>12, <3>1 DEF Hidden
    <3>3. \A v \in Tabs : \A w \in Slots :
            Rotated(v, w)' /\ request'[v][w].next = m => v = t /\ w = r
      BY <1>4, <1>9, <1>13
    <3>4. QED
      BY <2>1, <3>1, <3>2, <3>3
  <2>2. CASE ~(u = t /\ s = r)
    <3>1. Rotated(u, s) /\ request'[u][s] = request[u][s] /\ request[u][s].next \in Tokens
      BY <1>4, <1>9, <2>2 DEF WellFormed, HasToken, Rotated
    <3>2. Hidden(request[u][s].next) /\ request[u][s].next \in valid \cup spoiled
      BY <3>1 DEF TokensInv, Secret
    <3>3. request[u][s].next # k
      BY <3>2 DEF Hidden, Knows
    <3>4. Hidden(request[u][s].next)' /\ request'[u][s].next \in valid' \cup spoiled'
      BY <1>2, <1>11, <3>1, <3>2, <3>3 DEF Hidden
    <3>5. \A v \in Tabs : \A w \in Slots :
            Rotated(v, w)' /\ request'[v][w].next = request'[u][s].next => v = u /\ w = s
      <4> SUFFICES ASSUME NEW v \in Tabs, NEW w \in Slots, Rotated(v, w)',
                          request'[v][w].next = request'[u][s].next
                   PROVE  v = u /\ w = s
        OBVIOUS
      <4>1. ~(v = t /\ w = r)
        BY <1>4, <1>5, <1>13, <3>1
      <4>2. Rotated(v, w) /\ request'[v][w] = request[v][w]
        BY <1>4, <1>9, <4>1
      <4>3. QED
        BY <3>1, <4>2 DEF TokensInv, Secret
    <3>6. QED
      BY <3>4, <3>5
  <2>3. QED
    BY <2>1, <2>2
<1>15. Excused'
  <2> SUFFICES ASSUME NEW u \in Tabs, NEW n \in Tokens, MaySend(u, n)'
               PROVE  Justified(u, n)' \/ InExchange(u, n)'
    BY DEF Excused
  <2>1. MaySend(u, n)
    BY <1>2, <1>4, <1>5 DEF MaySend
  <2>2. CASE Justified(u, n) /\ n # k
    BY <1>1, <1>2, <2>2 DEF Justified
  <2>3. CASE n = k /\ u # t
    BY <1>1, <1>2, <2>3 DEF Justified
  <2>4. CASE n = k /\ u = t
    BY <1>4, <1>5, <2>4 DEF InExchange, Rotated
  <2>5. CASE InExchange(u, n)
    <3>1. PICK s \in Slots : Rotated(u, s) /\ request[u][s].token = n
      BY <2>5 DEF InExchange
    <3>2. ~(u = t /\ s = r)
      BY <1>1, <3>1 DEF Rotated
    <3>3. QED
      BY <1>4, <1>9, <3>1, <3>2 DEF InExchange
  <2>6. QED
    BY <2>1, <2>2, <2>3, <2>4, <2>5 DEF TokensInv, Excused
<1>16. RefusedForAReason'
  <2> SUFFICES ASSUME NEW u \in Tabs, NEW s \in Slots, request'[u][s].at = "refused"
               PROVE  request'[u][s].token \in spoiled' \/ usedBy'[request'[u][s].token] \ {u} # {}
    BY DEF RefusedForAReason
  <2>1. request'[u][s] = request[u][s]
    BY <1>4, <1>5
  <2>2. request[u][s].token \in Tokens
    BY <2>1 DEF WellFormed, HasToken
  <2>3. request[u][s].token \in spoiled \/ usedBy[request[u][s].token] \ {u} # {}
    BY <2>1 DEF TokensInv, RefusedForAReason
  <2>4. QED
    BY <1>1, <1>2, <2>1, <2>2, <2>3
<1>17. RememberedTokenWorks'
  <2>1. CASE local = k
    BY <1>2, <1>4, <1>5, <2>1 DEF RememberedTokenWorks
  <2>2. CASE local # k /\ local \in {Nothing} \cup valid \cup spoiled
    BY <1>2, <2>2 DEF RememberedTokenWorks
  <2>3. ASSUME NEW u \in Tabs, NEW s \in Slots, request[u][s].at = "rotated",
               request[u][s].token = local
        PROVE  RememberedTokenWorks'
    <3>1. request'[u][s] = request[u][s]
      BY <1>1, <1>4, <2>3
    <3>2. QED
      BY <1>2, <2>3, <3>1 DEF RememberedTokenWorks
  <2>4. QED
    BY <2>1, <2>2, <2>3 DEF TokensInv, RememberedTokenWorks
<1>18. QED
  BY <1>10, <1>14, <1>15, <1>16, <1>17 DEF TokensInv

\* With a fresh token all of the queue goes on.
LEMMA ReleasedFresh ==
  ASSUME NEW c \in Credentials, NEW rs \in [Slots -> RequestType], NEW r \in Slots,
         NEW x \in RequestType, IsFresh(c), Holds(rs[r]), NEW new \in Released(rs, r, x, c)
  PROVE  /\ new[r] = x
         /\ \A w \in Slots \ {r} :
              \/ rs[w].at # "queued" /\ new[w] = rs[w]
              \/ rs[w].at = "queued" /\ new[w].at = "sent" /\ new[w].token = c.access
<1> DEFINE waiting == {w \in Slots : rs[w].at = "queued"}
<1>1. new = [w \in Slots |-> IF w = r THEN x
               ELSE IF w \in waiting THEN Request("sent", rs[w].for, c.access) ELSE rs[w]]
  BY DEF Released
<1>2. new[r] = x
  BY <1>1
<1>3. ASSUME NEW w \in Slots \ {r}, rs[w].at = "queued"
      PROVE  new[w].at = "sent" /\ new[w].token = c.access
  <2>1. new[w] = Request("sent", rs[w].for, c.access)
    BY <1>1, <1>3
  <2>2. QED
    BY <2>1 DEF Request
<1>4. ASSUME NEW w \in Slots \ {r}, rs[w].at # "queued" PROVE new[w] = rs[w]
  BY <1>1, <1>4
<1>5. QED
  BY <1>2, <1>3, <1>4

\* The page gets the successor: it replaces whatever the page has had, in its
\* queue as well, because a token that was a secret is fresh.
LEMMA RefreshedIsSafe ==
  ASSUME WellFormed, Mutex, TokensInv, NEW t \in Tabs, NEW r \in Slots, Refreshed(t, r)
  PROVE  TokensInv'
<1> DEFINE q == request[t][r]
           n == q.next
           x == Request("sent", IF q.for = "verify" THEN "self" ELSE q.for, n)
<1>1. /\ cred \in [Tabs -> Credentials] /\ session \in [Tabs -> Known]
      /\ request \in [Tabs -> [Slots -> RequestType]] /\ request[t] \in [Slots -> RequestType]
      /\ q \in RequestType /\ q.at = "rotated" /\ Holds(q) /\ Rotated(t, r) /\ n \in Tokens
  BY DEF WellFormed, TypeOK, HasToken, Credentials, Known, Refreshed, Holds, Rotated
<1>2. /\ cred' = [cred EXCEPT ![t] = Pair(n)] /\ session' = [session EXCEPT ![t] = n]
      /\ local' \in {local, n} /\ local' \in {n, Nothing}
      /\ UNCHANGED <<issued, valid, expired, remembered, usedBy, spoiled>>
  BY DEF Refreshed, Stored, server
<1>3. PICK rs \in Released(request[t], r, x, Pair(n)) : request' = [request EXCEPT ![t] = rs]
  BY DEF Refreshed
<1>4. /\ Hidden(n) /\ n \in valid \cup spoiled /\ n <= issued
      /\ \A u \in Tabs : \A s \in Slots : Rotated(u, s) /\ request[u][s].next = n => u = t /\ s = r
  BY <1>1 DEF TokensInv, Secret, Bounded
<1>5. IsFresh(Pair(n)) /\ Pair(n).access = n /\ Pair(n).refresh = n /\ Pair(n) \in Credentials
  BY <1>1, <1>4 DEF IsFresh, Pair, Hidden, Credentials, Known
<1>6. x \in RequestType /\ x.at = "sent" /\ x.token = n
  <2>1. (IF q.for = "verify" THEN "self" ELSE q.for) \in Purposes
    BY <1>1 DEF RequestType, Purposes
  <2>2. QED
    BY <1>1, <2>1, RequestTyped DEF Stages, Request, Known
<1> HIDE DEF x
<1>7. /\ rs[r] = x
      /\ \A w \in Slots \ {r} :
            \/ request[t][w].at # "queued" /\ rs[w] = request[t][w]
            \/ request[t][w].at = "queued" /\ rs[w].at = "sent" /\ rs[w].token = n
  <2>1. /\ rs[r] = x
        /\ \A w \in Slots \ {r} :
              \/ request[t][w].at # "queued" /\ rs[w] = request[t][w]
              \/ request[t][w].at = "queued" /\ rs[w].at = "sent" /\ rs[w].token = Pair(n).access
    <3>1. /\ request[t] \in [Slots -> RequestType] /\ x \in RequestType /\ Holds(request[t][r])
          /\ Pair(n) \in Credentials /\ IsFresh(Pair(n)) /\ rs \in Released(request[t], r, x, Pair(n))
      BY <1>1, <1>3, <1>5, <1>6
    <3>2. QED
      BY <3>1, ReleasedFresh
  <2>2. QED
    BY <1>5, <2>1
<1>8. /\ request'[t] = rs /\ cred'[t].access = n /\ cred'[t].refresh = n /\ session'[t] = n
      /\ \A u \in Tabs \ {t} : /\ request'[u] = request[u] /\ cred'[u] = cred[u]
                               /\ session'[u] = session[u]
  BY <1>1, <1>2, <1>3, <1>5
\* In the tab itself no request has a token but the new one, or one of its past.
<1>9. \A w \in Slots :
        \/ rs[w].at = "sent" /\ rs[w].token = n
        \/ rs[w].at \in {"idle", "sent"} /\ rs[w] = request[t][w]
  <2> SUFFICES ASSUME NEW w \in Slots \ {r}
               PROVE  \/ rs[w].at = "sent" /\ rs[w].token = n
                      \/ rs[w].at \in {"idle", "sent"} /\ rs[w] = request[t][w]
    BY <1>6, <1>7
  <2>1. CASE request[t][w].at = "queued"
    BY <1>7, <2>1
  <2>2. CASE request[t][w].at # "queued"
    <3>1. ~Holds(request[t][w])
      BY <1>1 DEF Mutex, OneRefreshPerPage
    <3>2. request[t][w].at \in {"idle", "sent"}
      BY <1>1, <2>2, <3>1 DEF Holds, RequestType, Stages
    <3>3. QED
      BY <1>7, <2>2, <3>2
  <2>3. QED
    BY <2>1, <2>2
<1>10. \A u \in Tabs : \A m \in Known : Knows(u, m)' => Knows(u, m) \/ m = n
  BY <1>8, <1>9 DEF Knows
<1>11. \A u \in Tabs, s \in Slots : Rotated(u, s)' =>
         u # t /\ Rotated(u, s) /\ request'[u][s] = request[u][s]
  BY <1>8, <1>9 DEF Rotated
<1>12. Bounded'
  BY <1>2, <1>4, <1>10, <1>11 DEF TokensInv, Bounded
<1>13. Secret'
  <2> SUFFICES ASSUME NEW u \in Tabs, NEW s \in Slots, Rotated(u, s)'
               PROVE  /\ Hidden(request[u][s].next)'
                      /\ request'[u][s].next \in valid' \cup spoiled'
                      /\ \A v \in Tabs : \A w \in Slots :
                           Rotated(v, w)' /\ request'[v][w].next = request'[u][s].next
                             => v = u /\ w = s
    BY DEF Secret
  <2>1. /\ u # t /\ Rotated(u, s) /\ request'[u][s] = request[u][s]
        /\ request[u][s].next \in Tokens
    BY <1>11 DEF WellFormed, HasToken, Rotated
  <2>2. Hidden(request[u][s].next) /\ request[u][s].next # n
        /\ request[u][s].next \in valid \cup spoiled
    BY <1>4, <2>1 DEF TokensInv, Secret
  <2>3. Hidden(request[u][s].next)'
    BY <1>2, <1>10, <2>1, <2>2 DEF Hidden, Known
  <2>4. \A v \in Tabs : \A w \in Slots :
          Rotated(v, w)' /\ request'[v][w].next = request'[u][s].next => v = u /\ w = s
    BY <1>11, <2>1 DEF TokensInv, Secret
  <2>5. QED
    BY <1>2, <2>1, <2>2, <2>3, <2>4
<1>14. Excused'
  <2> SUFFICES ASSUME NEW u \in Tabs, NEW m \in Tokens, MaySend(u, m)'
               PROVE  Justified(u, m)' \/ InExchange(u, m)'
    BY DEF Excused
  <2>1. m # Nothing
    BY DEF Tokens, Nothing
  <2>2. CASE m = n
    BY <1>2, <1>4, <2>2 DEF Justified
  <2>3. CASE m # n
    <3>1. u # t
      BY <1>2, <1>8, <1>9, <2>1, <2>3 DEF MaySend
    <3>2. MaySend(u, m)
      BY <1>2, <1>8, <2>3, <3>1 DEF MaySend
    <3>3. CASE Justified(u, m)
      BY <1>2, <3>3 DEF Justified
    <3>4. CASE InExchange(u, m)
      BY <1>8, <3>1, <3>4 DEF InExchange, Rotated
    <3>5. QED
      BY <3>2, <3>3, <3>4 DEF TokensInv, Excused
  <2>4. QED
    BY <2>2, <2>3
<1>15. RefusedForAReason'
  <2> SUFFICES ASSUME NEW u \in Tabs, NEW s \in Slots, request'[u][s].at = "refused"
               PROVE  request'[u][s].token \in spoiled' \/ usedBy'[request'[u][s].token] \ {u} # {}
    BY DEF RefusedForAReason
  <2>1. request'[u][s] = request[u][s]
    BY <1>8, <1>9
  <2>2. QED
    BY <1>2, <2>1 DEF TokensInv, RefusedForAReason
<1>16. RememberedTokenWorks'
  BY <1>2, <1>4 DEF RememberedTokenWorks
<1>17. QED
  BY <1>12, <1>13, <1>14, <1>15, <1>16 DEF TokensInv

\* A login brings a token nobody has had.
LEMMA LoggedInIsSafe ==
  ASSUME WellFormed, WellFormed', TokensInv, NEW t \in Tabs, NEW r \in Slots, LoggedIn(t, r)
  PROVE  TokensInv'
<1> DEFINE n == issued + 1
<1>1. /\ cred \in [Tabs -> Credentials] /\ session \in [Tabs -> Known]
      /\ request \in [Tabs -> [Slots -> RequestType]]
      /\ issued \in Nat /\ n \in Nat
  BY ClientAssumption DEF WellFormed, TypeOK, Credentials, Known
<1>2. /\ issued' = n /\ valid' = valid \cup {n} /\ local' \in {local, n}
      /\ remembered' \subseteq remembered \cup {n}
      /\ cred' = [cred EXCEPT ![t] = Pair(n)] /\ session' = [session EXCEPT ![t] = n]
      /\ request' = [request EXCEPT ![t][r] = Idle] /\ request[t][r].at = "sent"
      /\ UNCHANGED <<expired, usedBy, spoiled>>
  BY DEF LoggedIn
<1>3. Pair(n).access = n /\ Pair(n).refresh = n
  BY DEF Pair
<1>4. /\ cred'[t].access = n /\ cred'[t].refresh = n /\ session'[t] = n
      /\ \A u \in Tabs \ {t} : cred'[u] = cred[u] /\ session'[u] = session[u]
  BY <1>1, <1>2, <1>3
<1>5. \A u \in Tabs, s \in Slots : request'[u][s] = IF u = t /\ s = r THEN Idle ELSE request[u][s]
  BY <1>1, <1>2
<1>6. n \in Tokens
  BY <1>1, ClientAssumption DEF LoggedIn, WellFormed, TypeOK, Tokens
<1>7. ~(n <= issued) /\ \A m \in Nat : m <= issued => m <= n
  BY <1>1
<1>8. \A m \in Known \cup {local} : m \in Nat
  BY ClientAssumption DEF WellFormed, TypeOK, Known, Tokens, Nothing
<1>9. \A u \in Tabs : \A m \in Known : Knows(u, m)' => Knows(u, m) \/ m = n \/ m = Nothing
  BY <1>4, <1>5, IdleTyped DEF Knows
<1>10. \A u \in Tabs, s \in Slots : Rotated(u, s)' =>
         Rotated(u, s) /\ request'[u][s] = request[u][s]
  BY <1>5, IdleTyped DEF Rotated
<1>11. Bounded'
  <2>1. \A m \in valid' \cup expired' \cup remembered' \cup {local'} : m <= n
    <3>1. \A m \in valid \cup expired \cup remembered \cup {local} : m \in Nat /\ m <= issued
      BY <1>8 DEF WellFormed, TypeOK, TokensInv, Bounded, Known
    <3>2. n <= n
      BY <1>1
    <3>3. QED
      BY <1>2, <1>7, <3>1, <3>2
  <2>2. \A u \in Tabs : \A m \in Known : Knows(u, m)' => m <= n
    <3>1. n <= n /\ Nothing <= n
      BY <1>1 DEF Nothing
    <3>2. QED
      BY <1>7, <1>8, <1>9, <3>1 DEF TokensInv, Bounded
  <2>3. ASSUME NEW u \in Tabs, NEW s \in Slots, Rotated(u, s)' PROVE request'[u][s].next <= n
    <3>1. Rotated(u, s) /\ request'[u][s] = request[u][s]
      BY <1>10, <2>3
    <3>2. request[u][s].next \in Nat
      BY <1>8, <3>1 DEF WellFormed, HasToken, Rotated, Known
    <3>3. QED
      BY <1>7, <3>1, <3>2 DEF TokensInv, Bounded
  <2>4. QED
    BY <1>2, <2>1, <2>2, <2>3 DEF Bounded
<1>12. Secret'
  <2> SUFFICES ASSUME NEW u \in Tabs, NEW s \in Slots, Rotated(u, s)'
               PROVE  /\ Hidden(request[u][s].next)'
                      /\ request'[u][s].next \in valid' \cup spoiled'
                      /\ \A v \in Tabs : \A w \in Slots :
                           Rotated(v, w)' /\ request'[v][w].next = request'[u][s].next
                             => v = u /\ w = s
    BY DEF Secret
  <2>1. /\ Rotated(u, s) /\ request'[u][s] = request[u][s]
        /\ request[u][s].next \in Tokens
    BY <1>10 DEF WellFormed, HasToken, Rotated
  <2>2. Hidden(request[u][s].next) /\ request[u][s].next \in valid \cup spoiled
    BY <2>1 DEF TokensInv, Secret
  <2>3. request[u][s].next # n
    BY <1>7, <2>1 DEF TokensInv, Bounded
  <2>4. Hidden(request[u][s].next)'
    BY <1>2, <1>9, <2>1, <2>2, <2>3 DEF Hidden, Known
  <2>5. \A v \in Tabs : \A w \in Slots :
          Rotated(v, w)' /\ request'[v][w].next = request'[u][s].next => v = u /\ w = s
    BY <1>10, <2>1 DEF TokensInv, Secret
  <2>6. QED
    BY <1>2, <2>1, <2>2, <2>4, <2>5
<1>13. Excused'
  <2> SUFFICES ASSUME NEW u \in Tabs, NEW m \in Tokens, MaySend(u, m)'
               PROVE  Justified(u, m)' \/ InExchange(u, m)'
    BY DEF Excused
  <2>1. CASE m = n
    BY <1>2, <2>1 DEF Justified
  <2>2. CASE m # n
    <3>1. MaySend(u, m)
      BY <1>2, <1>4, <1>5, <2>2, IdleTyped DEF MaySend
    <3>2. CASE Justified(u, m)
      BY <1>2, <3>2 DEF Justified
    <3>3. CASE InExchange(u, m)
      BY <1>2, <1>5, <3>3 DEF InExchange, Rotated
    <3>4. QED
      BY <3>1, <3>2, <3>3 DEF TokensInv, Excused
  <2>3. QED
    BY <2>1, <2>2
<1>14. RefusedForAReason'
  BY <1>2, <1>5, IdleTyped DEF TokensInv, RefusedForAReason
<1>15. RememberedTokenWorks'
  <2>1. CASE local' = n
    BY <1>2, <2>1 DEF RememberedTokenWorks
  <2>2. CASE local' = local
    BY <1>2, <1>5, <2>2 DEF TokensInv, RememberedTokenWorks
  <2>3. QED
    BY <1>2, <2>1, <2>2
<1>16. QED
  BY <1>11, <1>12, <1>13, <1>14, <1>15 DEF TokensInv

LEMMA InitTokens == Init => TokensInv
<1> SUFFICES ASSUME Init PROVE TokensInv
  OBVIOUS
<1>1. /\ \A t \in Tabs : cred[t] = NoCredentials /\ session[t] = Nothing
      /\ \A t \in Tabs, r \in Slots : request[t][r] = Idle
      /\ local = Nothing /\ issued = 0 /\ valid = {} /\ expired = {} /\ remembered = {}
  BY DEF Init
<1>2. NoCredentials.access = Nothing /\ NoCredentials.refresh = Nothing
  BY DEF NoCredentials
<1>3. \A t \in Tabs, r \in Slots : ~Rotated(t, r) /\ request[t][r].at = "idle"
                                   /\ request[t][r].token = Nothing
  BY <1>1, IdleTyped DEF Rotated
<1>4. \A t \in Tabs : \A n \in Known : Knows(t, n) => n = Nothing
  BY <1>1, <1>2, <1>3 DEF Knows
<1>5. Bounded
  BY <1>1, <1>3, <1>4 DEF Bounded, Nothing
<1>6. Secret
  BY <1>3 DEF Secret
<1>7. Excused
  BY <1>1, <1>2, <1>3 DEF Excused, MaySend, Tokens, Nothing
<1>8. RefusedForAReason /\ RememberedTokenWorks
  BY <1>1, <1>3 DEF RefusedForAReason, RememberedTokenWorks
<1>9. QED
  BY <1>5, <1>6, <1>7, <1>8 DEF TokensInv

LEMMA StepTokens ==
  ASSUME WellFormed, Mutex, TokensInv, [Next]_vars
  PROVE  TokensInv'
<1>1. WellFormed' /\ Mutex'
  BY StepSafe
<1>2. ASSUME NEW t \in Tabs, NEW a \in {"booking", "admin"}, Open(t, a) PROVE TokensInv'
  BY <1>1, <1>2, OpenIsCalm, CalmIsSafe
<1>3. ASSUME NEW t \in Tabs, Close(t) \/ Logout(t) PROVE TokensInv'
  BY <1>1, <1>3, CloseIsCalm, LogoutIsCalm, CalmIsSafe
<1>4. ASSUME NEW t \in Tabs, NEW r \in Slots, NEW purpose \in Purposes, Query(t, r, purpose)
      PROVE  TokensInv'
  BY <1>1, <1>4, QueryIsCalm, CalmIsSafe
<1>5. ASSUME NEW t \in Tabs, NEW r \in Slots, Exchange(t, r) PROVE TokensInv'
  <2>1. CASE ServerRefresh(t, r)
    BY <1>1, <2>1, ExchangeIsSafe, RefusalIsCalm, CalmIsSafe
  <2>2. CASE Refreshed(t, r)
    BY <2>2, RefreshedIsSafe
  <2>3. CASE RefreshRefused(t, r) \/ RefreshLost(t, r)
    BY <1>1, <2>3, RefreshRefusedIsCalm, RefreshLostIsCalm, CalmIsSafe
  <2>4. CASE QueryAnswered(t, r) \/ RoleRefused(t, r) \/ QueryFailed(t, r)
    BY <1>1, <2>4, AnswerIsCalm, CalmIsSafe
  <2>5. CASE LoggedIn(t, r)
    BY <1>1, <2>5, LoggedInIsSafe
  <2>6. QED
    BY <1>5, <2>1, <2>2, <2>3, <2>4, <2>5 DEF Exchange
<1>6. ASSUME NEW n \in Tokens, Expire(n) \/ Forget(n) PROVE TokensInv'
  BY <1>1, <1>6, ServerIsCalm, CalmIsSafe
<1>7. CASE UNCHANGED vars
  <2>1. Calm
    BY <1>7 DEF vars, pages, storage, server, ghosts, Calm, CalmFor, Knows, MaySend
  <2>2. QED
    BY <1>1, <2>1, CalmIsSafe
<1>8. QED
  BY <1>2, <1>3, <1>4, <1>5, <1>6, <1>7 DEF Next, User

LEMMA AlwaysTokens == Spec => []TokensInv
<1>1. WellFormed /\ Mutex /\ TokensInv /\ [Next]_vars => TokensInv'
  BY StepTokens
<1>2. QED
  BY <1>1, InitTokens, AlwaysSafe, PTL DEF Spec

\* A page is not logged out by its own doing: whenever the server refuses a
\* token, it has deleted it, or its successor got lost, or another tab used it.
THEOREM RefusalsHaveAReason == Spec => []RefusedForAReason
<1>1. TokensInv => RefusedForAReason
  BY DEF TokensInv
<1>2. QED
  BY <1>1, AlwaysTokens, PTL

\* The token stored for good is the last of its login, however many tabs share
\* it, unless the server has deleted it or an answer got lost.
THEOREM RememberedIsCurrent == Spec => []RememberedTokenWorks
<1>1. TokensInv => RememberedTokenWorks
  BY DEF TokensInv
<1>2. QED
  BY <1>1, AlwaysTokens, PTL

=============================================================================
