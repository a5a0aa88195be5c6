------------------------------ MODULE Accounts -------------------------------
(***************************************************************************)
(* The accounts of an organisation and the sessions opened with them: the  *)
(* handlers of auth-router.go (password and provider login, refresh,       *)
(* password reset), those of user-router.go that write a user, the login   *)
(* protection of auth-attempt-repository.go and the clean-up goroutine     *)
(* app.go starts.                                                          *)
(*                                                                         *)
(* As in Booking, a request is a goroutine, a SQL statement a transaction, *)
(* and an action is one statement with the code up to the next one.  The   *)
(* handlers keep copies of user rows across statements, and every UPDATE   *)
(* of a user writes all its columns.                                       *)
(***************************************************************************)
EXTENDS Integers, Sequences, FiniteSets

CONSTANTS
  Handlers,           \* requests served at the same time
  Emails, Passwords, NoPassword, NoEmail,
  Populations,        \* the accounts there may be at first: e-mail -> password
  Scenarios,          \* what the requests of a behaviour may be: bounds, see Scenario
  MaxFails, Window, BanLength,               \* login protection (config.go)
  LoginLife, ResetLife,                      \* validity of auth states
  ShortLife, LongLife, LongThreshold,        \* ... and of refresh tokens
  MaxUsers,           \* setting subscription_max_users
  AllowAnyUser,       \* setting allow_any_user
  MaxRequests         \* bound on the requests of a behaviour

Ops == {"loginPassword", "login", "callback", "verify", "refresh", "initReset",
        "completeReset", "setPassword", "update", "delete", "create"}

\* The kinds of requests, the addresses and values of longLived in them, how many
\* there are, and bounds: on failing statements and crashes, and on the clock
\* (which runs on while a ban does).
Scenario == [ops : SUBSET Ops, emails : SUBSET Emails, long : SUBSET BOOLEAN,
             requests : Nat, faults : Nat, clock : Nat]

ASSUME AccountsAssumption ==
  /\ IsFiniteSet(Handlers) /\ Handlers # {} /\ IsFiniteSet(Emails)
  /\ NoPassword \notin Passwords /\ NoEmail \notin Emails
  /\ Scenarios \subseteq Scenario
  /\ \A s \in Scenarios : s.requests <= MaxRequests
  /\ \A f \in Populations : /\ f \in [DOMAIN f -> Passwords \cup {NoPassword}]
                            /\ DOMAIN f \subseteq Emails
  /\ {MaxFails, Window, BanLength, LoginLife, ResetLife, ShortLife, LongLife,
      LongThreshold, MaxUsers, MaxRequests} \subseteq Nat
  /\ ShortLife <= LongThreshold /\ LongThreshold < LongLife
  /\ AllowAnyUser \in BOOLEAN

VARIABLES
  users,      \* table users: e-mail -> row, Gone where there is none
  creds,      \* tables refresh_tokens and auth_states: id -> row, Unused
  attempts,   \* table auth_attempts, in the order of its timestamps
  req,        \* the handlers: program counter and locals
  serial,     \* requests so far; what a request inserts has its number as id
  sweeper,    \* the clean-up goroutine: the table it cleans next
  now, faults,
  scenario,   \* that of this behaviour
  forked,     \* history: logins and resets one credential of which was in the
              \* hands of two requests, or failed to be deleted
  spent,      \* history: resets that have written a password
  pardoned    \* history: accounts whose last ban was lifted or failed

vars == <<users, creds, attempts, req, serial, sweeper, now, faults, scenario,
          forked, spent, pardoned>>

Serials == 1 .. MaxRequests
Gone == [id |-> 0, pw |-> NoPassword, disabled |-> FALSE, ban |-> 0]
Unused == [kind |-> "none", email |-> NoEmail, id |-> 0, created |-> 0,
           expiry |-> 0, root |-> 0, long |-> FALSE]

\* A row of users; ban is 0 for NULL, which would disable an account for ever.
\* Accounts of the first population have id MaxRequests + 1, and an account is
\* known by its e-mail and its id together: an address that is deleted and created
\* again gets another id.
Row == {r \in [id : Serials \cup {MaxRequests + 1}, pw : Passwords \cup {NoPassword},
               disabled : BOOLEAN, ban : Nat] : r.disabled => r.ban # 0}
\* A refresh token ("refresh"), the state of a provider login before
\* ("request") and after ("cache") the provider's answer, or a password reset.
\* root is the login or reset it goes back to, long its longLived; a request state
\* has no user yet.
Kinds == {"refresh", "request", "cache", "reset"}
Cred == {c \in [kind : Kinds, email : Emails \cup {NoEmail}, id : Nat, created : Nat,
                expiry : Nat, root : Serials, long : BOOLEAN] :
           c.email = NoEmail => c.kind = "request"}
Attempt == [email : Emails, id : Nat, ok : BOOLEAN, at : Nat]

\* row is the handler's copy of the user, pw the password in the request, cred
\* the credential it presents, id the user that credential names, mark the last
\* success found (login) or the token issued (refresh).
Steps == {"record", "lastSuccess", "count", "account", "findUser",
          "limit", "insert", "write", "remove", "open", "admit", "issue", "discard"}
Request ==
  {r \in [op : Ops, at : Steps, serial : Serials, email : Emails \cup {NoEmail},
          row : Row \cup {Gone}, pw : Passwords \cup {NoPassword},
          cred : 0 .. MaxRequests, id : Nat, root : Serials, long : BOOLEAN, mark : Nat] :
     r.email = NoEmail => \/ r.op = "login" /\ r.at = "open"
                          \/ r.op = "callback" /\ r.at \in {"discard", "admit"}}
Idle == [op |-> "none", at |-> "idle", serial |-> 0, email |-> NoEmail,
         row |-> Gone, pw |-> NoPassword, cred |-> 0, id |-> 0, root |-> 0,
         long |-> FALSE, mark |-> 0]

Init ==
  /\ \E f \in Populations :
       users = [e \in Emails |->
                  IF e \in DOMAIN f THEN [Gone EXCEPT !.id = MaxRequests + 1, !.pw = f[e]]
                  ELSE Gone]
  /\ creds = [i \in Serials |-> Unused]
  /\ attempts = <<>>
  /\ req = [p \in Handlers |-> Idle]
  /\ serial = 0 /\ now = 1 /\ faults = 0
  /\ sweeper = "states"
  /\ scenario \in Scenarios
  /\ forked = {} /\ spent = {} /\ pardoned = {}

----------------------------------------------------------------------------
(* Reading the tables.                                                     *)

\* Mutants.
UsableIfBanned(row) == row.pw # NoPassword
OneSeatMore == Cardinality({e \in Emails : users[e] # Gone}) <= MaxUsers

Exists(e) == users[e] # Gone
HasId(e, id) == Exists(e) /\ users[e].id = id              \* WHERE id = ...
Usable(row) == row.pw # NoPassword /\ ~row.disabled     \* with a password
GetCount == Cardinality({e \in Emails : Exists(e)})
canCreateUser == GetCount < MaxUsers

AttemptsOf(e, id) == {i \in DOMAIN attempts : attempts[i].email = e /\ attempts[i].id = id}
Successes(e, id) == {i \in AttemptsOf(e, id) : attempts[i].ok}
LastSuccess(e, id) ==
  LET S == Successes(e, id)
      last == {i \in S : \A j \in S : j <= i}
  IN IF last = {} THEN 0 ELSE CHOOSE i \in last : TRUE
\* The attempts checkBanUser counts: in the window and after the last success.
FailsSince(mark, e, id) ==
  {i \in AttemptsOf(e, id) : attempts[i].at > now - Window /\ i > mark}

isLongLived(c) == creds[c].expiry - creds[c].created > LongThreshold
Life(op, long) == CASE op = "initReset" -> ResetLife
                    [] op \in {"login", "callback"} -> LoginLife
                    [] OTHER -> IF long THEN LongLife ELSE ShortLife

\* A client knows a refresh token once the response with it is sent.
Answered(c) == \A p \in Handlers : req[p].at = "discard" => req[p].mark # c

----------------------------------------------------------------------------
(* Steps of a handler.                                                     *)

Goto(p, step) == req' = [req EXCEPT ![p].at = step]
Return(p) == req' = [req EXCEPT ![p] = Idle]
Fault == faults < scenario.faults /\ faults' = faults + 1

\* A request arrives; its handler's first read has given r.
Begin(p, r) ==
  /\ req[p].at = "idle" /\ serial < scenario.requests /\ r.op \in scenario.ops
  /\ serial' = serial + 1
  /\ req' = [req EXCEPT ![p] = [r EXCEPT !.serial = serial + 1,
                                         !.root = IF r.root = 0 THEN serial + 1 ELSE @]]
  /\ forked' = forked \cup
       {r.root : q \in {q \in Handlers \ {p} : r.cred # 0 /\ req[q].cred = r.cred}}
  /\ UNCHANGED <<users, creds, attempts, sweeper, now, faults, scenario, spent, pardoned>>

(* The first read of each handler.  A request the code refuses here changes *)
(* nothing and has no action.                                               *)

loginPassword(p) ==
  \E e \in scenario.emails, pw \in Passwords, long \in scenario.long :
    /\ Usable(users[e])
    /\ Begin(p, [Idle EXCEPT !.op = "loginPassword", !.at = "record", !.email = e,
                             !.row = users[e], !.pw = pw, !.long = long])

login(p) ==
  \E long \in scenario.long :
    Begin(p, [Idle EXCEPT !.op = "login", !.at = "open", !.long = long])

\* getUserInfo looks at the provider of the state, not at its type: a state that
\* already carries the provider's answer will do.
callback(p) ==
  \E c \in Serials :
    /\ creds[c].kind \in {"request", "cache"}
    /\ Begin(p, [Idle EXCEPT !.op = "callback", !.at = "discard", !.cred = c,
                             !.root = creds[c].root, !.long = creds[c].long])

verify(p) ==
  \E c \in Serials :
    /\ creds[c].kind = "cache"
    /\ Begin(p, [Idle EXCEPT !.op = "verify", !.at = "findUser", !.email = creds[c].email,
                             !.cred = c, !.root = creds[c].root, !.long = creds[c].long])

refreshAccessToken(p) ==
  \E c \in Serials :
    /\ creds[c].kind = "refresh" /\ creds[c].expiry >= now /\ Answered(c)
    /\ Begin(p, [Idle EXCEPT !.op = "refresh", !.at = "account", !.email = creds[c].email,
                             !.cred = c, !.id = creds[c].id, !.root = creds[c].root,
                             !.long = isLongLived(c)])

initPasswordReset(p) ==
  \E e \in scenario.emails :
    /\ Usable(users[e])
    /\ Begin(p, [Idle EXCEPT !.op = "initReset", !.at = "open", !.email = e,
                             !.row = users[e], !.id = users[e].id])

\* The expiry of the state is not looked at.
completePasswordReset(p) ==
  \E c \in Serials, pw \in Passwords :
    /\ creds[c].kind = "reset"
    /\ Begin(p, [Idle EXCEPT !.op = "completeReset", !.at = "account",
                             !.email = creds[c].email, !.pw = pw, !.cred = c,
                             !.id = creds[c].id, !.root = creds[c].root])

setPassword(p) ==
  \E e \in scenario.emails, pw \in Passwords :
    /\ Exists(e)
    /\ Begin(p, [Idle EXCEPT !.op = "setPassword", !.at = "write", !.email = e,
                             !.row = users[e], !.pw = pw])

update(p) ==
  \E e \in scenario.emails :
    /\ Exists(e)
    /\ Begin(p, [Idle EXCEPT !.op = "update", !.at = "write", !.email = e,
                             !.row = users[e]])

delete(p) ==
  \E e \in scenario.emails :
    /\ Exists(e)
    /\ Begin(p, [Idle EXCEPT !.op = "delete", !.at = "remove", !.email = e,
                             !.row = users[e]])

create(p) ==
  \E e \in scenario.emails, pw \in Passwords \cup {NoPassword} :
    Begin(p, [Idle EXCEPT !.op = "create", !.at = "limit", !.email = e, !.pw = pw])

----------------------------------------------------------------------------
(* Mutants of the statements below.                                        *)

BansAboveLimit(p) ==
  /\ req[p].at = "count"
  /\ req' = [req EXCEPT ![p] =
       IF Cardinality(FailsSince(@.mark, @.email, @.row.id)) > MaxFails
       THEN [@ EXCEPT !.at = "write"]
       ELSE IF @.op = "verify" \/ @.pw = @.row.pw THEN [@ EXCEPT !.at = "issue"] ELSE Idle]
  /\ UNCHANGED <<users, creds, attempts, serial, sweeper, now, faults, scenario, forked,
                 spent, pardoned>>
WrittenBy(p, kept, banned) ==
  LET r == req[p] IN
  CASE r.op \in {"setPassword", "completeReset"} -> [kept EXCEPT !.pw = r.pw]
    [] r.op = "update" -> [r.row EXCEPT !.disabled = FALSE, !.ban = 0]
    [] OTHER -> [r.row EXCEPT !.disabled = TRUE, !.ban = banned]
BanWithoutExpiry(p) == WrittenBy(p, req[p].row, 0)
PasswordLiftsBan(p) ==
  WrittenBy(p, [req[p].row EXCEPT !.disabled = FALSE, !.ban = 0], now + BanLength)
UpdateDropsPassword(p) ==
  IF req[p].op = "update" THEN [Gone EXCEPT !.id = req[p].row.id]
  ELSE WrittenBy(p, req[p].row, now + BanLength)
KeepsCredential(p) ==
  /\ req[p].at = "discard"
  /\ req' = [req EXCEPT ![p] =
       CASE @.op = "callback" -> [@ EXCEPT !.at = "admit"]
         [] @.op = "verify" /\ @.row # Gone -> [@ EXCEPT !.at = "record"]
         [] OTHER -> Idle]
  /\ UNCHANGED <<users, creds, attempts, serial, sweeper, now, faults, scenario, forked,
                 spent, pardoned>>
CleanupStopsAtError ==
  /\ \/ /\ faults < scenario.faults /\ faults' = faults + 1
        /\ sweeper' = "stopped" /\ UNCHANGED creds
     \/ sweeper = "stopped" /\ UNCHANGED <<creds, sweeper, faults>>
     \/ /\ sweeper # "stopped"
        /\ creds' = [c \in Serials |-> IF creds[c].expiry < now THEN Unused ELSE creds[c]]
        /\ sweeper' = "states" /\ UNCHANGED faults
  /\ UNCHANGED <<users, pardoned, attempts, req, serial, now, scenario, forked, spent>>

----------------------------------------------------------------------------
(* Login protection: RecordLoginAttempt and checkBanUser.  Nobody looks at *)
(* their errors, and a login goes on after them.                           *)

Account(p) == <<req[p].email, req[p].row.id>>
Right(p) == req[p].op = "verify" \/ req[p].pw = req[p].row.pw
Proceed(p) == IF Right(p) THEN Goto(p, "issue") ELSE Return(p)

RecordLoginAttempt(p) ==
  /\ req[p].at = "record"
  /\ \/ /\ attempts' = Append(attempts, [email |-> req[p].email, id |-> req[p].row.id,
                                         ok |-> Right(p), at |-> now])
        /\ pardoned' = IF Right(p) THEN pardoned ELSE pardoned \ {Account(p)}
        /\ Goto(p, "lastSuccess") /\ UNCHANGED faults
     \/ Fault /\ Proceed(p) /\ UNCHANGED <<attempts, pardoned>>
  /\ UNCHANGED <<users, creds, serial, sweeper, now, scenario, forked, spent>>

\* A failing query counts as "never".
readLastSuccess(p) ==
  /\ req[p].at = "lastSuccess"
  /\ \/ /\ req' = [req EXCEPT ![p].at = "count",
                              ![p].mark = LastSuccess(req[p].email, req[p].row.id)]
        /\ UNCHANGED faults
     \/ Fault /\ Goto(p, "count")
  /\ UNCHANGED <<users, creds, attempts, serial, sweeper, now, scenario, forked, spent, pardoned>>

checkBanUser(p) ==
  LET e == req[p].email
      fails == FailsSince(req[p].mark, e, req[p].row.id)
  IN
  /\ req[p].at = "count"
  /\ \/ /\ IF Cardinality(fails) >= MaxFails THEN Goto(p, "write") ELSE Proceed(p)
        /\ UNCHANGED <<faults, pardoned>>
     \/ Fault /\ Proceed(p) /\ pardoned' = pardoned \cup {Account(p)}
  /\ UNCHANGED <<users, creds, attempts, serial, sweeper, now, scenario, forked, spent>>

----------------------------------------------------------------------------
(* Users.                                                                  *)

Bans(p) == req[p].op \in {"loginPassword", "verify"}

\* The row UserRepository.Update writes.  The update handler builds a new User and
\* copies the password into it, and nothing of the ban.
Written(p) ==
  LET r == req[p] IN
  CASE r.op \in {"setPassword", "completeReset"} -> [r.row EXCEPT !.pw = r.pw]
    [] r.op = "update" -> [r.row EXCEPT !.disabled = FALSE, !.ban = 0]
    [] OTHER -> [r.row EXCEPT !.disabled = TRUE, !.ban = now + BanLength]

\* completePasswordReset and checkBanUser's callers go on after an error.
Update(p) ==
  LET e == req[p].email
      hit == HasId(e, req[p].row.id)
  IN
  /\ req[p].at = "write"
  /\ \/ /\ users' = IF hit THEN [users EXCEPT ![e] = Written(p)] ELSE users
        /\ pardoned' = IF hit /\ users[e].disabled /\ ~Written(p).disabled
                       THEN pardoned \cup {Account(p)} ELSE pardoned
        /\ spent' = IF req[p].op = "completeReset" THEN spent \cup {req[p].root} ELSE spent
        /\ UNCHANGED faults
     \/ /\ Fault
        /\ pardoned' = IF Bans(p) THEN pardoned \cup {Account(p)} ELSE pardoned
        /\ UNCHANGED <<users, spent>>
  /\ CASE Bans(p) -> Proceed(p)
       [] req[p].op = "completeReset" -> Goto(p, "discard")
       [] OTHER -> Return(p)
  /\ UNCHANGED <<creds, attempts, serial, sweeper, now, scenario, forked>>

Delete(p) ==
  LET e == req[p].email IN
  /\ req[p].at = "remove"
  /\ \/ /\ users' = IF HasId(e, req[p].row.id) THEN [users EXCEPT ![e] = Gone] ELSE users
        /\ UNCHANGED faults
     \/ Fault /\ UNCHANGED users
  /\ Return(p)
  /\ UNCHANGED <<creds, attempts, serial, sweeper, now, scenario, forked, spent, pardoned>>

\* canCreateUser and what its callers do.  It drops the errors of its two queries:
\* a count that fails reads as 0 users, a limit that fails as a limit of 0.
checkLimit(p) ==
  /\ req[p].at = "limit"
  /\ \/ /\ IF canCreateUser THEN Goto(p, "insert") ELSE Return(p)
        /\ UNCHANGED faults
     \/ Fault /\ MaxUsers > 0 /\ Goto(p, "insert")
     \/ Fault /\ Return(p)
  /\ UNCHANGED <<users, creds, attempts, serial, sweeper, now, scenario, forked, spent, pardoned>>

\* users.email is unique.  verify does not look at the error and goes on with a
\* user that has no id.
Create(p) ==
  LET e == req[p].email
      new == [Gone EXCEPT !.id = req[p].serial, !.pw = req[p].pw]
      Resume(row) == IF req[p].op = "verify"
                     THEN req' = [req EXCEPT ![p].at = "discard", ![p].row = row]
                     ELSE Return(p)
  IN
  /\ req[p].at = "insert"
  /\ \/ ~Exists(e) /\ users' = [users EXCEPT ![e] = new] /\ Resume(new) /\ UNCHANGED faults
     \/ Exists(e) /\ Resume(Gone) /\ UNCHANGED <<users, faults>>
     \/ Fault /\ Resume(Gone) /\ UNCHANGED users
  /\ UNCHANGED <<creds, attempts, serial, sweeper, now, scenario, forked, spent, pardoned>>

----------------------------------------------------------------------------
(* Refresh tokens and auth states.                                         *)

\* The user a refresh token or a reset names.
getUser(p) ==
  LET e == req[p].email
      reset == req[p].op = "completeReset"
  IN
  /\ req[p].at = "account"
  /\ IF /\ HasId(e, req[p].id) /\ ~users[e].disabled
        /\ reset => users[e].pw # NoPassword
     THEN req' = [req EXCEPT ![p].at = IF reset THEN "write" ELSE "issue",
                             ![p].row = users[e]]
     ELSE Return(p)
  /\ UNCHANGED <<users, creds, attempts, serial, sweeper, now, faults, scenario, forked,
                 spent, pardoned>>

\* The user the provider named; a query that fails finds none.
findUser(p) ==
  LET e == req[p].email IN
  /\ req[p].at = "findUser"
  /\ \/ /\ CASE ~Exists(e) -> Goto(p, "limit")
             [] Exists(e) /\ users[e].disabled -> Return(p)
             [] OTHER -> req' = [req EXCEPT ![p].at = "discard", ![p].row = users[e]]
        /\ UNCHANGED faults
     \/ Fault /\ Goto(p, "limit")
  /\ UNCHANGED <<users, creds, attempts, serial, sweeper, now, scenario, forked, spent, pardoned>>

\* The provider names a user the organisation admits, or the login ends here.
admit(p) ==
  /\ req[p].at = "admit"
  /\ \/ \E e \in scenario.emails : /\ AllowAnyUser \/ Exists(e)
                                   /\ req' = [req EXCEPT ![p].at = "open", ![p].email = e]
     \/ Return(p)
  /\ UNCHANGED <<users, creds, attempts, serial, sweeper, now, faults, scenario, forked,
                 spent, pardoned>>

Insert(p, kind) ==
  LET r == req[p]
      new == [kind |-> kind, email |-> r.email, id |-> r.row.id, created |-> now,
              expiry |-> now + Life(r.op, r.long), root |-> r.root, long |-> r.long]
  IN
  \/ creds' = [creds EXCEPT ![r.serial] = new] /\ UNCHANGED faults
  \/ Fault /\ UNCHANGED creds

createAuthState(p) ==
  /\ req[p].at = "open"
  /\ Insert(p, CASE req[p].op = "login" -> "request"
                 [] req[p].op = "callback" -> "cache"
                 [] OTHER -> "reset")
  /\ Return(p)
  /\ UNCHANGED <<users, attempts, serial, sweeper, now, scenario, forked, spent, pardoned>>

\* A refresh goes on to delete the token it was given.
createRefreshToken(p) ==
  /\ req[p].at = "issue"
  /\ Insert(p, "refresh")
  /\ IF req[p].op = "refresh"
     THEN req' = [req EXCEPT ![p].at = "discard", ![p].mark = req[p].serial]
     ELSE Return(p)
  /\ UNCHANGED <<users, attempts, serial, sweeper, now, scenario, forked, spent, pardoned>>

\* Nobody looks at the error.
deleteCredential(p) ==
  /\ req[p].at = "discard"
  /\ \/ creds' = [creds EXCEPT ![req[p].cred] = Unused] /\ UNCHANGED <<faults, forked>>
     \/ Fault /\ forked' = forked \cup {req[p].root} /\ UNCHANGED creds
  /\ CASE req[p].op = "callback" -> Goto(p, "admit")
       [] req[p].op = "verify" /\ req[p].row # Gone -> Goto(p, "record")
       [] OTHER -> Return(p)
  /\ UNCHANGED <<users, attempts, serial, sweeper, now, scenario, spent, pardoned>>

----------------------------------------------------------------------------
(* The clean-up goroutine, time, and the death of the process.             *)

DeleteExpired(kinds) ==
  creds' = [c \in Serials |->
              IF creds[c].kind \in kinds /\ creds[c].expiry < now THEN Unused ELSE creds[c]]

Released == {e \in Emails : users[e].disabled /\ users[e].ban # 0 /\ users[e].ban <= now}

enableUsersWithExpiredBan ==
  /\ users' = [e \in Emails |-> IF e \in Released
                                THEN [users[e] EXCEPT !.disabled = FALSE, !.ban = 0]
                                ELSE users[e]]
  /\ pardoned' = pardoned \cup {<<e, users[e].id>> : e \in Released}

Cleanup ==
  /\ \/ /\ sweeper = "states" /\ DeleteExpired({"request", "cache", "reset"})
        /\ UNCHANGED <<users, pardoned, faults>>
     \/ /\ sweeper = "tokens" /\ DeleteExpired({"refresh"})
        /\ UNCHANGED <<users, pardoned, faults>>
     \/ sweeper = "bans" /\ enableUsersWithExpiredBan /\ UNCHANGED <<creds, faults>>
     \/ Fault /\ UNCHANGED <<users, creds, pardoned>>
  /\ sweeper' = CASE sweeper = "states" -> "tokens"
                  [] sweeper = "tokens" -> "bans"
                  [] OTHER -> "states"
  /\ UNCHANGED <<attempts, req, serial, now, scenario, forked, spent>>

Tick ==
  /\ now < scenario.clock \/ \E e \in Emails : users[e].disabled /\ users[e].ban > now
  /\ now' = now + 1
  /\ UNCHANGED <<users, creds, attempts, req, serial, sweeper, faults, scenario, forked,
                 spent, pardoned>>

Crash ==
  LET busy == {p \in Handlers : req[p].at # "idle"} IN
  /\ busy # {} /\ Fault
  /\ req' = [p \in Handlers |-> Idle]
  /\ sweeper' = "states"
  /\ forked' = forked \cup {req[p].root : p \in {p \in busy : req[p].cred # 0}}
  /\ pardoned' = pardoned \cup {Account(p) : p \in busy}
  /\ UNCHANGED <<users, creds, attempts, serial, now, scenario, spent>>

Arrive(p) ==
  \/ loginPassword(p) \/ login(p) \/ callback(p) \/ verify(p) \/ refreshAccessToken(p)
  \/ initPasswordReset(p) \/ completePasswordReset(p) \/ setPassword(p)
  \/ update(p) \/ delete(p) \/ create(p)

Serve(p) ==
  \/ RecordLoginAttempt(p) \/ readLastSuccess(p) \/ checkBanUser(p)
  \/ Update(p) \/ Delete(p) \/ checkLimit(p) \/ Create(p)
  \/ getUser(p) \/ findUser(p) \/ admit(p)
  \/ createAuthState(p) \/ createRefreshToken(p) \/ deleteCredential(p)

Next == \/ \E p \in Handlers : Arrive(p) \/ Serve(p)
        \/ Cleanup \/ Tick \/ Crash

Spec == Init /\ [][Next]_vars

\* Goroutines are scheduled, the ticker fires, and time passes; nobody has to send
\* a request.
FairSpec == /\ Spec /\ WF_vars(Cleanup) /\ WF_vars(Tick)
            /\ \A p \in Handlers : WF_vars(Serve(p))

----------------------------------------------------------------------------
(* Properties.                                                             *)

\* Every variable keeps to its type; a disabled account always has the expiry
\* without which the clean-up would never enable it again.
TypeOK ==
  /\ users \in [Emails -> Row \cup {Gone}]
  /\ creds \in [Serials -> Cred \cup {Unused}]
  /\ attempts \in Seq(Attempt)
  /\ req \in [Handlers -> Request \cup {Idle}]
  /\ serial \in 0 .. MaxRequests /\ now \in Nat \ {0} /\ faults \in 0 .. scenario.faults
  /\ sweeper \in {"states", "tokens", "bans"} /\ scenario \in Scenarios
  /\ forked \subseteq Serials /\ spent \subseteq Serials
  /\ pardoned \subseteq (Emails \cup {NoEmail}) \X Nat

\* The handler works on a copy of the user that is no longer what the table holds.
Stale(p) == req[p].row # users[req[p].email]

Pending(c) == \E p \in Handlers : req[p].at = "discard" /\ req[p].cred = c
SessionCreds == {c \in Serials : creds[c].kind \in {"refresh", "request", "cache"}}

\* However often its tokens are refreshed, a login has one credential alive at a
\* time (auth-router.go 121-155, 311-377, 488-537), the one being replaced aside;
\* unless two requests presented the same one or its deletion failed.
OneCredentialPerLogin ==
  \A c, d \in SessionCreds :
    /\ creds[c].root = creds[d].root /\ creds[c].root \notin forked
    /\ ~Pending(c) /\ ~Pending(d)
    => c = d

\* A reset mail changes the password once (auth-router.go 191-225): after it has,
\* no other request gets as far as writing with it, except one that was already
\* holding its state.
ResetsOnce ==
  \A f \in spent \ forked : \A p \in Handlers :
    ~(req[p].op = "completeReset" /\ req[p].root = f /\ req[p].at \in {"account", "write"})

\* A refreshed token lives as long as the login asked for: a session of a day never
\* becomes one of four weeks, nor the other way round (auth-router.go 146, 578-593).
LifeIsInherited ==
  \A p \in Handlers :
    LET old == req[p].cred
        new == req[p].mark
    IN /\ req[p].op = "refresh" /\ req[p].at = "discard"
       /\ creds[old].kind = "refresh" /\ creds[new].kind = "refresh"
       => creds[new].expiry - creds[new].created = creds[old].expiry - creds[old].created

\* Once nobody works on an account any more, so many failed logins since the last
\* success mean that it is disabled, or that a ban was lifted, undone or failed
\* since the last of them (auth-attempt-repository.go 62-103): no interleaving of
\* logins gets more guesses than the handlers that are already past the check.
ThresholdMeansBan ==
  \A e \in Emails :
    /\ Exists(e) /\ \A p \in Handlers : req[p].email # e
    /\ Cardinality(FailsSince(LastSuccess(e, users[e].id), e, users[e].id)) >= MaxFails
    => users[e].disabled \/ <<e, users[e].id>> \in pardoned

\* Handlers may find the same seat left for one more user, and a count that fails
\* finds one whatever the number of users: the subscription is exceeded by at most
\* the handlers but one and the failures so far (user-repository.go 339-343).
UserLimit == (\A f \in Populations : Cardinality(DOMAIN f) <= MaxUsers) =>
             GetCount < MaxUsers + Cardinality(Handlers) + faults

SameAccount(e) == Exists(e) /\ users'[e] # Gone /\ users'[e].id = users[e].id
Moves(p, step) == req[p].at = step /\ req'[p] # req[p]

\* A ban ends before its expiry only when an administrator saves the user, or when
\* a handler writes back a copy it read before the ban (user-repository.go 263-277).
BansLast ==
  [][\A e \in Emails :
       SameAccount(e) /\ users[e].disabled /\ ~users'[e].disabled
       => \/ users[e].ban <= now
          \/ \E p \in Handlers : /\ Moves(p, "write") /\ req[p].email = e
                                 /\ req[p].op = "update" \/ Stale(p)]_vars

\* A password changes to what a request asked for, or because a handler writes back
\* a copy it read before the last change: nothing else touches it, the ban least
\* of all (auth-attempt-repository.go 95-101).
PasswordsAreChosen ==
  [][\A e \in Emails :
       SameAccount(e) /\ users'[e].pw # users[e].pw
       => \E p \in Handlers :
            /\ Moves(p, "write") /\ req[p].email = e
            /\ \/ /\ req[p].op \in {"setPassword", "completeReset"}
                  /\ users'[e].pw = req[p].pw
               \/ Stale(p)]_vars

\* A refresh token is issued to an account that exists, is not disabled and, after a
\* password login, has the password given; unless the account changed after the
\* handler read it.
SessionsNeedAnAccount ==
  [][\A c \in Serials :
       creds[c] = Unused /\ creds'[c].kind = "refresh"
       => \E p \in Handlers :
            /\ Moves(p, "issue") /\ req[p].serial = c
            /\ \/ Stale(p)
               \/ /\ HasId(creds'[c].email, creds'[c].id)
                  /\ ~users[creds'[c].email].disabled
                  /\ req[p].op = "loginPassword" => users[creds'[c].email].pw = req[p].pw]_vars

\* Nobody stays locked out: the clean-up enables every disabled account.
BansEnd == \A e \in Emails : Exists(e) /\ users[e].disabled ~> ~users[e].disabled

\* What has expired disappears, auth states too: their expiry is looked at nowhere
\* else (app.go 117-146).
ExpiredCredentialsVanish ==
  \A c \in Serials : creds[c] # Unused /\ creds[c].expiry < now ~> creds[c] = Unused

=============================================================================
