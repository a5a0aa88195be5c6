--------------------------- MODULE Accounts_proofs ---------------------------
(***************************************************************************)
(* Theorems about Accounts, for every value of its constants.              *)
(***************************************************************************)
EXTENDS Accounts, FiniteSetTheorems, TLAPS

----------------------------------------------------------------------------
(* Type correctness.                                                       *)

\* What a handler is given when its request arrives, whatever the tables hold ...
FirstSteps == {"record", "account", "findUser", "limit", "write", "remove", "open",
               "discard"}
Fresh ==
  {r \in [op : Ops, at : FirstSteps, serial : {0}, email : Emails \cup {NoEmail},
          row : Row \cup {Gone}, pw : Passwords \cup {NoPassword},
          cred : 0 .. MaxRequests, id : Nat, root : {0} \cup Serials,
          long : BOOLEAN, mark : Nat] :
     /\ r.cred # 0 => r.root # 0
     /\ r.at = "open" => r.op \in {"login", "initReset"} /\ r.root = 0
     /\ r.op = "initReset" => r.at = "open"
     /\ r.op = "completeReset" => r.at = "account"
     /\ r.email = NoEmail => \/ r.op = "login" /\ r.at = "open"
                             \/ r.op = "callback" /\ r.at = "discard"}

\* ... where its handler starts ...
FirstStep(op) ==
  CASE op = "loginPassword" -> "record"
    [] op \in {"login", "initReset"} -> "open"
    [] op = "callback" -> "discard"
    [] op = "verify" -> "findUser"
    [] op \in {"refresh", "completeReset"} -> "account"
    [] op \in {"setPassword", "update"} -> "write"
    [] op = "delete" -> "remove"
    [] op = "create" -> "limit"

\* ... the credential it presents ...
Presents(r) ==
  /\ r.op \notin {"callback", "verify", "refresh", "completeReset"} => r.cred = 0 /\ r.root = 0
  /\ r.op \in {"callback", "verify", "refresh"} =>
       r.cred \in Serials /\ r.root = creds[r.cred].root
  /\ r.op = "callback" => creds[r.cred].kind \in {"request", "cache"}
  /\ r.op = "verify" => creds[r.cred].kind = "cache"
  /\ r.op = "refresh" => /\ creds[r.cred].kind = "refresh" /\ Answered(r.cred)
                         /\ r.long = isLongLived(r.cred)

\* ... and what it has read.
Read(r) ==
  /\ r.at = FirstStep(r.op) /\ r.mark = 0 /\ Presents(r)
  /\ r.row = Gone \/ (r.email \in Emails /\ r.row = users[r.email])
  /\ r.op = "loginPassword" => r.at = "record" /\ Usable(users[r.email])
                              /\ r.row = users[r.email]
  /\ r.at = "record" => r.op = "loginPassword"
  /\ r.op = "verify" => r.at = "findUser" /\ r.row = Gone
  /\ r.op = "completeReset" => /\ r.cred \in Serials /\ creds[r.cred].kind = "reset"
                               /\ r.root = creds[r.cred].root

\* The bounds are natural numbers, and a scenario stays within them.
LEMMA Bounds ==
  /\ MaxFails \in Nat /\ Window \in Nat /\ BanLength \in Nat /\ LoginLife \in Nat
  /\ ResetLife \in Nat /\ ShortLife \in Nat /\ LongLife \in Nat
  /\ LongThreshold \in Nat /\ MaxUsers \in Nat /\ MaxRequests \in Nat
  /\ \A s \in Scenarios : /\ s.requests \in Nat /\ s.requests <= MaxRequests
                          /\ s.faults \in Nat /\ s.clock \in Nat
                          /\ s.ops \subseteq Ops /\ s.emails \subseteq Emails
                          /\ s.long \subseteq BOOLEAN
<1>1. \A s \in Scenarios : s \in Scenario /\ s.requests <= MaxRequests
  BY AccountsAssumption
<1>2. \A s \in Scenario : /\ s.requests \in Nat /\ s.faults \in Nat /\ s.clock \in Nat
                          /\ s.ops \subseteq Ops /\ s.emails \subseteq Emails
                          /\ s.long \subseteq BOOLEAN
  BY DEF Scenario
<1>. QED  BY <1>1, <1>2, AccountsAssumption

\* The first state is well typed.
LEMMA TypeInit == Init => TypeOK
<1>. SUFFICES ASSUME Init PROVE TypeOK
  OBVIOUS
<1>1. users \in [Emails -> Row \cup {Gone}]
  <2>1. PICK f \in Populations :
          users = [e \in Emails |->
                     IF e \in DOMAIN f
                     THEN [Gone EXCEPT !.id = MaxRequests + 1, !.pw = f[e]] ELSE Gone]
    BY DEF Init
  <2>2. \A e \in DOMAIN f : f[e] \in Passwords \cup {NoPassword}
    BY AccountsAssumption
  <2>3. \A w \in Passwords \cup {NoPassword} :
          [Gone EXCEPT !.id = MaxRequests + 1, !.pw = w] \in Row
    BY Bounds DEF Gone, Row
  <2>. QED  BY <2>1, <2>2, <2>3
<1>2. creds \in [Serials -> Cred \cup {Unused}] /\ req \in [Handlers -> Request \cup {Idle}]
  BY DEF Init
<1>3. attempts \in Seq(Attempt)
  <2>1. attempts = <<>>
    BY DEF Init
  <2>. QED  BY <2>1
<1>4. serial \in 0 .. MaxRequests /\ now \in Nat \ {0} /\ faults \in 0 .. scenario.faults
  <2>1. serial = 0 /\ now = 1 /\ faults = 0 /\ scenario \in Scenarios
    BY DEF Init
  <2>. QED  BY <2>1, Bounds
<1>. QED  BY <1>1, <1>2, <1>3, <1>4 DEF Init, TypeOK

\* The fields of a credential and of a row.
LEMMA CredFields ==
  ASSUME TypeOK, NEW c \in Serials, creds[c].kind \in Kinds
  PROVE  /\ creds[c] \in Cred /\ creds[c].email \in Emails \cup {NoEmail}
         /\ creds[c].kind # "request" => creds[c].email \in Emails
         /\ creds[c].id \in Nat /\ creds[c].root \in Serials
         /\ creds[c].long \in BOOLEAN
         /\ creds[c].created \in Nat /\ creds[c].expiry \in Nat
BY DEF TypeOK, Cred, Unused, Kinds

\* An arriving request keeps the types.
LEMMA BeginTyped ==
  ASSUME TypeOK, NEW p \in Handlers, NEW r \in Fresh, Begin(p, r)
  PROVE  TypeOK'
<1>1. serial < scenario.requests /\ scenario.requests <= MaxRequests
  BY Bounds DEF TypeOK, Begin
<1>2. serial + 1 \in Serials /\ serial' \in 0 .. MaxRequests
  BY <1>1, Bounds DEF TypeOK, Begin, Serials
<1>. DEFINE new == [r EXCEPT !.serial = serial + 1,
                             !.root = IF r.root = 0 THEN serial + 1 ELSE @]
<1>3. new \in Request
  <2>1. FirstSteps \subseteq Steps
    BY DEF FirstSteps, Steps
  <2>. QED  BY <1>2, <2>1 DEF Fresh, Request
<1>4. req' \in [Handlers -> Request \cup {Idle}]
  BY <1>3 DEF TypeOK, Begin
<1>5. forked' \subseteq Serials
  <2>1. r.cred # 0 => r.root \in Serials
    BY DEF Fresh
  <2>. QED  BY <2>1 DEF TypeOK, Begin
<1>. QED  BY <1>2, <1>4, <1>5 DEF TypeOK, Begin

\* Every handler is given such a request.
LEMMA ArriveBegins ==
  ASSUME TypeOK, NEW p \in Handlers, Arrive(p)
  PROVE  \E r \in Fresh : Begin(p, r) /\ Read(r)
<1>0. /\ users \in [Emails -> Row \cup {Gone}]
      /\ scenario.emails \subseteq Emails /\ scenario.long \subseteq BOOLEAN
  BY Bounds DEF TypeOK
<1>a. \A row \in Row : row.id \in Nat
  BY Bounds DEF Row, Serials
<1>b. \A e \in Emails : users[e].id \in Nat
  BY <1>0, <1>a DEF Gone
<1>c. Serials \subseteq 0 .. MaxRequests /\ 0 \notin Serials /\ 0 \in 0 .. MaxRequests
  BY Bounds DEF Serials
<1>d. \A e \in Emails : users[e] \in Row \cup {Gone}
  BY <1>0
<1>e. NoEmail \notin Emails
  BY AccountsAssumption
<1>1. CASE loginPassword(p)
  <2>1. PICK e \in Emails, pw \in Passwords, long \in BOOLEAN :
          /\ Usable(users[e])
          /\ Begin(p, [Idle EXCEPT !.op = "loginPassword", !.at = "record", !.email = e,
                                   !.row = users[e], !.pw = pw, !.long = long])
    BY <1>1, <1>0 DEF loginPassword
  <2>2. [Idle EXCEPT !.op = "loginPassword", !.at = "record", !.email = e,
                      !.row = users[e], !.pw = pw, !.long = long] \in Fresh
    BY <1>c, <1>d, <1>e DEF Fresh, Idle, Ops, FirstSteps
  <2>. QED  BY <2>1, <2>2 DEF Read, Presents, FirstStep, Idle
<1>2. CASE login(p)
  <2>1. PICK long \in BOOLEAN :
          Begin(p, [Idle EXCEPT !.op = "login", !.at = "open", !.long = long])
    BY <1>2, <1>0 DEF login
  <2>2. [Idle EXCEPT !.op = "login", !.at = "open", !.long = long] \in Fresh
    BY <1>c, <1>d, <1>e DEF Fresh, Idle, Ops, FirstSteps
  <2>. QED  BY <2>1, <2>2 DEF Read, Presents, FirstStep, Idle
<1>3. CASE callback(p)
  <2>1. PICK c \in Serials :
          /\ creds[c].kind \in {"request", "cache"}
          /\ Begin(p, [Idle EXCEPT !.op = "callback", !.at = "discard", !.cred = c,
                                   !.root = creds[c].root, !.long = creds[c].long])
    BY <1>3 DEF callback
  <2>2. creds[c].root \in Serials /\ creds[c].long \in BOOLEAN
    BY <2>1, CredFields DEF Kinds
  <2>3. [Idle EXCEPT !.op = "callback", !.at = "discard", !.cred = c,
                      !.root = creds[c].root, !.long = creds[c].long] \in Fresh
    BY <2>2, <1>c, <1>e DEF Fresh, Idle, Ops, FirstSteps
  <2>. QED  BY <2>1, <2>3 DEF Read, Presents, FirstStep, Idle
<1>4. CASE verify(p)
  <2>1. PICK c \in Serials :
          /\ creds[c].kind = "cache"
          /\ Begin(p, [Idle EXCEPT !.op = "verify", !.at = "findUser",
                                   !.email = creds[c].email, !.cred = c,
                                   !.root = creds[c].root, !.long = creds[c].long])
    BY <1>4 DEF verify
  <2>2. /\ creds[c].root \in Serials /\ creds[c].long \in BOOLEAN
        /\ creds[c].email \in Emails
    BY <2>1, CredFields DEF Kinds
  <2>3. [Idle EXCEPT !.op = "verify", !.at = "findUser", !.email = creds[c].email,
                      !.cred = c, !.root = creds[c].root,
                      !.long = creds[c].long] \in Fresh
    BY <2>2, <1>c, <1>e DEF Fresh, Idle, Ops, FirstSteps
  <2>. QED  BY <2>1, <2>3 DEF Read, Presents, FirstStep, Idle
<1>5. CASE refreshAccessToken(p)
  <2>1. PICK c \in Serials :
          /\ creds[c].kind = "refresh" /\ Answered(c)
          /\ Begin(p, [Idle EXCEPT !.op = "refresh", !.at = "account",
                                   !.email = creds[c].email, !.cred = c,
                                   !.id = creds[c].id, !.root = creds[c].root,
                                   !.long = isLongLived(c)])
    BY <1>5 DEF refreshAccessToken
  <2>2. /\ creds[c].root \in Serials /\ creds[c].id \in Nat
        /\ creds[c].email \in Emails /\ isLongLived(c) \in BOOLEAN
    BY <2>1, CredFields DEF Kinds, isLongLived
  <2>3. [Idle EXCEPT !.op = "refresh", !.at = "account", !.email = creds[c].email,
                      !.cred = c, !.id = creds[c].id, !.root = creds[c].root,
                      !.long = isLongLived(c)] \in Fresh
    BY <2>2, <1>c, <1>e DEF Fresh, Idle, Ops, FirstSteps
  <2>. QED  BY <2>1, <2>3 DEF Read, Presents, FirstStep, Idle
<1>6. CASE initPasswordReset(p)
  <2>1. PICK e \in Emails :
          Begin(p, [Idle EXCEPT !.op = "initReset", !.at = "open", !.email = e,
                                !.row = users[e], !.id = users[e].id])
    BY <1>6, <1>0 DEF initPasswordReset
  <2>2. [Idle EXCEPT !.op = "initReset", !.at = "open", !.email = e,
                      !.row = users[e], !.id = users[e].id] \in Fresh
    BY <1>b, <1>c, <1>d, <1>e DEF Fresh, Idle, Ops, FirstSteps
  <2>. QED  BY <2>1, <2>2 DEF Read, Presents, FirstStep, Idle
<1>7. CASE completePasswordReset(p)
  <2>1. PICK c \in Serials, pw \in Passwords :
          /\ creds[c].kind = "reset"
          /\ Begin(p, [Idle EXCEPT !.op = "completeReset", !.at = "account",
                                   !.email = creds[c].email, !.pw = pw, !.cred = c,
                                   !.id = creds[c].id, !.root = creds[c].root])
    BY <1>7 DEF completePasswordReset
  <2>2. /\ creds[c].root \in Serials /\ creds[c].id \in Nat
        /\ creds[c].email \in Emails
    BY <2>1, CredFields DEF Kinds
  <2>3. [Idle EXCEPT !.op = "completeReset", !.at = "account",
                      !.email = creds[c].email, !.pw = pw, !.cred = c,
                      !.id = creds[c].id, !.root = creds[c].root] \in Fresh
    BY <2>2, <1>c, <1>e DEF Fresh, Idle, Ops, FirstSteps
  <2>. QED  BY <2>1, <2>3 DEF Read, Presents, FirstStep, Idle
<1>8. CASE setPassword(p)
  <2>1. PICK e \in Emails, pw \in Passwords :
          Begin(p, [Idle EXCEPT !.op = "setPassword", !.at = "write", !.email = e,
                                !.row = users[e], !.pw = pw])
    BY <1>8, <1>0 DEF setPassword
  <2>2. [Idle EXCEPT !.op = "setPassword", !.at = "write", !.email = e,
                      !.row = users[e], !.pw = pw] \in Fresh
    BY <1>c, <1>d, <1>e DEF Fresh, Idle, Ops, FirstSteps
  <2>. QED  BY <2>1, <2>2 DEF Read, Presents, FirstStep, Idle
<1>9. CASE update(p)
  <2>1. PICK e \in Emails :
          Begin(p, [Idle EXCEPT !.op = "update", !.at = "write", !.email = e,
                                !.row = users[e]])
    BY <1>9, <1>0 DEF update
  <2>2. [Idle EXCEPT !.op = "update", !.at = "write", !.email = e,
                      !.row = users[e]] \in Fresh
    BY <1>c, <1>d, <1>e DEF Fresh, Idle, Ops, FirstSteps
  <2>. QED  BY <2>1, <2>2 DEF Read, Presents, FirstStep, Idle
<1>10. CASE delete(p)
  <2>1. PICK e \in Emails :
          Begin(p, [Idle EXCEPT !.op = "delete", !.at = "remove", !.email = e,
                                !.row = users[e]])
    BY <1>10, <1>0 DEF delete
  <2>2. [Idle EXCEPT !.op = "delete", !.at = "remove", !.email = e,
                      !.row = users[e]] \in Fresh
    BY <1>c, <1>d, <1>e DEF Fresh, Idle, Ops, FirstSteps
  <2>. QED  BY <2>1, <2>2 DEF Read, Presents, FirstStep, Idle
<1>11. CASE create(p)
  <2>1. PICK e \in Emails, pw \in Passwords \cup {NoPassword} :
          Begin(p, [Idle EXCEPT !.op = "create", !.at = "limit", !.email = e, !.pw = pw])
    BY <1>11, <1>0 DEF create
  <2>2. [Idle EXCEPT !.op = "create", !.at = "limit", !.email = e,
                      !.pw = pw] \in Fresh
    BY <1>c, <1>d, <1>e DEF Fresh, Idle, Ops, FirstSteps
  <2>. QED  BY <2>1, <2>2 DEF Read, Presents, FirstStep, Idle
<1>. QED
  BY <1>1, <1>2, <1>3, <1>4, <1>5, <1>6, <1>7, <1>8, <1>9, <1>10, <1>11 DEF Arrive

\* So every arrival keeps the types.
LEMMA ArriveTyped ==
  ASSUME TypeOK, NEW p \in Handlers, Arrive(p)
  PROVE  TypeOK'
BY ArriveBegins, BeginTyped

\* A handler that serves a request has one, with fields of these types.
LEMMA Serving ==
  ASSUME TypeOK, NEW p \in Handlers, req[p].at # "idle"
  PROVE  /\ req[p] \in Request /\ req[p].serial \in Serials
         /\ req[p].email \in Emails \cup {NoEmail} /\ req[p].row \in Row \cup {Gone}
         /\ req[p].pw \in Passwords \cup {NoPassword} /\ req[p].root \in Serials
         /\ req[p].long \in BOOLEAN /\ req[p].mark \in Nat /\ req[p].id \in Nat
         /\ req[p].row.id \in Nat /\ req[p].op \in Ops /\ req[p].cred \in 0 .. MaxRequests
         /\ req[p].at \notin {"open", "discard", "admit"} => req[p].email \in Emails
         /\ req[p].op \notin {"login", "callback"} => req[p].email \in Emails
         /\ req[p].at = "open" /\ req[p].op # "login" => req[p].email \in Emails
<1>1. req[p] \in Request
  BY DEF TypeOK, Idle
<1>2. \A row \in Row \cup {Gone} : row.id \in Nat
  BY Bounds DEF Row, Gone, Serials
<1>. QED  BY <1>1, <1>2 DEF Request

\* It works on an account.
LEMMA AccountTyped ==
  ASSUME TypeOK, NEW p \in Handlers, req[p].at # "idle"
  PROVE  Account(p) \in (Emails \cup {NoEmail}) \X Nat
BY Serving DEF Account

\* Moving on, returning and failing keep the types.
LEMMA StepTyped ==
  ASSUME TypeOK, NEW p \in Handlers, req[p].at # "idle"
  PROVE  /\ \A s \in Steps : Goto(p, s) /\ req[p].email \in Emails
                           => req' \in [Handlers -> Request \cup {Idle}]
         /\ Return(p) => req' \in [Handlers -> Request \cup {Idle}]
         /\ Proceed(p) /\ req[p].email \in Emails
              => req' \in [Handlers -> Request \cup {Idle}]
         /\ Fault /\ UNCHANGED scenario => faults' \in 0 .. scenario'.faults
<1>0. NoEmail \notin Emails
  BY AccountsAssumption
<1>1. req[p].email \in Emails => \A s \in Steps : [req[p] EXCEPT !.at = s] \in Request
  BY <1>0, Serving DEF Request
<1>2. ASSUME NEW s \in Steps, Goto(p, s), req[p].email \in Emails
      PROVE  req' \in [Handlers -> Request \cup {Idle}]
  BY <1>1, <1>2 DEF TypeOK, Goto
<1>3. Return(p) => req' \in [Handlers -> Request \cup {Idle}]
  BY DEF TypeOK, Return
<1>4. Proceed(p) /\ req[p].email \in Emails => req' \in [Handlers -> Request \cup {Idle}]
  BY <1>2, <1>3 DEF Proceed, Steps
<1>5. Fault /\ UNCHANGED scenario => faults' \in 0 .. scenario'.faults
  <2>1. scenario.faults \in Nat
    BY Bounds DEF TypeOK
  <2>. QED  BY <2>1 DEF TypeOK, Fault
<1>. QED  BY <1>2, <1>3, <1>4, <1>5

\* An UPDATE that finds its row writes a row.
LEMMA WrittenRow ==
  ASSUME TypeOK, NEW p \in Handlers, req[p].at = "write",
         NEW e \in Emails, HasId(e, req[p].row.id)
  PROVE  Written(p) \in Row /\ Written(p).id = users[e].id
<1>1. users[e] \in Row
  BY DEF TypeOK, HasId, Exists
<1>2. users[e].id # 0
  BY <1>1, Bounds DEF Row, Serials
<1>3. req[p].row \in Row
  BY <1>2, Serving DEF HasId, Gone
<1>4. CASE req[p].op \in {"setPassword", "completeReset"}
  BY <1>3, <1>4, Serving DEF Written, Row, HasId
<1>5. CASE req[p].op = "update"
  <2>1. [req[p].row EXCEPT !.disabled = FALSE, !.ban = 0] \in Row
    BY <1>3 DEF Row
  <2>. QED  BY <1>3, <1>5, <2>1 DEF Written, HasId, Row
<1>6. CASE req[p].op \notin {"setPassword", "completeReset", "update"}
  <2>1. now + BanLength \in Nat /\ now + BanLength # 0
    BY Bounds DEF TypeOK
  <2>2. [req[p].row EXCEPT !.disabled = TRUE, !.ban = now + BanLength] \in Row
    BY <1>3, <2>1 DEF Row
  <2>3. Written(p) = [req[p].row EXCEPT !.disabled = TRUE, !.ban = now + BanLength]
    BY <1>6 DEF Written
  <2>. QED  BY <1>3, <2>2, <2>3 DEF HasId, Row
<1>. QED  BY <1>4, <1>5, <1>6

\* The place of the last success among the attempts is a number.
LEMMA LastSuccessNat ==
  ASSUME TypeOK, NEW e, NEW id
  PROVE  LastSuccess(e, id) \in Nat
<1>1. Successes(e, id) \subseteq Nat
  <2>1. DOMAIN attempts \subseteq Nat
    BY DEF TypeOK
  <2>. QED  BY <2>1 DEF Successes, AttemptsOf
<1>. QED  BY <1>1 DEF LastSuccess

\* What a handler inserts is a credential.
LEMMA InsertTyped ==
  ASSUME TypeOK, NEW p \in Handlers, req[p].at # "idle", NEW kind \in Kinds,
         kind # "request" => req[p].email \in Emails, Insert(p, kind), UNCHANGED scenario
  PROVE  /\ creds' \in [Serials -> Cred \cup {Unused}]
         /\ faults' \in 0 .. scenario'.faults
<1>. DEFINE r == req[p]
            new == [kind |-> kind, email |-> r.email, id |-> r.row.id, created |-> now,
                    expiry |-> now + Life(r.op, r.long), root |-> r.root,
                    long |-> r.long]
<1>1. Life(r.op, r.long) \in Nat
  BY Bounds DEF Life
<1>2. now \in Nat /\ now + Life(r.op, r.long) \in Nat
  BY <1>1 DEF TypeOK
<1>3. new \in Cred
  BY <1>2, Serving, AccountsAssumption DEF Cred
<1>. HIDE DEF new
<1>4. creds' = [creds EXCEPT ![r.serial] = new] \/ creds' = creds
  BY DEF Insert, new
<1>5. creds' \in [Serials -> Cred \cup {Unused}]
  BY <1>3, <1>4 DEF TypeOK
<1>6. faults' \in 0 .. scenario'.faults
  BY StepTyped DEF Insert, TypeOK
<1>. QED  BY <1>5, <1>6

\* Serving a request keeps the types.
LEMMA ServeTyped ==
  ASSUME TypeOK, NEW p \in Handlers, Serve(p)
  PROVE  TypeOK'
<1>1. CASE RecordLoginAttempt(p)
  <2>1. req[p].at = "record" /\ req[p].email \in Emails /\ now \in Nat
    BY <1>1, Serving DEF RecordLoginAttempt, TypeOK
  <2>2. [email |-> req[p].email, id |-> req[p].row.id, ok |-> Right(p), at |-> now]
          \in Attempt
    BY <2>1, Serving DEF Attempt, Right
  <2>3. attempts' \in Seq(Attempt)
    <3>1. attempts \in Seq(Attempt)
      BY DEF TypeOK
    <3>2. \A x \in Attempt : Append(attempts, x) \in Seq(Attempt)
      BY <3>1
    <3>3. \E x \in Attempt : attempts' = Append(attempts, x) \/ attempts' = attempts
      BY <1>1, <2>2 DEF RecordLoginAttempt
    <3>. QED  BY <3>1, <3>2, <3>3
  <2>4. req' \in [Handlers -> Request \cup {Idle}]
    <3>1. Goto(p, "lastSuccess") \/ Proceed(p)
      BY <1>1 DEF RecordLoginAttempt
    <3>. QED  BY <2>1, <3>1, StepTyped DEF Steps
  <2>5. faults' \in 0 .. scenario'.faults
    <3>1. (Fault \/ UNCHANGED faults) /\ UNCHANGED scenario
      BY <1>1 DEF RecordLoginAttempt
    <3>. QED  BY <2>1, <3>1, StepTyped DEF TypeOK
  <2>6. pardoned' \subseteq (Emails \cup {NoEmail}) \X Nat
    BY <1>1 DEF RecordLoginAttempt, TypeOK
  <2>. QED  BY <1>1, <2>3, <2>4, <2>5, <2>6 DEF RecordLoginAttempt, TypeOK
<1>2. CASE readLastSuccess(p)
  <2>1. req[p].at = "lastSuccess" /\ req[p].email \in Emails
    BY <1>2, Serving DEF readLastSuccess
  <2>2. req' \in [Handlers -> Request \cup {Idle}]
    <3>. DEFINE m == LastSuccess(req[p].email, req[p].row.id)
    <3>1. m \in Nat
      BY LastSuccessNat
    <3>. HIDE DEF m
    <3>2. [req[p] EXCEPT !.at = "count", !.mark = m] \in Request
      BY <2>1, <3>1, Serving, AccountsAssumption DEF Request, Steps
    <3>3. req' = [req EXCEPT ![p] = [req[p] EXCEPT !.at = "count", !.mark = m]]
            \/ Goto(p, "count")
      BY <1>2 DEF readLastSuccess, m
    <3>. QED  BY <2>1, <3>2, <3>3, StepTyped DEF TypeOK, Steps
  <2>3. faults' \in 0 .. scenario'.faults
    <3>1. (Fault \/ UNCHANGED faults) /\ UNCHANGED scenario
      BY <1>2 DEF readLastSuccess
    <3>. QED  BY <2>1, <3>1, StepTyped DEF TypeOK
  <2>. QED  BY <1>2, <2>2, <2>3 DEF readLastSuccess, TypeOK
<1>3. CASE checkBanUser(p)
  <2>1. req[p].at = "count" /\ req[p].email \in Emails
    BY <1>3, Serving DEF checkBanUser
  <2>2. req' \in [Handlers -> Request \cup {Idle}]
    <3>1. Goto(p, "write") \/ Proceed(p)
      BY <1>3 DEF checkBanUser
    <3>. QED  BY <2>1, <3>1, StepTyped DEF Steps
  <2>3. faults' \in 0 .. scenario'.faults
    <3>1. (Fault \/ UNCHANGED faults) /\ UNCHANGED scenario
      BY <1>3 DEF checkBanUser
    <3>. QED  BY <2>1, <3>1, StepTyped DEF TypeOK
  <2>4. pardoned' \subseteq (Emails \cup {NoEmail}) \X Nat
    BY <1>3, <2>1, AccountTyped DEF checkBanUser, TypeOK
  <2>. QED  BY <1>3, <2>2, <2>3, <2>4 DEF checkBanUser, TypeOK
<1>4. CASE Update(p)
  <2>1. req[p].at = "write" /\ req[p].email \in Emails
    BY <1>4, Serving DEF Update
  <2>2. users' \in [Emails -> Row \cup {Gone}]
    <3>1. \/ users' = users
          \/ /\ HasId(req[p].email, req[p].row.id)
             /\ users' = [users EXCEPT ![req[p].email] = Written(p)]
      BY <1>4 DEF Update
    <3>2. HasId(req[p].email, req[p].row.id) => Written(p) \in Row
      BY <2>1, WrittenRow
    <3>. QED  BY <3>1, <3>2 DEF TypeOK
  <2>3. req' \in [Handlers -> Request \cup {Idle}]
    <3>1. Goto(p, "discard") \/ Proceed(p) \/ Return(p)
      BY <1>4 DEF Update
    <3>. QED  BY <2>1, <3>1, StepTyped DEF Steps
  <2>4. faults' \in 0 .. scenario'.faults
    <3>1. (Fault \/ UNCHANGED faults) /\ UNCHANGED scenario
      BY <1>4 DEF Update
    <3>. QED  BY <2>1, <3>1, StepTyped DEF TypeOK
  <2>5. pardoned' \subseteq pardoned \cup {Account(p)} /\ spent' \subseteq spent \cup {req[p].root}
    BY <1>4 DEF Update
  <2>6. pardoned' \subseteq (Emails \cup {NoEmail}) \X Nat /\ spent' \subseteq Serials
    BY <2>1, <2>5, Serving, AccountTyped DEF TypeOK
  <2>. QED  BY <1>4, <2>2, <2>3, <2>4, <2>6 DEF Update, TypeOK
<1>5. CASE Delete(p)
  <2>1. req[p].at # "idle"
    BY <1>5 DEF Delete
  <2>2. req' \in [Handlers -> Request \cup {Idle}]
    BY <1>5, <2>1, StepTyped DEF Delete
  <2>3. faults' \in 0 .. scenario'.faults
    <3>1. (Fault \/ UNCHANGED faults) /\ UNCHANGED scenario
      BY <1>5 DEF Delete
    <3>. QED  BY <2>1, <3>1, StepTyped DEF TypeOK
  <2>4. users' \in [Emails -> Row \cup {Gone}]
    BY <1>5 DEF Delete, TypeOK
  <2>. QED  BY <1>5, <2>2, <2>3, <2>4 DEF Delete, TypeOK
<1>6. CASE checkLimit(p)
  <2>1. req[p].at = "limit" /\ req[p].email \in Emails
    BY <1>6, Serving DEF checkLimit
  <2>2. Goto(p, "insert") \/ Return(p)
    BY <1>6 DEF checkLimit
  <2>3. req' \in [Handlers -> Request \cup {Idle}]
    BY <2>1, <2>2, StepTyped DEF Steps
  <2>4. faults' \in 0 .. scenario'.faults
    <3>1. (Fault \/ UNCHANGED faults) /\ UNCHANGED scenario
      BY <1>6 DEF checkLimit
    <3>. QED  BY <2>1, <3>1, StepTyped DEF TypeOK
  <2>. QED  BY <1>6, <2>3, <2>4 DEF checkLimit, TypeOK
<1>7. CASE Create(p)
  <2>. DEFINE new == [Gone EXCEPT !.id = req[p].serial, !.pw = req[p].pw]
  <2>1. req[p].at = "insert" /\ req[p].email \in Emails
    BY <1>7, Serving DEF Create
  <2>2. new \in Row
    BY <2>1, Serving DEF Gone, Row
  <2>3. \A row \in {new, Gone} :
          [req[p] EXCEPT !.at = "discard", !.row = row] \in Request
    BY <2>1, <2>2, Serving, AccountsAssumption DEF Request, Steps
  <2>. HIDE DEF new
  <2>4. \/ \E row \in {new, Gone} :
             req' = [req EXCEPT ![p] = [req[p] EXCEPT !.at = "discard", !.row = row]]
        \/ Return(p)
    BY <1>7 DEF Create, new
  <2>5. req' \in [Handlers -> Request \cup {Idle}]
    BY <2>1, <2>3, <2>4, StepTyped DEF TypeOK
  <2>6. users' \in [Emails -> Row \cup {Gone}]
    <3>1. users' = [users EXCEPT ![req[p].email] = new] \/ users' = users
      BY <1>7 DEF Create, new
    <3>. QED  BY <2>2, <3>1 DEF TypeOK
  <2>7. faults' \in 0 .. scenario'.faults
    <3>1. (Fault \/ UNCHANGED faults) /\ UNCHANGED scenario
      BY <1>7 DEF Create
    <3>. QED  BY <2>1, <3>1, StepTyped DEF TypeOK
  <2>. QED  BY <1>7, <2>5, <2>6, <2>7 DEF Create, TypeOK
<1>8. CASE getUser(p)
  <2>1. req[p].at = "account" /\ req[p].email \in Emails
    BY <1>8, Serving DEF getUser
  <2>2. ASSUME NEW s \in Steps
        PROVE  [req[p] EXCEPT !.at = s, !.row = users[req[p].email]] \in Request
    <3>1. users[req[p].email] \in Row \cup {Gone}
      BY <2>1 DEF TypeOK
    <3>. QED  BY <2>1, <3>1, Serving, AccountsAssumption DEF Request
  <2>3. req' \in [Handlers -> Request \cup {Idle}]
    <3>1. \/ Return(p)
          \/ \E s \in Steps :
               req' = [req EXCEPT ![p] =
                         [req[p] EXCEPT !.at = s, !.row = users[req[p].email]]]
      BY <1>8 DEF getUser, Steps
    <3>. QED  BY <2>1, <2>2, <3>1, StepTyped DEF TypeOK
  <2>. QED  BY <1>8, <2>3 DEF getUser, TypeOK
<1>9. CASE findUser(p)
  <2>1. req[p].at = "findUser" /\ req[p].email \in Emails
    BY <1>9, Serving DEF findUser
  <2>2. [req[p] EXCEPT !.at = "discard", !.row = users[req[p].email]] \in Request
    <3>1. users[req[p].email] \in Row \cup {Gone}
      BY <2>1 DEF TypeOK
    <3>. QED  BY <2>1, <3>1, Serving, AccountsAssumption DEF Request, Steps
  <2>3. req' \in [Handlers -> Request \cup {Idle}]
    <3>1. \/ Return(p) \/ Goto(p, "limit")
          \/ req' = [req EXCEPT ![p] =
                       [req[p] EXCEPT !.at = "discard", !.row = users[req[p].email]]]
      BY <1>9 DEF findUser
    <3>. QED  BY <2>1, <2>2, <3>1, StepTyped DEF TypeOK, Steps
  <2>4. faults' \in 0 .. scenario'.faults
    <3>1. (Fault \/ UNCHANGED faults) /\ UNCHANGED scenario
      BY <1>9 DEF findUser
    <3>. QED  BY <2>1, <3>1, StepTyped DEF TypeOK
  <2>. QED  BY <1>9, <2>3, <2>4 DEF findUser, TypeOK
<1>10. CASE admit(p)
  <2>1. req[p].at = "admit" /\ scenario.emails \subseteq Emails
    BY <1>10, Bounds DEF admit, TypeOK
  <2>2. \A e \in Emails : [req[p] EXCEPT !.at = "open", !.email = e] \in Request
    BY <2>1, Serving, AccountsAssumption DEF Request, Steps
  <2>3. \/ Return(p)
        \/ \E e \in Emails :
             req' = [req EXCEPT ![p] = [req[p] EXCEPT !.at = "open", !.email = e]]
    BY <1>10, <2>1 DEF admit
  <2>4. req' \in [Handlers -> Request \cup {Idle}]
    BY <2>1, <2>2, <2>3, StepTyped DEF TypeOK
  <2>. QED  BY <1>10, <2>4 DEF admit, TypeOK
<1>11. CASE createAuthState(p)
  <2>1. req[p].at = "open" /\ UNCHANGED scenario
    BY <1>11 DEF createAuthState
  <2>2. PICK kind \in Kinds : Insert(p, kind) /\ (kind = "request" <=> req[p].op = "login")
    BY <1>11 DEF createAuthState, Kinds
  <2>3. creds' \in [Serials -> Cred \cup {Unused}] /\ faults' \in 0 .. scenario'.faults
    BY <2>1, <2>2, Serving, InsertTyped
  <2>4. req' \in [Handlers -> Request \cup {Idle}]
    BY <1>11, <2>1, StepTyped DEF createAuthState
  <2>. QED  BY <1>11, <2>3, <2>4 DEF createAuthState, TypeOK
<1>12. CASE createRefreshToken(p)
  <2>1. req[p].at = "issue" /\ UNCHANGED scenario /\ req[p].email \in Emails
    BY <1>12, Serving DEF createRefreshToken
  <2>2. creds' \in [Serials -> Cred \cup {Unused}] /\ faults' \in 0 .. scenario'.faults
    BY <1>12, <2>1, InsertTyped DEF createRefreshToken, Kinds
  <2>3. [req[p] EXCEPT !.at = "discard", !.mark = req[p].serial] \in Request
    <3>1. req[p] \in Request /\ req[p].serial \in Nat /\ NoEmail \notin Emails
      BY <2>1, Serving, Bounds, AccountsAssumption DEF Serials
    <3>. QED  BY <2>1, <3>1 DEF Request, Steps
  <2>4. \/ Return(p)
        \/ req' = [req EXCEPT ![p] =
                     [req[p] EXCEPT !.at = "discard", !.mark = req[p].serial]]
    BY <1>12 DEF createRefreshToken
  <2>5. req' \in [Handlers -> Request \cup {Idle}]
    BY <2>1, <2>3, <2>4, StepTyped DEF TypeOK
  <2>. QED  BY <1>12, <2>2, <2>5 DEF createRefreshToken, TypeOK
<1>13. CASE deleteCredential(p)
  <2>1. req[p].at = "discard"
    BY <1>13 DEF deleteCredential
  <2>2. creds' \in [Serials -> Cred \cup {Unused}]
    BY <1>13 DEF deleteCredential, TypeOK
  <2>3. req[p].op = "callback" => [req[p] EXCEPT !.at = "admit"] \in Request
    BY <2>1, Serving DEF Request, Steps
  <2>4. req' \in [Handlers -> Request \cup {Idle}]
    <3>1. CASE req[p].op = "callback"
      <4>1. req' = [req EXCEPT ![p] = [req[p] EXCEPT !.at = "admit"]]
        BY <1>13, <3>1 DEF deleteCredential, Goto
      <4>. QED  BY <2>3, <3>1, <4>1 DEF TypeOK
    <3>2. CASE req[p].op = "verify" /\ req[p].row # Gone
      <4>1. Goto(p, "record") /\ req[p].email \in Emails
        BY <1>13, <2>1, <3>2, Serving DEF deleteCredential
      <4>. QED  BY <2>1, <4>1, StepTyped DEF Steps
    <3>3. CASE req[p].op # "callback" /\ ~(req[p].op = "verify" /\ req[p].row # Gone)
      BY <1>13, <2>1, <3>3, StepTyped DEF deleteCredential
    <3>. QED  BY <3>1, <3>2, <3>3
  <2>5. faults' \in 0 .. scenario'.faults
    <3>1. (Fault \/ UNCHANGED faults) /\ UNCHANGED scenario
      BY <1>13 DEF deleteCredential
    <3>. QED  BY <2>1, <3>1, StepTyped DEF TypeOK
  <2>6. forked' \subseteq Serials
    <3>1. forked' = forked \/ forked' = forked \cup {req[p].root}
      BY <1>13 DEF deleteCredential
    <3>. QED  BY <2>1, <3>1, Serving DEF TypeOK
  <2>. QED  BY <1>13, <2>2, <2>4, <2>5, <2>6 DEF deleteCredential, TypeOK
<1>. QED
  BY <1>1, <1>2, <1>3, <1>4, <1>5, <1>6, <1>7, <1>8, <1>9, <1>10, <1>11, <1>12, <1>13
  DEF Serve

\* So do the clean-up, time and crashes.
LEMMA WorldTyped ==
  ASSUME TypeOK, Cleanup \/ Tick \/ Crash
  PROVE  TypeOK'
<1>1. CASE Cleanup
  <2>1. users' \in [Emails -> Row \cup {Gone}]
    <3>1. ASSUME NEW e \in Released
          PROVE  [users[e] EXCEPT !.disabled = FALSE, !.ban = 0] \in Row
      <4>1. users[e] \in Row /\ users[e].disabled
        BY <3>1 DEF Released, TypeOK, Gone
      <4>. QED  BY <4>1 DEF Row
    <3>2. \/ users' = users
          \/ users' = [e \in Emails |->
                         IF e \in Released
                         THEN [users[e] EXCEPT !.disabled = FALSE, !.ban = 0]
                         ELSE users[e]]
      BY <1>1 DEF Cleanup, enableUsersWithExpiredBan
    <3>3. users \in [Emails -> Row \cup {Gone}]
      BY DEF TypeOK
    <3>4. CASE users' = users
      BY <3>3, <3>4
    <3>5. CASE users' # users
      <4>1. \A e \in Emails : (IF e \in Released
                              THEN [users[e] EXCEPT !.disabled = FALSE, !.ban = 0]
                              ELSE users[e]) \in Row \cup {Gone}
        BY <3>1, <3>3
      <4>. QED  BY <3>2, <3>5, <4>1
    <3>. QED  BY <3>4, <3>5
  <2>2. creds' \in [Serials -> Cred \cup {Unused}]
    BY <1>1 DEF Cleanup, DeleteExpired, TypeOK
  <2>3. scenario.faults \in Nat
    BY Bounds DEF TypeOK
  <2>4. faults' \in 0 .. scenario'.faults
    BY <1>1, <2>3 DEF Cleanup, Fault, TypeOK
  <2>5. pardoned' \subseteq (Emails \cup {NoEmail}) \X Nat
    <3>1. \A e \in Emails : users[e].id \in Nat
      BY Bounds DEF TypeOK, Row, Gone, Serials
    <3>2. pardoned' \subseteq pardoned \cup {<<e, users[e].id>> : e \in Emails}
      <4>1. \A e \in Released : <<e, users[e].id>> \in {<<f, users[f].id>> : f \in Emails}
        BY DEF Released
      <4>2. \/ pardoned' = pardoned
            \/ pardoned' = pardoned \cup {<<e, users[e].id>> : e \in Released}
        BY <1>1 DEF Cleanup, enableUsersWithExpiredBan
      <4>. QED  BY <4>1, <4>2
    <3>. QED  BY <3>1, <3>2 DEF TypeOK
  <2>6. sweeper' \in {"states", "tokens", "bans"}
    BY <1>1 DEF Cleanup
  <2>. QED  BY <1>1, <2>1, <2>2, <2>4, <2>5, <2>6 DEF Cleanup, TypeOK
<1>2. CASE Tick
  BY <1>2 DEF Tick, TypeOK
<1>3. CASE Crash
  <2>1. scenario.faults \in Nat
    BY Bounds DEF TypeOK
  <2>2. faults' \in 0 .. scenario'.faults
    BY <1>3, <2>1 DEF Crash, Fault, TypeOK
  <2>3. forked' \subseteq Serials
    BY <1>3, Serving DEF Crash, TypeOK
  <2>4. pardoned' \subseteq (Emails \cup {NoEmail}) \X Nat
    BY <1>3, AccountTyped DEF Crash, TypeOK
  <2>. QED  BY <1>3, <2>2, <2>3, <2>4 DEF Crash, TypeOK
<1>. QED  BY <1>1, <1>2, <1>3

\* Every behaviour is well typed: what a handler keeps of a user over its
\* statements is always a row that could be written back.
THEOREM TypeCorrect == Spec => []TypeOK
<1>1. TypeOK /\ [Next]_vars => TypeOK'
  <2>1. TypeOK /\ Next => TypeOK'
    BY ArriveTyped, ServeTyped, WorldTyped DEF Next
  <2>2. TypeOK /\ UNCHANGED vars => TypeOK'
    BY DEF TypeOK, vars
  <2>. QED  BY <2>1, <2>2
<1>. QED  BY <1>1, TypeInit, PTL DEF Spec

----------------------------------------------------------------------------
(* What a step does to the handlers.                                       *)

\* A step of p leaves the other handlers alone; p is done, or goes on with the same
\* request at one of the given steps.
Keeps(p, steps) ==
  /\ \A q \in Handlers \ {p} : req'[q] = req[q]
  /\ \/ req'[p] = Idle
     \/ /\ req'[p].at \in steps /\ req'[p].op = req[p].op
        /\ req'[p].serial = req[p].serial /\ req'[p].cred = req[p].cred
        /\ req'[p].root = req[p].root

\* Moving on keeps the request, and returning ends it.
LEMMA MoveKeeps ==
  ASSUME TypeOK, NEW p \in Handlers, req[p].at # "idle"
  PROVE  /\ \A s : Goto(p, s) => Keeps(p, {s})
         /\ Return(p) => Keeps(p, {})
         /\ Proceed(p) => Keeps(p, {"issue"})
<1>1. \A s : Goto(p, s) => Keeps(p, {s})
  <2>1. req \in [Handlers -> Request \cup {Idle}] /\ req[p] \in Request
    BY Serving DEF TypeOK
  <2>. QED  BY <2>1 DEF Goto, Keeps, Request
<1>2. Return(p) => Keeps(p, {})
  BY DEF TypeOK, Return, Keeps
<1>3. Proceed(p) => Keeps(p, {"issue"})
  BY <1>1, <1>2 DEF Proceed, Keeps
<1>. QED  BY <1>1, <1>2, <1>3

\* Where each step leads.
LEMMA ServeKeeps ==
  ASSUME TypeOK, NEW p \in Handlers
  PROVE  /\ RecordLoginAttempt(p) => Keeps(p, {"lastSuccess", "issue"})
         /\ readLastSuccess(p) => Keeps(p, {"count"})
         /\ checkBanUser(p) => Keeps(p, {"write", "issue"}) /\ req[p].at = "count"
         /\ Update(p) => Keeps(p, {"issue", "discard"})
         /\ Delete(p) => Keeps(p, {})
         /\ checkLimit(p) => Keeps(p, {"insert"})
         /\ Create(p) => Keeps(p, {"discard"})
         /\ getUser(p) => Keeps(p, {"write", "issue"})
         /\ findUser(p) => Keeps(p, {"limit", "discard"})
         /\ admit(p) => Keeps(p, {"open"})
         /\ createAuthState(p) => Keeps(p, {})
         /\ createRefreshToken(p) => Keeps(p, {"discard"})
         /\ deleteCredential(p) => Keeps(p, {"admit", "record"})
<1>0. ASSUME NEW x, req[p] \in Request, req' = [req EXCEPT ![p] = x],
             x.op = req[p].op, x.serial = req[p].serial, x.cred = req[p].cred,
             x.root = req[p].root
      PROVE  Keeps(p, {x.at})
  <2>1. req \in [Handlers -> Request \cup {Idle}]
    BY DEF TypeOK
  <2>. QED  BY <1>0, <2>1 DEF Keeps
<1>. DEFINE busy == req[p].at # "idle"
<1>a. busy => req[p] \in Request
  BY Serving
<1>1. ASSUME RecordLoginAttempt(p) PROVE Keeps(p, {"lastSuccess", "issue"})
  <2>1. busy /\ (Goto(p, "lastSuccess") \/ Proceed(p))
    BY <1>1 DEF RecordLoginAttempt
  <2>. QED  BY <2>1, MoveKeeps DEF Keeps
<1>2. ASSUME readLastSuccess(p) PROVE Keeps(p, {"count"})
  <2>. DEFINE m == LastSuccess(req[p].email, req[p].row.id)
              x == [req[p] EXCEPT !.at = "count", !.mark = m]
  <2>1. busy /\ (req' = [req EXCEPT ![p] = x] \/ Goto(p, "count"))
    BY <1>2 DEF readLastSuccess
  <2>2. busy => /\ x.op = req[p].op /\ x.serial = req[p].serial
                /\ x.cred = req[p].cred /\ x.root = req[p].root /\ x.at = "count"
    BY <1>a DEF Request
  <2>. HIDE DEF x
  <2>. QED  BY <1>0, <1>a, <2>1, <2>2, MoveKeeps
<1>3. ASSUME checkBanUser(p) PROVE Keeps(p, {"write", "issue"}) /\ req[p].at = "count"
  <2>1. req[p].at = "count" /\ (Goto(p, "write") \/ Proceed(p))
    BY <1>3 DEF checkBanUser
  <2>. QED  BY <2>1, MoveKeeps DEF Keeps
<1>4. ASSUME Update(p) PROVE Keeps(p, {"issue", "discard"})
  <2>1. busy /\ (Goto(p, "discard") \/ Proceed(p) \/ Return(p))
    BY <1>4 DEF Update
  <2>. QED  BY <2>1, MoveKeeps DEF Keeps
<1>5. ASSUME Delete(p) PROVE Keeps(p, {})
  BY <1>5, MoveKeeps DEF Delete
<1>6. ASSUME checkLimit(p) PROVE Keeps(p, {"insert"})
  <2>1. busy /\ (Goto(p, "insert") \/ Return(p))
    BY <1>6 DEF checkLimit
  <2>. QED  BY <2>1, MoveKeeps DEF Keeps
<1>7. ASSUME Create(p) PROVE Keeps(p, {"discard"})
  <2>. DEFINE new == [Gone EXCEPT !.id = req[p].serial, !.pw = req[p].pw]
              X(row) == [req[p] EXCEPT !.at = "discard", !.row = row]
  <2>. HIDE DEF new
  <2>1. busy /\ (Return(p) \/ \E row \in {new, Gone} : req' = [req EXCEPT ![p] = X(row)])
    <3>1. \/ \E row \in {new, Gone} :
               req' = [req EXCEPT ![p] = [req[p] EXCEPT !.at = "discard", !.row = row]]
          \/ Return(p)
      BY <1>7 DEF Create, new
    <3>2. busy
      BY <1>7 DEF Create
    <3>. QED  BY <3>1, <3>2
  <2>2. busy => \A row : /\ X(row).op = req[p].op /\ X(row).serial = req[p].serial
                         /\ X(row).cred = req[p].cred /\ X(row).root = req[p].root
                         /\ X(row).at = "discard"
    BY <1>a DEF Request
  <2>. HIDE DEF X
  <2>3. CASE Return(p)
    BY <2>1, <2>3, MoveKeeps DEF Keeps
  <2>4. CASE \E row : req' = [req EXCEPT ![p] = X(row)]
    BY <1>0, <1>a, <2>1, <2>2, <2>4
  <2>. QED  BY <2>1, <2>3, <2>4
<1>8. ASSUME getUser(p) PROVE Keeps(p, {"write", "issue"})
  <2>. DEFINE X(s) == [req[p] EXCEPT !.at = s, !.row = users[req[p].email]]
  <2>1. busy /\ (Return(p) \/ \E s \in {"write", "issue"} : req' = [req EXCEPT ![p] = X(s)])
    BY <1>8 DEF getUser
  <2>2. busy => \A s : /\ X(s).op = req[p].op /\ X(s).serial = req[p].serial
                       /\ X(s).cred = req[p].cred /\ X(s).root = req[p].root
                       /\ X(s).at = s
    BY <1>a DEF Request
  <2>. HIDE DEF X
  <2>3. CASE Return(p)
    BY <2>1, <2>3, MoveKeeps DEF Keeps
  <2>4. ASSUME NEW s \in {"write", "issue"}, req' = [req EXCEPT ![p] = X(s)]
        PROVE  Keeps(p, {"write", "issue"})
    <3>1. Keeps(p, {s})
      BY <1>0, <1>a, <2>1, <2>2, <2>4
    <3>. QED  BY <3>1 DEF Keeps
  <2>. QED  BY <2>1, <2>3, <2>4
<1>9. ASSUME findUser(p) PROVE Keeps(p, {"limit", "discard"})
  <2>. DEFINE x == [req[p] EXCEPT !.at = "discard", !.row = users[req[p].email]]
  <2>1. busy /\ (Return(p) \/ Goto(p, "limit") \/ req' = [req EXCEPT ![p] = x])
    BY <1>9 DEF findUser
  <2>2. busy => /\ x.op = req[p].op /\ x.serial = req[p].serial
                /\ x.cred = req[p].cred /\ x.root = req[p].root /\ x.at = "discard"
    BY <1>a DEF Request
  <2>. HIDE DEF x
  <2>3. CASE Return(p) \/ Goto(p, "limit")
    BY <2>1, <2>3, MoveKeeps DEF Keeps
  <2>4. CASE req' = [req EXCEPT ![p] = x]
    <3>1. Keeps(p, {"discard"})
      BY <1>0, <1>a, <2>1, <2>2, <2>4
    <3>. QED  BY <3>1 DEF Keeps
  <2>. QED  BY <2>1, <2>3, <2>4
<1>10. ASSUME admit(p) PROVE Keeps(p, {"open"})
  <2>. DEFINE X(e) == [req[p] EXCEPT !.at = "open", !.email = e]
  <2>1. busy /\ (Return(p) \/ \E e : req' = [req EXCEPT ![p] = X(e)])
    <3>1. \/ Return(p)
          \/ \E e \in scenario.emails :
               req' = [req EXCEPT ![p] = [req[p] EXCEPT !.at = "open", !.email = e]]
      BY <1>10 DEF admit
    <3>2. busy
      BY <1>10 DEF admit
    <3>. QED  BY <3>1, <3>2
  <2>2. busy => \A e : /\ X(e).op = req[p].op /\ X(e).serial = req[p].serial
                       /\ X(e).cred = req[p].cred /\ X(e).root = req[p].root
                       /\ X(e).at = "open"
    BY <1>a DEF Request
  <2>. HIDE DEF X
  <2>3. CASE Return(p)
    BY <2>1, <2>3, MoveKeeps DEF Keeps
  <2>4. CASE \E e : req' = [req EXCEPT ![p] = X(e)]
    BY <1>0, <1>a, <2>1, <2>2, <2>4
  <2>. QED  BY <2>1, <2>3, <2>4
<1>11. ASSUME createAuthState(p) PROVE Keeps(p, {})
  BY <1>11, MoveKeeps DEF createAuthState
<1>12. ASSUME createRefreshToken(p) PROVE Keeps(p, {"discard"})
  <2>. DEFINE x == [req[p] EXCEPT !.at = "discard", !.mark = req[p].serial]
  <2>1. busy /\ (Return(p) \/ req' = [req EXCEPT ![p] = x])
    BY <1>12 DEF createRefreshToken
  <2>2. busy => /\ x.op = req[p].op /\ x.serial = req[p].serial
                /\ x.cred = req[p].cred /\ x.root = req[p].root /\ x.at = "discard"
    BY <1>a DEF Request
  <2>. HIDE DEF x
  <2>3. CASE Return(p)
    BY <2>1, <2>3, MoveKeeps DEF Keeps
  <2>4. CASE req' = [req EXCEPT ![p] = x]
    BY <1>0, <1>a, <2>1, <2>2, <2>4
  <2>. QED  BY <2>1, <2>3, <2>4
<1>13. ASSUME deleteCredential(p) PROVE Keeps(p, {"admit", "record"})
  <2>1. busy /\ (Goto(p, "admit") \/ Goto(p, "record") \/ Return(p))
    BY <1>13 DEF deleteCredential
  <2>. QED  BY <2>1, MoveKeeps DEF Keeps
<1>. QED
  BY <1>1, <1>2, <1>3, <1>4, <1>5, <1>6, <1>7, <1>8, <1>9, <1>10, <1>11, <1>12, <1>13

----------------------------------------------------------------------------
(* The limit on users.                                                     *)

Existing == {e \in Emails : Exists(e)}
Inserting == {p \in Handlers : req[p].at = "insert"}

\* Every handler that has found a seat counts as if it had taken it.
SeatInv ==
  GetCount + Cardinality(Inserting) < MaxUsers + Cardinality(Handlers) + faults

\* Failures are counted, and not forgotten.
LEMMA FaultsAdd ==
  ASSUME TypeOK, Next
  PROVE  /\ faults \in Nat
         /\ faults' = faults \/ faults' = faults + 1
<1>1. faults \in Nat
  BY Bounds DEF TypeOK
<1>2. ASSUME NEW p \in Handlers, Arrive(p) PROVE faults' = faults
  BY <1>2, ArriveBegins DEF Begin
<1>3. ASSUME NEW p \in Handlers, Serve(p) PROVE faults' = faults \/ faults' = faults + 1
  BY <1>3 DEF Serve, Fault, RecordLoginAttempt, readLastSuccess, checkBanUser, Update, Delete,
     checkLimit, Create, getUser, findUser, admit, createAuthState, createRefreshToken, Insert,
     deleteCredential
<1>4. ASSUME Cleanup \/ Tick \/ Crash PROVE faults' = faults \/ faults' = faults + 1
  BY <1>4 DEF Cleanup, Tick, Crash, Fault
<1>. QED  BY <1>1, <1>2, <1>3, <1>4 DEF Next

\* The sets that are counted are finite.
LEMMA Counts ==
  /\ IsFiniteSet(Existing) /\ IsFiniteSet(Inserting)
  /\ GetCount = Cardinality(Existing) /\ GetCount \in Nat
  /\ Cardinality(Inserting) \in Nat /\ Cardinality(Handlers) \in Nat
  /\ Cardinality(Inserting) <= Cardinality(Handlers)
<1>1. Existing \subseteq Emails /\ Inserting \subseteq Handlers
  BY DEF Existing, Inserting
<1>2. IsFiniteSet(Existing) /\ IsFiniteSet(Inserting)
      /\ Cardinality(Inserting) <= Cardinality(Handlers)
  BY <1>1, FS_Subset, AccountsAssumption
<1>3. GetCount = Cardinality(Existing)
  BY DEF GetCount, Existing
<1>. QED  BY <1>2, <1>3, FS_CardinalityType, AccountsAssumption

\* Create adds its user at most.
LEMMA CreateAppears ==
  ASSUME TypeOK, NEW p \in Handlers, Create(p)
  PROVE  Existing' \subseteq Existing \cup {req[p].email}
<1>1. \/ users' = users
      \/ users' = [users EXCEPT ![req[p].email] =
                     [Gone EXCEPT !.id = req[p].serial, !.pw = req[p].pw]]
  BY DEF Create
<1>. QED  BY <1>1 DEF Existing, Exists, TypeOK

\* Users appear by Create only.
LEMMA UsersAppear ==
  ASSUME TypeOK, Next
  PROVE  \/ Existing' \subseteq Existing
         \/ \E p \in Handlers : Create(p) /\ Existing' \subseteq Existing \cup {req[p].email}
<1>0. users \in [Emails -> Row \cup {Gone}] /\ Gone \notin Row
  BY Bounds DEF TypeOK, Gone, Row, Serials
<1>1. ASSUME NEW p \in Handlers, Arrive(p) PROVE Existing' \subseteq Existing
  BY <1>1, ArriveBegins DEF Begin, Existing, Exists
<1>2. ASSUME NEW p \in Handlers, Serve(p), ~Create(p) PROVE Existing' \subseteq Existing
  <2>1. CASE Update(p)
    <3>1. \/ users' = users
          \/ /\ HasId(req[p].email, req[p].row.id)
             /\ users' = [users EXCEPT ![req[p].email] = Written(p)]
      BY <2>1 DEF Update
    <3>. QED  BY <1>0, <3>1 DEF Existing, Exists, HasId
  <2>2. CASE Delete(p)
    BY <1>0, <2>2 DEF Delete, Existing, Exists
  <2>3. CASE ~Update(p) /\ ~Delete(p)
    <3>1. users' = users
      BY <1>2, <2>3 DEF Serve, RecordLoginAttempt, readLastSuccess, checkBanUser,
         checkLimit, getUser, findUser, admit, createAuthState, createRefreshToken,
         deleteCredential
    <3>. QED  BY <3>1 DEF Existing, Exists
  <2>. QED  BY <2>1, <2>2, <2>3
<1>3. ASSUME NEW p \in Handlers, Create(p)
      PROVE  Existing' \subseteq Existing \cup {req[p].email}
  BY <1>3, CreateAppears
<1>4. ASSUME Cleanup PROVE Existing' \subseteq Existing
  <2>1. \/ users' = users
        \/ users' = [e \in Emails |->
                       IF e \in Released
                       THEN [users[e] EXCEPT !.disabled = FALSE, !.ban = 0]
                       ELSE users[e]]
    BY <1>4 DEF Cleanup, enableUsersWithExpiredBan
  <2>2. Released \subseteq Existing
    BY DEF Released, Existing, Exists, Gone
  <2>. QED  BY <1>0, <2>1, <2>2 DEF Existing, Exists
<1>5. ASSUME Tick \/ Crash PROVE Existing' \subseteq Existing
  BY <1>5 DEF Tick, Crash, Existing, Exists
<1>. QED  BY <1>1, <1>2, <1>3, <1>4, <1>5 DEF Next

\* A handler comes to insert by finding a seat or by a failure to count them, and
\* leaves with the insertion.
LEMMA InsertersAppear ==
  ASSUME TypeOK, Next
  PROVE  \/ Inserting' \subseteq Inserting
         \/ canCreateUser /\ UNCHANGED users
         \/ \E p \in Handlers : /\ Inserting' \subseteq Inserting \cup {p}
                               /\ faults' = faults + 1
<1>1. ASSUME NEW p \in Handlers, Arrive(p) PROVE Inserting' \subseteq Inserting
  <2>1. PICK r \in Fresh : Begin(p, r)
    BY <1>1, ArriveBegins
  <2>2. r.at # "insert"
    BY DEF Fresh, FirstSteps
  <2>3. \A q \in Handlers : req'[q].at = "insert" => req[q].at = "insert"
    BY <2>1, <2>2 DEF Begin, TypeOK, Fresh
  <2>. QED  BY <2>3 DEF Inserting
<1>2. ASSUME NEW p \in Handlers, Serve(p), ~checkLimit(p)
      PROVE  Inserting' \subseteq Inserting
  <2>1. \E steps : Keeps(p, steps) /\ "insert" \notin steps
    BY <1>2, ServeKeeps DEF Serve
  <2>2. \A q \in Handlers : req'[q].at = "insert" => req[q].at = "insert"
    BY <2>1 DEF Keeps, Idle
  <2>. QED  BY <2>2 DEF Inserting
<1>3. ASSUME NEW p \in Handlers, checkLimit(p)
      PROVE  \/ Inserting' \subseteq Inserting
             \/ canCreateUser /\ UNCHANGED users
             \/ Inserting' \subseteq Inserting \cup {p} /\ faults' = faults + 1
  <2>1. CASE canCreateUser /\ UNCHANGED faults
    BY <1>3, <2>1 DEF checkLimit
  <2>2. CASE Return(p)
    <3>1. req[p].at # "idle"
      BY <1>3 DEF checkLimit
    <3>2. \A q \in Handlers : req'[q].at = "insert" => req[q].at = "insert"
      BY <2>2, <3>1, MoveKeeps DEF Keeps, Idle
    <3>. QED  BY <3>2 DEF Inserting
  <2>3. CASE Fault /\ Goto(p, "insert")
    <3>1. \A q \in Handlers \ {p} : req'[q] = req[q]
      BY <2>3 DEF Goto, TypeOK
    <3>2. Inserting' \subseteq Inserting \cup {p}
      BY <3>1 DEF Inserting
    <3>. QED  BY <2>3, <3>2 DEF Fault
  <2>. QED  BY <1>3, <2>1, <2>2, <2>3 DEF checkLimit
<1>4. ASSUME Cleanup \/ Tick \/ Crash PROVE Inserting' \subseteq Inserting
  BY <1>4 DEF Cleanup, Tick, Crash, Inserting, Idle
<1>. QED  BY <1>1, <1>2, <1>3, <1>4 DEF Next

\* No step takes a seat too many.
LEMMA SeatStep ==
  ASSUME TypeOK, SeatInv, Next
  PROVE  SeatInv'
<1>. DEFINE N == Cardinality(Existing)
            M == Cardinality(Inserting)
            H == Cardinality(Handlers)
            F == faults
<1>0. IsFiniteSet(Existing) /\ IsFiniteSet(Inserting)
  BY Counts
<1>1. /\ N + M < MaxUsers + H + F
      /\ N \in Nat /\ M \in Nat /\ H \in Nat /\ F \in Nat /\ MaxUsers \in Nat
      /\ F' = F \/ F' = F + 1
  BY Counts, Bounds, FaultsAdd DEF SeatInv
<1>2. /\ N' \in Nat /\ M' \in Nat /\ M' <= H
      /\ N' + M' < MaxUsers + H + F' => SeatInv'
  <2>1. Existing' \subseteq Emails /\ Inserting' \subseteq Handlers
    BY DEF Existing, Inserting
  <2>2. IsFiniteSet(Existing') /\ IsFiniteSet(Inserting') /\ M' <= H
    BY <2>1, FS_Subset, AccountsAssumption
  <2>3. GetCount' = N'
    BY DEF GetCount, Existing
  <2>. QED  BY <2>2, <2>3, FS_CardinalityType DEF SeatInv
<1>3. ASSUME Existing' \subseteq Existing PROVE N' <= N
  BY <1>0, <1>3, FS_Subset
<1>4. ASSUME Inserting' \subseteq Inserting PROVE M' <= M
  BY <1>0, <1>4, FS_Subset
<1>5. CASE \E p \in Handlers : Create(p)
  <2>1. PICK p \in Handlers : Create(p)
    BY <1>5
  <2>2. Existing' \subseteq Existing \cup {req[p].email}
    BY <2>1, CreateAppears
  <2>3. N' <= N + 1
    <3>. DEFINE E == Existing \cup {req[p].email}
    <3>1. IsFiniteSet(E) /\ (Cardinality(E) = N \/ Cardinality(E) = N + 1)
      BY <1>0, FS_AddElement
    <3>2. N' <= Cardinality(E)
      BY <2>2, <3>1, FS_Subset
    <3>. HIDE DEF E
    <3>. QED  BY <1>1, <1>2, <3>1, <3>2
  <2>4. M' <= M - 1
    <3>1. p \in Inserting
      BY <2>1 DEF Create, Inserting
    <3>2. Inserting' \subseteq Inserting \ {p}
      BY <2>1, ServeKeeps DEF Keeps, Inserting, Idle
    <3>3. IsFiniteSet(Inserting \ {p}) /\ Cardinality(Inserting \ {p}) = M - 1
      BY <1>0, <3>1, FS_RemoveElement
    <3>. QED  BY <3>2, <3>3, FS_Subset
  <2>5. N' + M' < MaxUsers + H + F'
    BY <1>1, <1>2, <2>3, <2>4
  <2>. QED  BY <1>2, <2>5
<1>6. CASE ~\E p \in Handlers : Create(p)
  <2>1. N' <= N
    BY <1>3, <1>6, UsersAppear
  <2>2. CASE Inserting' \subseteq Inserting
    <3>1. M' <= M
      BY <1>4, <2>2
    <3>2. N' + M' < MaxUsers + H + F'
      BY <1>1, <1>2, <2>1, <3>1
    <3>. QED  BY <1>2, <3>2
  <2>3. CASE canCreateUser /\ UNCHANGED users
    <3>1. N < MaxUsers
      BY <2>3, Counts DEF canCreateUser
    <3>2. N' + M' < MaxUsers + H + F'
      BY <1>1, <1>2, <2>1, <3>1
    <3>. QED  BY <1>2, <3>2
  <2>4. ASSUME NEW p \in Handlers, Inserting' \subseteq Inserting \cup {p}, F' = F + 1
        PROVE  SeatInv'
    <3>. DEFINE I == Inserting \cup {p}
    <3>1. IsFiniteSet(I) /\ (Cardinality(I) = M \/ Cardinality(I) = M + 1)
      BY <1>0, FS_AddElement
    <3>2. M' <= Cardinality(I)
      BY <2>4, <3>1, FS_Subset
    <3>. HIDE DEF I
    <3>3. M' <= M + 1
      BY <1>1, <1>2, <3>1, <3>2
    <3>4. N' + M' < MaxUsers + H + F'
      BY <1>1, <1>2, <2>1, <2>4, <3>3
    <3>. QED  BY <1>2, <3>4
  <2>. QED  BY <2>2, <2>3, <2>4, InsertersAppear
<1>. QED  BY <1>5, <1>6

\* The limit is exceeded by the handlers but one, and the failures so far, at most.
THEOREM UserLimitHolds == Spec => []UserLimit
<1>. DEFINE Sold == \A f \in Populations : Cardinality(DOMAIN f) <= MaxUsers
            Inv == Sold => SeatInv
<1>1. Init => Inv
  <2>. SUFFICES ASSUME Init, Sold PROVE SeatInv
    OBVIOUS
  <2>1. PICK f \in Populations :
          users = [e \in Emails |->
                     IF e \in DOMAIN f
                     THEN [Gone EXCEPT !.id = MaxRequests + 1, !.pw = f[e]] ELSE Gone]
    BY DEF Init
  <2>2. Existing \subseteq DOMAIN f
    BY <2>1 DEF Existing, Exists
  <2>3. IsFiniteSet(DOMAIN f) /\ Cardinality(DOMAIN f) <= MaxUsers
    BY FS_Subset, AccountsAssumption
  <2>4. Cardinality(Existing) <= MaxUsers
    BY <2>2, <2>3, Counts, Bounds, FS_Subset, FS_CardinalityType
  <2>5. Cardinality(Inserting) = 0
    <3>1. Inserting = {}
      BY DEF Init, Inserting, Idle
    <3>. QED  BY <3>1, FS_EmptySet
  <2>6. Cardinality(Handlers) > 0
    BY Counts, FS_EmptySet, AccountsAssumption
  <2>7. faults = 0
    BY DEF Init
  <2>. QED  BY <2>4, <2>5, <2>6, <2>7, Counts, Bounds DEF SeatInv
<1>2. TypeOK /\ Inv /\ [Next]_vars => Inv'
  <2>1. TypeOK /\ SeatInv /\ Next => SeatInv'
    BY SeatStep
  <2>2. SeatInv /\ UNCHANGED vars => SeatInv'
    BY DEF SeatInv, GetCount, Exists, Inserting, vars
  <2>. QED  BY <2>1, <2>2
<1>3. TypeOK /\ Inv => UserLimit
  BY Counts, Bounds DEF SeatInv, UserLimit, TypeOK
<1>. QED  BY <1>1, <1>2, <1>3, TypeCorrect, PTL DEF Spec

----------------------------------------------------------------------------
(* A reset mail works once.                                                *)

\* Requests have numbers of their own.
Numbered ==
  \A p, q \in Handlers :
    /\ req[p].serial <= serial
    /\ req[p].serial = req[q].serial /\ req[p].serial # 0 => p = q

\* A reset goes back to the request that created its state.
Paths ==
  \A p \in Handlers :
    /\ req[p].at = "open" => req[p].op \in {"login", "callback", "initReset"}
    /\ req[p].at = "admit" => req[p].op = "callback"
    /\ req[p].op = "initReset" => req[p].root = req[p].serial
    /\ req[p].op = "completeReset" => /\ req[p].at \in {"account", "write", "discard"}
                                      /\ req[p].cred \in Serials
                                      /\ req[p].root = req[p].cred

\* Handler p is resetting a password with state f.
Resetting(p, f) == req[p].op = "completeReset" /\ req[p].cred = f

\* Request f is over: nobody will insert a state with its number any more.
Settled(f) == f <= serial /\ \A q \in Handlers : req[q].serial # f

ResetsSettled ==
  /\ \A c \in Serials : creds[c].kind = "reset" => creds[c].root = c /\ Settled(c)
  /\ \A p \in Handlers, f \in Serials : Resetting(p, f) => Settled(f)
  /\ \A f \in spent : Settled(f)

\* Two requests with the same mail fork it; and once a mail that is not forked has
\* been used, its state is gone, or about to be deleted by the one that used it.
ResetsAlone ==
  \A p, q \in Handlers, f \in Serials :
    Resetting(p, f) /\ Resetting(q, f) /\ p # q => f \in forked
ResetsUsed ==
  \A f \in spent \ forked :
    /\ \A p \in Handlers : Resetting(p, f) => req[p].at = "discard"
    /\ creds[f].kind = "reset" => \E p \in Handlers : Resetting(p, f)

ResetInv == Numbered /\ Paths /\ ResetsSettled /\ ResetsAlone /\ ResetsUsed

\* A step of no arriving request starts none: a handler keeps its request or drops it.
Same(q) == /\ req'[q].op = req[q].op /\ req'[q].serial = req[q].serial
           /\ req'[q].cred = req[q].cred /\ req'[q].root = req[q].root

LEMMA OtherSteps ==
  ASSUME TypeOK, (\E p \in Handlers : Serve(p)) \/ Cleanup \/ Tick \/ Crash
  PROVE  /\ serial' = serial /\ forked \subseteq forked'
         /\ \A q \in Handlers : req'[q] = Idle \/ Same(q)
<1>1. ASSUME NEW p \in Handlers, Serve(p)
      PROVE  \A q \in Handlers : req'[q] = Idle \/ Same(q)
  <2>1. \E steps : Keeps(p, steps)
    BY <1>1, ServeKeeps DEF Serve
  <2>. QED  BY <2>1 DEF Keeps, Same
<1>2. ASSUME NEW p \in Handlers, Serve(p)
      PROVE  serial' = serial /\ forked \subseteq forked'
  BY <1>2 DEF Serve, RecordLoginAttempt, readLastSuccess, checkBanUser, Update, Delete,
     checkLimit, Create, getUser, findUser, admit, createAuthState, createRefreshToken,
     deleteCredential
<1>3. ASSUME Cleanup \/ Tick
      PROVE  /\ serial' = serial /\ forked \subseteq forked'
             /\ \A q \in Handlers : req'[q] = Idle \/ Same(q)
  BY <1>3 DEF Cleanup, Tick, Same
<1>4. ASSUME Crash
      PROVE  /\ serial' = serial /\ forked \subseteq forked'
             /\ \A q \in Handlers : req'[q] = Idle \/ Same(q)
  BY <1>4 DEF Crash
<1>. QED  BY <1>1, <1>2, <1>3, <1>4

\* What an arriving request does to handlers and history.
LEMMA Arrival ==
  ASSUME TypeOK, NEW p \in Handlers, NEW r \in Fresh, Begin(p, r)
  PROVE  /\ req[p].at = "idle" /\ serial' = serial + 1 /\ serial \in Nat
         /\ \A q \in Handlers \ {p} : req'[q] = req[q]
         /\ req'[p].serial = serial + 1 /\ req'[p].op = r.op /\ req'[p].at = r.at
         /\ req'[p].cred = r.cred
         /\ req'[p].root = IF r.root = 0 THEN serial + 1 ELSE r.root
         /\ forked \subseteq forked'
         /\ \A q \in Handlers \ {p} : r.cred # 0 /\ req[q].cred = r.cred => r.root \in forked'
         /\ UNCHANGED <<creds, spent>>
<1>1. req \in [Handlers -> Request \cup {Idle}] /\ serial \in Nat
  BY Bounds DEF TypeOK
<1>. QED  BY <1>1 DEF Begin, Fresh

\* Numbers stay apart.
LEMMA NumberedStep ==
  ASSUME TypeOK, Numbered, Next
  PROVE  Numbered'
<1>0. serial \in Nat /\ \A p \in Handlers : req[p].serial \in Nat
  <2>1. serial \in Nat
    BY Bounds DEF TypeOK
  <2>2. \A p \in Handlers : req[p] \in Request \/ req[p] = Idle
    BY DEF TypeOK
  <2>3. \A r \in Request : r.serial \in Nat
    BY Bounds DEF Request, Serials
  <2>. QED  BY <2>1, <2>2, <2>3 DEF Idle
<1>1. ASSUME NEW p \in Handlers, Arrive(p) PROVE Numbered'
  <2>1. PICK r \in Fresh : Begin(p, r)
    BY <1>1, ArriveBegins
  <2>2. /\ serial' = serial + 1 /\ req'[p].serial = serial + 1
        /\ \A q \in Handlers \ {p} : req'[q] = req[q]
    BY <2>1, Arrival
  <2>. QED  BY <1>0, <2>2 DEF Numbered
<1>2. ASSUME (\E p \in Handlers : Serve(p)) \/ Cleanup \/ Tick \/ Crash PROVE Numbered'
  <2>1. serial' = serial /\ \A q \in Handlers : req'[q].serial \in {0, req[q].serial}
    BY <1>2, OtherSteps DEF Same, Idle
  <2>. QED  BY <1>0, <2>1 DEF Numbered
<1>. QED  BY <1>1, <1>2 DEF Next

\* What is settled stays settled.
LEMMA SettledStays ==
  ASSUME TypeOK, Next, NEW f \in Serials, Settled(f)
  PROVE  Settled(f)'
<1>0. serial \in Nat /\ f \in Nat /\ f # 0
  BY Bounds DEF TypeOK, Serials
<1>1. ASSUME NEW p \in Handlers, Arrive(p) PROVE Settled(f)'
  <2>1. PICK r \in Fresh : Begin(p, r)
    BY <1>1, ArriveBegins
  <2>2. /\ serial' = serial + 1 /\ req'[p].serial = serial + 1
        /\ \A q \in Handlers \ {p} : req'[q] = req[q]
    BY <2>1, Arrival
  <2>. QED  BY <1>0, <2>2 DEF Settled
<1>2. ASSUME (\E p \in Handlers : Serve(p)) \/ Cleanup \/ Tick \/ Crash PROVE Settled(f)'
  <2>1. serial' = serial /\ \A q \in Handlers : req'[q].serial \in {0, req[q].serial}
    BY <1>2, OtherSteps DEF Same, Idle
  <2>. QED  BY <1>0, <2>1 DEF Settled
<1>. QED  BY <1>1, <1>2 DEF Next

\* The three steps of a reset.
LEMMA ResetServe ==
  ASSUME TypeOK, Paths, NEW p \in Handlers, Serve(p), req[p].op = "completeReset"
  PROVE  \/ getUser(p) /\ Keeps(p, {"write"})
         \/ Update(p) /\ Goto(p, "discard") /\ Keeps(p, {"discard"})
         \/ deleteCredential(p) /\ Keeps(p, {})
<1>1. req[p].at \in {"account", "write", "discard"}
  BY DEF Paths
<1>2. getUser(p) \/ Update(p) \/ deleteCredential(p)
  BY <1>1 DEF Serve, RecordLoginAttempt, readLastSuccess, checkBanUser, Delete,
     checkLimit, Create, findUser, admit, createAuthState, createRefreshToken
<1>3. CASE getUser(p)
  <2>1. Return(p) \/ req'[p].at = "write"
    <3>1. \/ Return(p)
          \/ req' = [req EXCEPT ![p] = [req[p] EXCEPT !.at = "write",
                                                    !.row = users[req[p].email]]]
      BY <1>3 DEF getUser
    <3>2. req \in [Handlers -> Request \cup {Idle}] /\ req[p] \in Request
      BY <1>1, Serving DEF TypeOK
    <3>. QED  BY <3>1, <3>2 DEF Request
  <2>. QED  BY <1>1, <1>3, <2>1, ServeKeeps, MoveKeeps DEF Keeps
<1>4. CASE Update(p)
  <2>1. Goto(p, "discard")
    BY <1>4 DEF Update, Bans
  <2>. QED  BY <1>1, <1>4, <2>1, MoveKeeps
<1>5. CASE deleteCredential(p)
  <2>1. Return(p)
    BY <1>5 DEF deleteCredential
  <2>. QED  BY <1>1, <1>5, <2>1, MoveKeeps
<1>. QED  BY <1>2, <1>3, <1>4, <1>5

\* Handlers keep to their paths.
LEMMA PathsStep ==
  ASSUME TypeOK, Paths, ResetsSettled, Next
  PROVE  Paths'
<1>1. ASSUME NEW p \in Handlers, Arrive(p) PROVE Paths'
  <2>1. PICK r \in Fresh : Begin(p, r) /\ Read(r)
    BY <1>1, ArriveBegins
  <2>2. /\ req'[p].serial = serial + 1 /\ req'[p].op = r.op /\ req'[p].at = r.at
        /\ req'[p].cred = r.cred
        /\ req'[p].root = IF r.root = 0 THEN serial + 1 ELSE r.root
        /\ \A q \in Handlers \ {p} : req'[q] = req[q]
    BY <2>1, Arrival
  <2>3. /\ r.at = "open" => r.op \in {"login", "initReset"} /\ r.root = 0
        /\ r.op = "initReset" => r.at = "open"
        /\ r.op = "completeReset" => r.at = "account" /\ r.at # "open"
        /\ r.at # "admit"
    BY DEF Fresh, FirstSteps
  <2>4. r.op = "completeReset" => r.cred \in Serials /\ r.root = r.cred /\ r.root # 0
    <3>1. 0 \notin Serials
      BY Bounds DEF Serials
    <3>. QED  BY <2>1, <3>1 DEF Read, ResetsSettled
  <2>. QED  BY <2>2, <2>3, <2>4 DEF Paths
<1>2. ASSUME NEW p \in Handlers, Serve(p) PROVE Paths'
  <2>1. /\ \A q \in Handlers \ {p} : req'[q] = req[q]
        /\ req'[p] = Idle \/ Same(p)
    BY <1>2, ServeKeeps DEF Serve, Keeps, Same
  <2>2. CASE req'[p] = Idle
    BY <2>1, <2>2 DEF Paths, Idle
  <2>3. CASE req'[p] # Idle /\ req[p].op = "completeReset"
    <3>1. req'[p].at \in {"write", "discard"} /\ Same(p)
      BY <1>2, <2>1, <2>3, ResetServe DEF Keeps
    <3>. QED  BY <2>1, <2>3, <3>1 DEF Paths, Same
  <2>4. CASE req'[p] # Idle /\ req[p].op # "completeReset"
    <3>1. req'[p].at = "open" => req[p].op = "callback"
      <4>1. CASE admit(p)
        BY <4>1 DEF admit, Paths
      <4>2. CASE ~admit(p)
        BY <1>2, <2>4, <4>2, ServeKeeps DEF Serve, Keeps
      <4>. QED  BY <4>1, <4>2
    <3>2. req'[p].at = "admit" => req[p].op = "callback"
      <4>1. CASE deleteCredential(p)
        BY <2>4, <4>1, MoveKeeps DEF deleteCredential, Keeps
      <4>2. CASE ~deleteCredential(p)
        BY <1>2, <2>4, <4>2, ServeKeeps DEF Serve, Keeps
      <4>. QED  BY <4>1, <4>2
    <3>. QED  BY <2>1, <2>4, <3>1, <3>2 DEF Paths, Same
  <2>. QED  BY <2>2, <2>3, <2>4
<1>3. ASSUME Cleanup \/ Tick \/ Crash PROVE Paths'
  BY <1>3 DEF Cleanup, Tick, Crash, Paths, Idle
<1>. QED  BY <1>1, <1>2, <1>3 DEF Next

\* New reset states are those of initPasswordReset.
LEMMA ResetStates ==
  ASSUME TypeOK, Paths, Next, NEW c \in Serials, creds'[c].kind = "reset"
  PROVE  \/ creds'[c] = creds[c]
         \/ \E p \in Handlers : /\ createAuthState(p) /\ req[p].op = "initReset"
                                /\ req[p].serial = c /\ creds'[c].root = req[p].root
<1>0. creds \in [Serials -> Cred \cup {Unused}] /\ Unused.kind # "reset"
  BY DEF TypeOK, Unused
<1>1. ASSUME NEW p \in Handlers, Arrive(p) PROVE creds'[c] = creds[c]
  BY <1>1, ArriveBegins, Arrival
<1>2. ASSUME NEW p \in Handlers, createAuthState(p)
      PROVE  \/ creds'[c] = creds[c]
             \/ /\ req[p].op = "initReset" /\ req[p].serial = c
                /\ creds'[c].root = req[p].root
  <2>1. PICK kind : /\ Insert(p, kind)
                    /\ kind = "reset" => req[p].op \notin {"login", "callback"}
    BY <1>2 DEF createAuthState
  <2>2. req[p].op \in {"login", "callback", "initReset"} /\ req[p].serial \in Serials
    BY <1>2, Serving DEF createAuthState, Paths
  <2>. QED  BY <1>0, <2>1, <2>2 DEF Insert
<1>3. ASSUME NEW p \in Handlers, createRefreshToken(p) PROVE creds'[c] = creds[c]
  <2>1. req[p].serial \in Serials
    BY <1>3, Serving DEF createRefreshToken
  <2>. QED  BY <1>0, <1>3, <2>1 DEF createRefreshToken, Insert
<1>4. ASSUME NEW p \in Handlers, deleteCredential(p) PROVE creds'[c] = creds[c]
  BY <1>0, <1>4 DEF deleteCredential
<1>5. ASSUME NEW p \in Handlers, Serve(p), ~createAuthState(p), ~createRefreshToken(p),
             ~deleteCredential(p)
      PROVE  creds'[c] = creds[c]
  BY <1>5 DEF Serve, RecordLoginAttempt, readLastSuccess, checkBanUser, Update, Delete,
     checkLimit, Create, getUser, findUser, admit
<1>6. ASSUME Cleanup PROVE creds'[c] = creds[c]
  BY <1>0, <1>6 DEF Cleanup, DeleteExpired
<1>7. ASSUME Tick \/ Crash PROVE creds'[c] = creds[c]
  BY <1>7 DEF Tick, Crash
<1>. QED  BY <1>1, <1>2, <1>3, <1>4, <1>5, <1>6, <1>7 DEF Next

\* A mail is used by the UPDATE of a completePasswordReset.
LEMMA Spending ==
  ASSUME Next, NEW f \in spent', f \notin spent
  PROVE  \E p \in Handlers : /\ Update(p) /\ req[p].op = "completeReset"
                             /\ req[p].root = f /\ spent' = spent \cup {f}
<1>1. ASSUME NEW p \in Handlers, Arrive(p) PROVE FALSE
  BY <1>1 DEF Arrive, loginPassword, login, callback, verify, refreshAccessToken,
     initPasswordReset, completePasswordReset, setPassword, update, delete, create, Begin
<1>2. ASSUME NEW p \in Handlers, Serve(p), ~Update(p) PROVE FALSE
  BY <1>2 DEF Serve, RecordLoginAttempt, readLastSuccess, checkBanUser, Delete,
     checkLimit, Create, getUser, findUser, admit, createAuthState, createRefreshToken,
     deleteCredential
<1>3. ASSUME NEW p \in Handlers, Update(p)
      PROVE  req[p].op = "completeReset" /\ req[p].root = f /\ spent' = spent \cup {f}
  BY <1>3 DEF Update
<1>4. ASSUME Cleanup \/ Tick \/ Crash PROVE FALSE
  BY <1>4 DEF Cleanup, Tick, Crash
<1>. QED  BY <1>1, <1>2, <1>3, <1>4 DEF Next

\* What is over stays over, and only handlers that are done leave a state behind.
LEMMA ResetsSettledStep ==
  ASSUME TypeOK, Numbered, Paths, ResetsSettled, Next
  PROVE  ResetsSettled'
<1>1. ASSUME NEW c \in Serials, creds'[c].kind = "reset"
      PROVE  creds'[c].root = c /\ Settled(c)'
  <2>1. CASE creds'[c] = creds[c]
    BY <1>1, <2>1, SettledStays DEF ResetsSettled
  <2>2. CASE creds'[c] # creds[c]
    <3>1. PICK p \in Handlers : /\ createAuthState(p) /\ req[p].op = "initReset"
                                /\ req[p].serial = c /\ creds'[c].root = req[p].root
      BY <1>1, <2>2, ResetStates
    <3>2. creds'[c].root = c
      BY <3>1 DEF Paths
    <3>3. c # 0
      BY Bounds DEF Serials
    <3>4. \A q \in Handlers \ {p} : req'[q].serial # c
      BY <3>1, <3>3, ServeKeeps DEF Keeps, Numbered
    <3>5. req'[p].serial # c
      BY <3>1, <3>3, ServeKeeps DEF Keeps, Idle
    <3>6. c <= serial'
      BY <3>1 DEF Numbered, createAuthState
    <3>. QED  BY <3>2, <3>4, <3>5, <3>6 DEF Settled
  <2>. QED  BY <2>1, <2>2
<1>2. ASSUME NEW q \in Handlers, NEW f \in Serials, Resetting(q, f)'
      PROVE  Settled(f)'
  <2>1. ASSUME NEW p \in Handlers, Arrive(p) PROVE Settled(f)
    <3>1. PICK r \in Fresh : Begin(p, r) /\ Read(r)
      BY <2>1, ArriveBegins
    <3>2. /\ req'[p].op = r.op /\ req'[p].cred = r.cred
          /\ q # p => req'[q] = req[q]
      BY <3>1, Arrival
    <3>3. CASE q = p
      <4>1. r.op = "completeReset" /\ r.cred = f
        BY <1>2, <3>2, <3>3 DEF Resetting
      <4>. QED  BY <3>1, <4>1 DEF Read, ResetsSettled
    <3>4. CASE q # p
      BY <1>2, <3>2, <3>4 DEF Resetting, ResetsSettled
    <3>. QED  BY <3>3, <3>4
  <2>2. ASSUME (\E p \in Handlers : Serve(p)) \/ Cleanup \/ Tick \/ Crash
        PROVE  Settled(f)
    <3>1. Same(q)
      BY <1>2, <2>2, OtherSteps DEF Idle, Resetting
    <3>. QED  BY <1>2, <3>1 DEF Same, Resetting, ResetsSettled
  <2>3. Settled(f)
    BY <2>1, <2>2 DEF Next
  <2>. QED  BY <2>3, SettledStays
<1>3. ASSUME NEW f \in spent' PROVE Settled(f)'
  <2>1. CASE f \in spent
    <3>1. f \in Serials /\ Settled(f)
      BY <2>1 DEF TypeOK, ResetsSettled
    <3>. QED  BY <3>1, SettledStays
  <2>2. CASE f \notin spent
    <3>1. PICK p \in Handlers : req[p].op = "completeReset" /\ req[p].root = f
      BY <1>3, <2>2, Spending
    <3>2. f \in Serials /\ Settled(f)
      BY <3>1 DEF Paths, Resetting, ResetsSettled
    <3>. QED  BY <3>2, SettledStays
  <2>. QED  BY <2>1, <2>2
<1>. QED  BY <1>1, <1>2, <1>3 DEF ResetsSettled

\* Who presents a mail that another request holds forks it.
LEMMA ResetsAloneStep ==
  ASSUME TypeOK, Paths, ResetsSettled, ResetsAlone, Next
  PROVE  ResetsAlone'
<1>. SUFFICES ASSUME NEW q1 \in Handlers, NEW q2 \in Handlers, NEW f \in Serials,
                     Resetting(q1, f)', Resetting(q2, f)', q1 # q2
              PROVE  f \in forked'
  BY DEF ResetsAlone
<1>1. ASSUME NEW p \in Handlers, Arrive(p) PROVE f \in forked'
  <2>1. PICK r \in Fresh : Begin(p, r) /\ Read(r)
    BY <1>1, ArriveBegins
  <2>2. /\ \A q \in Handlers \ {p} : req'[q] = req[q]
        /\ req'[p].op = r.op /\ req'[p].cred = r.cred /\ forked \subseteq forked'
        /\ \A q \in Handlers \ {p} :
             r.cred # 0 /\ req[q].cred = r.cred => r.root \in forked'
    BY <2>1, Arrival
  <2>3. ASSUME NEW q \in Handlers \ {p}, Resetting(q, f)', Resetting(p, f)'
        PROVE  f \in forked'
    <3>1. r.op = "completeReset" /\ r.cred = f /\ req[q].cred = f
      BY <2>2, <2>3 DEF Resetting
    <3>2. r.root = f /\ f # 0
      BY <2>1, <3>1, Bounds DEF Read, ResetsSettled, Serials
    <3>. QED  BY <2>2, <3>1, <3>2
  <2>4. CASE q1 # p /\ q2 # p
    BY <2>2, <2>4 DEF ResetsAlone, Resetting
  <2>. QED  BY <2>3, <2>4
<1>2. ASSUME (\E p \in Handlers : Serve(p)) \/ Cleanup \/ Tick \/ Crash
      PROVE  f \in forked'
  BY <1>2, OtherSteps DEF ResetsAlone, Resetting, Same, Idle
<1>. QED  BY <1>1, <1>2 DEF Next

\* A used mail that is not forked is in the hands of the one that used it.
LEMMA ResetsUsedStep ==
  ASSUME TypeOK, Numbered, Paths, ResetsSettled, ResetsAlone, ResetsUsed, Next
  PROVE  ResetsUsed'
<1>. SUFFICES ASSUME NEW f \in spent' \ forked'
              PROVE  /\ \A p \in Handlers : Resetting(p, f)' => req'[p].at = "discard"
                     /\ creds'[f].kind = "reset" => \E p \in Handlers : Resetting(p, f)'
  BY DEF ResetsUsed
<1>0. f \notin forked /\ f \in Serials /\ f # 0
  <2>1. forked \subseteq forked'
    <3>1. ASSUME NEW p \in Handlers, Arrive(p) PROVE forked \subseteq forked'
      BY <3>1, ArriveBegins, Arrival
    <3>. QED  BY <3>1, OtherSteps DEF Next
  <2>2. f \in Serials
    BY Spending DEF TypeOK, Paths
  <2>. QED  BY <2>1, <2>2, Bounds DEF Serials
<1>1. CASE f \notin spent
  <2>1. PICK p \in Handlers : Update(p) /\ req[p].op = "completeReset" /\ req[p].root = f
    BY <1>1, Spending
  <2>2. Resetting(p, f)
    BY <2>1 DEF Paths, Resetting
  <2>3. Goto(p, "discard") /\ req[p] \in Request
    <3>1. Serve(p) /\ req[p].at = "write"
      BY <2>1 DEF Serve, Update
    <3>. QED  BY <2>1, <3>1, Serving DEF Update, Bans
  <2>4. /\ req'[p] = [req[p] EXCEPT !.at = "discard"]
        /\ \A q \in Handlers \ {p} : req'[q] = req[q]
    BY <2>3 DEF Goto, TypeOK
  <2>5. Resetting(p, f)' /\ req'[p].at = "discard"
    BY <2>2, <2>3, <2>4 DEF Resetting, Request
  <2>6. \A q \in Handlers \ {p} : ~Resetting(q, f)'
    BY <1>0, <2>2, <2>4 DEF ResetsAlone, Resetting
  <2>. QED  BY <2>5, <2>6
<1>2. CASE f \in spent
  <2>1. /\ \A p \in Handlers : Resetting(p, f) => req[p].at = "discard"
        /\ creds[f].kind = "reset" => \E p \in Handlers : Resetting(p, f)
        /\ Settled(f)
    BY <1>0, <1>2 DEF ResetsUsed, ResetsSettled
  <2>2. creds'[f].kind = "reset" => creds'[f] = creds[f]
    BY <1>0, <2>1, ResetStates DEF Settled
  <2>3. ASSUME NEW p \in Handlers, ~Resetting(p, f), ~Resetting(p, f)',
               \A q \in Handlers \ {p} : req'[q] = req[q]
        PROVE  /\ \A q \in Handlers : Resetting(q, f)' => req'[q].at = "discard"
               /\ creds'[f].kind = "reset" => \E q \in Handlers : Resetting(q, f)'
    BY <2>1, <2>2, <2>3 DEF Resetting
  <2>4. ASSUME NEW p \in Handlers, Arrive(p)
        PROVE  ~Resetting(p, f) /\ ~Resetting(p, f)'
               /\ \A q \in Handlers \ {p} : req'[q] = req[q]
    <3>1. PICK r \in Fresh : Begin(p, r) /\ Read(r)
      BY <2>4, ArriveBegins
    <3>2. /\ req[p].at = "idle" /\ req'[p].op = r.op /\ req'[p].cred = r.cred
          /\ \A q \in Handlers \ {p} : req'[q] = req[q]
          /\ \A q \in Handlers \ {p} :
               r.cred # 0 /\ req[q].cred = r.cred => r.root \in forked'
      BY <3>1, Arrival
    <3>3. ~Resetting(p, f)
      BY <2>1, <3>2
    <3>4. ASSUME Resetting(p, f)' PROVE FALSE
      <4>1. r.op = "completeReset" /\ r.cred = f
        BY <3>2, <3>4 DEF Resetting
      <4>2. creds[f].kind = "reset" /\ r.root = f
        BY <3>1, <4>1, <1>0 DEF Read, ResetsSettled
      <4>3. PICK q \in Handlers : Resetting(q, f)
        BY <2>1, <4>2
      <4>. QED  BY <1>0, <3>2, <3>3, <4>1, <4>2, <4>3 DEF Resetting
    <3>. QED  BY <3>2, <3>3, <3>4
  <2>5. ASSUME NEW p \in Handlers, Serve(p), ~Resetting(p, f)
        PROVE  ~Resetting(p, f)' /\ \A q \in Handlers \ {p} : req'[q] = req[q]
    <3>1. /\ \A q \in Handlers \ {p} : req'[q] = req[q]
          /\ req'[p] = Idle \/ Same(p)
      BY <2>5, ServeKeeps DEF Serve, Keeps, Same
    <3>. QED  BY <2>5, <3>1 DEF Resetting, Same, Idle
  <2>6. ASSUME NEW p \in Handlers, Serve(p), Resetting(p, f)
        PROVE  /\ \A q \in Handlers : Resetting(q, f)' => req'[q].at = "discard"
               /\ creds'[f].kind # "reset"
    <3>1. req[p].at = "discard" /\ req[p].root = f
      BY <2>1, <2>6 DEF Resetting, Paths
    <3>2. deleteCredential(p) /\ Keeps(p, {})
      BY <2>6, <3>1, ResetServe DEF Resetting, getUser, Update
    <3>3. \A q \in Handlers : req'[q] = Idle \/ req'[q] = req[q]
      BY <3>2 DEF Keeps
    <3>4. creds'[f].kind # "reset"
      BY <1>0, <2>6, <3>1, <3>2 DEF deleteCredential, Resetting, TypeOK, Unused
    <3>. QED  BY <2>1, <3>3, <3>4 DEF Resetting, Idle
  <2>7. ASSUME Cleanup \/ Tick
        PROVE  /\ \A q \in Handlers : Resetting(q, f)' => req'[q].at = "discard"
               /\ creds'[f].kind = "reset" => \E q \in Handlers : Resetting(q, f)'
    <3>1. req' = req
      BY <2>7 DEF Cleanup, Tick
    <3>. QED  BY <2>1, <2>2, <3>1 DEF Resetting
  <2>8. ASSUME Crash
        PROVE  /\ \A q \in Handlers : Resetting(q, f)' => req'[q].at = "discard"
               /\ creds'[f].kind # "reset"
    <3>1. /\ \A q \in Handlers : req'[q] = Idle
          /\ \A q \in Handlers : req[q].at # "idle" /\ req[q].cred # 0
                                => req[q].root \in forked'
      BY <2>8 DEF Crash
    <3>2. \A q \in Handlers : ~Resetting(q, f)
      BY <1>0, <2>1, <3>1 DEF Resetting, Paths
    <3>. QED  BY <2>1, <2>2, <3>1, <3>2 DEF Resetting, Idle
  <2>. QED  BY <2>3, <2>4, <2>5, <2>6, <2>7, <2>8 DEF Next
<1>. QED  BY <1>1, <1>2

\* All of it holds at first, and every step keeps it.
LEMMA ResetsBegin == Init => ResetInv
<1>. SUFFICES ASSUME Init PROVE ResetInv
  OBVIOUS
<1>1. /\ \A p \in Handlers : req[p] = Idle
      /\ \A c \in Serials : creds[c].kind = "none"
      /\ spent = {} /\ serial = 0
  BY DEF Init, Unused
<1>2. Numbered /\ Paths
  BY <1>1 DEF Numbered, Paths, Idle
<1>3. ResetsSettled /\ ResetsAlone /\ ResetsUsed
  BY <1>1 DEF ResetsSettled, ResetsAlone, ResetsUsed, Resetting, Idle
<1>. QED  BY <1>2, <1>3 DEF ResetInv

LEMMA ResetsGoOn ==
  ASSUME TypeOK, ResetInv, [Next]_vars
  PROVE  ResetInv'
<1>1. Next => ResetInv'
  BY NumberedStep, PathsStep, ResetsSettledStep, ResetsAloneStep, ResetsUsedStep
     DEF ResetInv
<1>2. UNCHANGED vars => ResetInv'
  BY DEF ResetInv, Numbered, Paths, ResetsSettled, ResetsAlone, ResetsUsed, Resetting,
     Settled, vars
<1>. QED  BY <1>1, <1>2

\* A mail that has changed the password is of no use to a request that arrives later.
THEOREM ResetsWorkOnce == Spec => []ResetsOnce
<1>1. Init => ResetInv
  BY ResetsBegin
<1>2. TypeOK /\ ResetInv /\ [Next]_vars => ResetInv'
  BY ResetsGoOn
<1>3. ResetInv => ResetsOnce
  BY DEF ResetInv, Paths, ResetsUsed, ResetsOnce, Resetting
<1>. QED  BY <1>1, <1>2, <1>3, TypeCorrect, PTL DEF Spec

----------------------------------------------------------------------------
(* Bans and passwords.                                                     *)

\* A row of an account that stays changes by an UPDATE of it or when its ban ends.
LEMMA RowsChange ==
  ASSUME TypeOK, Next, NEW e \in Emails, SameAccount(e), users'[e] # users[e]
  PROVE  \/ \E p \in Handlers : /\ Moves(p, "write") /\ req[p].email = e
                                /\ req[p].row \in Row \cup {Gone}
                                /\ users'[e] = Written(p)
         \/ /\ users[e].ban <= now
            /\ users'[e] = [users[e] EXCEPT !.disabled = FALSE, !.ban = 0]
<1>0. users \in [Emails -> Row \cup {Gone}]
  BY DEF TypeOK
<1>1. ASSUME NEW p \in Handlers, Arrive(p) PROVE FALSE
  BY <1>1, ArriveBegins DEF Begin
<1>2. ASSUME NEW p \in Handlers, Update(p)
      PROVE  /\ Moves(p, "write") /\ req[p].email = e /\ req[p].row \in Row \cup {Gone}
             /\ users'[e] = Written(p)
  <2>1. req[p].at = "write" /\ Serve(p)
    BY <1>2 DEF Update, Serve
  <2>2. req[p] \in Request
    BY <2>1, Serving
  <2>3. Keeps(p, {"issue", "discard"})
    <3>1. Goto(p, "discard") \/ Return(p) \/ Goto(p, "issue")
      BY <1>2 DEF Update, Proceed, Bans
    <3>. QED  BY <2>1, <3>1, MoveKeeps DEF Keeps
  <2>4. req'[p].at # "write"
    BY <2>3 DEF Keeps, Idle
  <2>5. req[p].email = e /\ users'[e] = Written(p)
    BY <1>0, <1>2 DEF Update
  <2>. QED  BY <2>1, <2>2, <2>4, <2>5 DEF Moves, Request
<1>3. ASSUME NEW p \in Handlers, Serve(p), ~Update(p) PROVE FALSE
  <2>1. CASE Create(p)
    BY <1>0, <2>1 DEF Create, SameAccount, Exists
  <2>2. CASE Delete(p)
    BY <1>0, <2>2 DEF Delete, SameAccount
  <2>3. CASE ~Create(p) /\ ~Delete(p)
    BY <1>3, <2>3 DEF Serve, RecordLoginAttempt, readLastSuccess, checkBanUser,
       checkLimit, getUser, findUser, admit, createAuthState, createRefreshToken,
       deleteCredential
  <2>. QED  BY <2>1, <2>2, <2>3
<1>4. ASSUME Cleanup
      PROVE  /\ users[e].ban <= now
             /\ users'[e] = [users[e] EXCEPT !.disabled = FALSE, !.ban = 0]
  BY <1>4 DEF Cleanup, enableUsersWithExpiredBan, Released
<1>5. ASSUME Tick \/ Crash PROVE FALSE
  BY <1>5 DEF Tick, Crash
<1>. QED  BY <1>1, <1>2, <1>3, <1>4, <1>5 DEF Next

\* A ban ends early only by an administrator or by a copy older than the ban.
THEOREM BansOutlastHandlers == Spec => BansLast
<1>. DEFINE Lifted(e) == SameAccount(e) /\ users[e].disabled /\ ~users'[e].disabled
            Excused(e) ==
              \/ users[e].ban <= now
              \/ \E p \in Handlers : /\ Moves(p, "write") /\ req[p].email = e
                                     /\ req[p].op = "update" \/ Stale(p)
<1>1. ASSUME TypeOK, [Next]_vars, NEW e \in Emails, Lifted(e) PROVE Excused(e)
  <2>1. Next /\ users'[e] # users[e]
    BY <1>1 DEF vars
  <2>2. ASSUME NEW p \in Handlers, Moves(p, "write"), req[p].email = e,
               req[p].row \in Row \cup {Gone}, users'[e] = Written(p), req[p].op # "update",
               ~Stale(p)
        PROVE  FALSE
    <3>1. req[p].row = users[e] /\ req[p].row.disabled
      BY <1>1, <2>2 DEF Stale
    <3>. QED  BY <1>1, <2>2, <3>1 DEF Written, Row, Gone
  <2>. QED  BY <1>1, <2>1, <2>2, RowsChange
<1>2. TypeOK /\ [Next]_vars => [\A e \in Emails : Lifted(e) => Excused(e)]_vars
  BY <1>1
<1>. QED  BY <1>2, TypeCorrect, PTL DEF Spec, BansLast

\* A password becomes one that was asked for, or that of an older copy.
THEOREM PasswordsAreAskedFor == Spec => PasswordsAreChosen
<1>. DEFINE Changed(e) == SameAccount(e) /\ users'[e].pw # users[e].pw
            Chosen(e) ==
              \E p \in Handlers :
                /\ Moves(p, "write") /\ req[p].email = e
                /\ \/ /\ req[p].op \in {"setPassword", "completeReset"}
                      /\ users'[e].pw = req[p].pw
                   \/ Stale(p)
<1>1. ASSUME TypeOK, [Next]_vars, NEW e \in Emails, Changed(e) PROVE Chosen(e)
  <2>1. Next /\ users'[e] # users[e] /\ users[e] \in Row \cup {Gone}
    BY <1>1 DEF vars, TypeOK
  <2>2. ASSUME NEW p \in Handlers, Moves(p, "write"), req[p].email = e,
               req[p].row \in Row \cup {Gone}, users'[e] = Written(p), ~Stale(p)
        PROVE  req[p].op \in {"setPassword", "completeReset"} /\ users'[e].pw = req[p].pw
    <3>1. req[p].row = users[e]
      BY <2>2 DEF Stale
    <3>. QED  BY <1>1, <2>2, <3>1 DEF Written, Row, Gone
  <2>3. users'[e] # [users[e] EXCEPT !.disabled = FALSE, !.ban = 0]
    BY <1>1, <2>1 DEF Row, Gone
  <2>. QED  BY <1>1, <2>1, <2>2, <2>3, RowsChange
<1>2. TypeOK /\ [Next]_vars => [\A e \in Emails : Changed(e) => Chosen(e)]_vars
  BY <1>1
<1>. QED  BY <1>2, TypeCorrect, PTL DEF Spec, PasswordsAreChosen

----------------------------------------------------------------------------
(* Sessions.                                                               *)

\* What a handler that may issue a token has seen in its copy of the user.
Enabled(row) == row # Gone /\ ~row.disabled
Admitted(r) ==
  /\ \/ r.at \in {"record", "lastSuccess", "count", "issue"}
     \/ r.at = "write" /\ r.op \in {"loginPassword", "verify"}
     => Enabled(r.row)
  /\ r.op = "verify" => ~r.row.disabled
  /\ r.op = "loginPassword" => r.at # "account" /\ (r.at = "issue" => r.pw = r.row.pw)
SessionInv == \A p \in Handlers : Admitted(req[p])

\* A handler that moves on is still admitted.
LEMMA MoveAdmitted ==
  ASSUME TypeOK, NEW p \in Handlers, req[p].at # "idle", Admitted(req[p])
  PROVE  /\ Return(p) => Admitted(req'[p])
         /\ Enabled(req[p].row) /\ Proceed(p) => Admitted(req'[p])
         /\ \A s \in Steps \ {"issue", "account"} :
              /\ Goto(p, s)
              /\ \/ Enabled(req[p].row)
                 \/ s \notin {"record", "lastSuccess", "count", "write"}
              => Admitted(req'[p])
<1>0. req \in [Handlers -> Request \cup {Idle}] /\ req[p] \in Request
  BY Serving DEF TypeOK
<1>1. Return(p) => Admitted(req'[p])
  BY <1>0 DEF Return, Idle, Admitted, Gone
<1>2. \A s : Goto(p, s) => /\ req'[p].at = s /\ req'[p].op = req[p].op
                           /\ req'[p].row = req[p].row /\ req'[p].pw = req[p].pw
  BY <1>0 DEF Goto, Request
<1>3. Enabled(req[p].row) /\ Proceed(p) => Admitted(req'[p])
  BY <1>1, <1>2 DEF Proceed, Right, Admitted, Enabled
<1>. QED  BY <1>1, <1>2, <1>3 DEF Admitted, Enabled

\* A handler that takes a new copy of the user is admitted with it.
LEMMA CopyAdmitted ==
  ASSUME TypeOK, NEW p \in Handlers, req[p].at # "idle", Admitted(req[p]),
         getUser(p) \/ findUser(p) \/ Create(p)
  PROVE  Admitted(req'[p])
<1>0. req \in [Handlers -> Request \cup {Idle}] /\ req[p] \in Request
  BY Serving DEF TypeOK
<1>1. ASSUME NEW s, NEW row, req' = [req EXCEPT ![p].at = s, ![p].row = row]
      PROVE  /\ req'[p].at = s /\ req'[p].row = row
             /\ req'[p].op = req[p].op /\ req'[p].pw = req[p].pw
  BY <1>0, <1>1 DEF Request
<1>2. CASE getUser(p)
  <2>1. CASE Return(p)
    BY <1>2, <2>1, MoveAdmitted
  <2>2. CASE ~Return(p)
    <3>1. PICK s \in {"write", "issue"} :
            /\ req' = [req EXCEPT ![p].at = s, ![p].row = users[req[p].email]]
            /\ Enabled(users[req[p].email])
      BY <1>2, <2>2 DEF getUser, HasId, Exists, Enabled
    <3>2. req[p].op # "loginPassword"
      BY <1>2 DEF getUser, Admitted
    <3>. QED  BY <1>1, <3>1, <3>2 DEF Admitted, Enabled
  <2>. QED  BY <2>1, <2>2
<1>3. CASE findUser(p)
  <2>1. CASE Return(p) \/ Goto(p, "limit")
    BY <1>3, <2>1, MoveAdmitted DEF Steps
  <2>2. CASE ~(Return(p) \/ Goto(p, "limit"))
    <3>1. /\ req' = [req EXCEPT ![p].at = "discard", ![p].row = users[req[p].email]]
          /\ ~users[req[p].email].disabled
      BY <1>3, <2>2 DEF findUser, Exists
    <3>. QED  BY <1>1, <3>1 DEF Admitted
  <2>. QED  BY <2>1, <2>2
<1>4. CASE Create(p)
  <2>1. CASE Return(p)
    BY <1>4, <2>1, MoveAdmitted
  <2>2. CASE ~Return(p)
    <3>. DEFINE new == [Gone EXCEPT !.id = req[p].serial, !.pw = req[p].pw]
    <3>1. \/ req' = [req EXCEPT ![p].at = "discard", ![p].row = new]
          \/ req' = [req EXCEPT ![p].at = "discard", ![p].row = Gone]
      BY <1>4, <2>2 DEF Create
    <3>2. ~new.disabled /\ ~Gone.disabled
      BY DEF Gone
    <3>3. req'[p].at = "discard" /\ ~req'[p].row.disabled /\ req'[p].op = req[p].op
      <4>. HIDE DEF new
      <4>. QED  BY <1>1, <3>1, <3>2
    <3>. QED  BY <3>3 DEF Admitted
  <2>. QED  BY <2>1, <2>2
<1>. QED  BY <1>2, <1>3, <1>4

\* A step keeps every handler admitted.
LEMMA SessionStep ==
  ASSUME TypeOK, SessionInv, Next
  PROVE  SessionInv'
<1>1. ASSUME NEW p \in Handlers, Arrive(p) PROVE SessionInv'
  <2>1. PICK r \in Fresh : Begin(p, r) /\ Read(r)
    BY <1>1, ArriveBegins
  <2>2. /\ req'[p].op = r.op /\ req'[p].at = r.at /\ req'[p].row = r.row
        /\ req'[p].pw = r.pw
        /\ \A q \in Handlers \ {p} : req'[q] = req[q]
    BY <2>1 DEF Begin, TypeOK, Fresh
  <2>3. Admitted(r)
    BY <2>1 DEF Fresh, FirstSteps, Read, Admitted, Enabled, Usable, Gone
  <2>4. Admitted(req'[p])
    BY <2>2, <2>3 DEF Admitted, Enabled
  <2>. QED  BY <2>2, <2>4 DEF SessionInv
<1>2. ASSUME NEW p \in Handlers, Serve(p) PROVE SessionInv'
  <2>1. req[p].at # "idle" /\ \A q \in Handlers \ {p} : req'[q] = req[q]
    <3>1. req[p].at # "idle"
      BY <1>2 DEF Serve, RecordLoginAttempt, readLastSuccess, checkBanUser, Update, Delete,
         checkLimit, Create, getUser, findUser, admit, createAuthState,
         createRefreshToken, deleteCredential
    <3>. QED  BY <1>2, <3>1, ServeKeeps DEF Serve, Keeps
  <2>2. Admitted(req[p])
    BY DEF SessionInv
  <2>3. Admitted(req'[p])
    <3>1. CASE getUser(p) \/ findUser(p) \/ Create(p)
      BY <2>1, <2>2, <3>1, CopyAdmitted
    <3>2. CASE RecordLoginAttempt(p)
      <4>1. Enabled(req[p].row) /\ (Goto(p, "lastSuccess") \/ Proceed(p))
        BY <2>2, <3>2 DEF RecordLoginAttempt, Admitted
      <4>. QED  BY <2>1, <2>2, <4>1, MoveAdmitted DEF Steps
    <3>3. CASE readLastSuccess(p)
      <4>0. req \in [Handlers -> Request \cup {Idle}] /\ req[p] \in Request
        BY <2>1, Serving DEF TypeOK
      <4>1. Enabled(req[p].row)
        BY <2>2, <3>3 DEF readLastSuccess, Admitted
      <4>2. /\ req'[p].at = "count" /\ req'[p].op = req[p].op /\ req'[p].row = req[p].row
        BY <3>3, <4>0 DEF readLastSuccess, Goto, Request
      <4>. QED  BY <2>2, <4>1, <4>2 DEF Admitted, Enabled
    <3>4. CASE checkBanUser(p)
      <4>1. Enabled(req[p].row) /\ (Goto(p, "write") \/ Proceed(p))
        BY <2>2, <3>4 DEF checkBanUser, Admitted
      <4>. QED  BY <2>1, <2>2, <4>1, MoveAdmitted DEF Steps
    <3>5. CASE Update(p)
      <4>1. \/ Enabled(req[p].row) /\ Proceed(p)
            \/ Goto(p, "discard") \/ Return(p)
        BY <2>2, <3>5 DEF Update, Bans, Admitted
      <4>. QED  BY <2>1, <2>2, <4>1, MoveAdmitted DEF Steps
    <3>6. CASE Delete(p) \/ checkLimit(p) \/ createAuthState(p)
      <4>1. Return(p) \/ Goto(p, "insert")
        BY <3>6 DEF Delete, checkLimit, createAuthState
      <4>. QED  BY <2>1, <2>2, <4>1, MoveAdmitted DEF Steps
    <3>7. CASE admit(p) \/ createRefreshToken(p)
      <4>0. req \in [Handlers -> Request \cup {Idle}] /\ req[p] \in Request
        BY <2>1, Serving DEF TypeOK
      <4>1. \/ Return(p)
            \/ /\ req'[p].at \in {"open", "discard"} /\ req'[p].op = req[p].op
               /\ req'[p].row = req[p].row
        BY <3>7, <4>0 DEF admit, createRefreshToken, Request
      <4>2. CASE Return(p)
        BY <2>1, <2>2, <4>2, MoveAdmitted
      <4>. QED  BY <2>2, <4>1, <4>2 DEF Admitted
    <3>8. CASE deleteCredential(p)
      <4>1. \/ Goto(p, "admit") \/ Return(p)
            \/ Enabled(req[p].row) /\ Goto(p, "record")
        BY <2>2, <3>8 DEF deleteCredential, Admitted, Enabled
      <4>. QED  BY <2>1, <2>2, <4>1, MoveAdmitted DEF Steps
    <3>. QED
      BY <1>2, <3>1, <3>2, <3>3, <3>4, <3>5, <3>6, <3>7, <3>8 DEF Serve
  <2>. QED  BY <2>1, <2>3 DEF SessionInv
<1>3. ASSUME Cleanup \/ Tick \/ Crash PROVE SessionInv'
  BY <1>3 DEF Cleanup, Tick, Crash, SessionInv, Admitted, Idle, Gone
<1>. QED  BY <1>1, <1>2, <1>3 DEF Next

\* A token goes to an account that is there, enabled and, after a password login, has
\* that password; unless it changed since the handler read it.
THEOREM SessionsHaveAnAccount == Spec => SessionsNeedAnAccount
<1>. DEFINE Issued(c) == creds[c] = Unused /\ creds'[c].kind = "refresh"
            Owned(c) ==
              \E p \in Handlers :
                /\ Moves(p, "issue") /\ req[p].serial = c
                /\ \/ Stale(p)
                   \/ /\ HasId(creds'[c].email, creds'[c].id)
                      /\ ~users[creds'[c].email].disabled
                      /\ req[p].op = "loginPassword"
                         => users[creds'[c].email].pw = req[p].pw
<1>1. Init => SessionInv
  <2>1. Init => \A p \in Handlers : req[p] = Idle
    BY DEF Init
  <2>. QED  BY <2>1 DEF SessionInv, Admitted, Idle, Gone
<1>2. TypeOK /\ SessionInv /\ [Next]_vars => SessionInv'
  <2>1. SessionInv /\ UNCHANGED vars => SessionInv'
    BY DEF SessionInv, vars
  <2>. QED  BY <2>1, SessionStep
<1>3. ASSUME TypeOK, SessionInv, [Next]_vars, NEW c \in Serials, Issued(c) PROVE Owned(c)
  <2>0. Next /\ creds \in [Serials -> Cred \cup {Unused}] /\ Unused.kind # "refresh"
    BY <1>3 DEF vars, TypeOK, Unused
  <2>1. PICK p \in Handlers : createRefreshToken(p)
    <3>1. ASSUME NEW p \in Handlers, Arrive(p) PROVE FALSE
      BY <1>3, <2>0, <3>1, ArriveBegins, Arrival
    <3>2. ASSUME NEW p \in Handlers, createAuthState(p) PROVE FALSE
      <4>1. PICK kind \in {"request", "cache", "reset"} : Insert(p, kind)
        BY <3>2 DEF createAuthState
      <4>. QED  BY <1>3, <2>0, <4>1 DEF Insert
    <3>3. ASSUME NEW p \in Handlers, deleteCredential(p) PROVE FALSE
      BY <1>3, <2>0, <3>3 DEF deleteCredential
    <3>4. ASSUME NEW p \in Handlers, Serve(p), ~createAuthState(p), ~deleteCredential(p),
                 ~createRefreshToken(p)
          PROVE  FALSE
      BY <1>3, <2>0, <3>4 DEF Serve, RecordLoginAttempt, readLastSuccess, checkBanUser,
         Update, Delete, checkLimit, Create, getUser, findUser, admit
    <3>5. ASSUME Cleanup \/ Tick \/ Crash PROVE FALSE
      BY <1>3, <2>0, <3>5 DEF Cleanup, DeleteExpired, Tick, Crash
    <3>. QED  BY <2>0, <3>1, <3>2, <3>3, <3>4, <3>5 DEF Next
  <2>2. req[p].at = "issue" /\ Admitted(req[p]) /\ req[p].serial \in Serials
    BY <1>3, <2>1, Serving DEF createRefreshToken, SessionInv
  <2>3. /\ req[p].serial = c /\ creds'[c].email = req[p].email
        /\ creds'[c].id = req[p].row.id
    BY <1>3, <2>0, <2>1, <2>2 DEF createRefreshToken, Insert
  <2>4. Moves(p, "issue")
    <3>1. Keeps(p, {"discard"})
      BY <1>3, <2>1, ServeKeeps
    <3>. QED  BY <2>2, <3>1 DEF Moves, Keeps, Idle
  <2>5. ~Stale(p) => /\ HasId(creds'[c].email, creds'[c].id)
                     /\ ~users[creds'[c].email].disabled
                     /\ req[p].op = "loginPassword"
                        => users[creds'[c].email].pw = req[p].pw
    BY <2>2, <2>3 DEF Stale, HasId, Exists, Admitted, Enabled
  <2>. QED  BY <2>3, <2>4, <2>5
<1>4. TypeOK /\ SessionInv /\ [Next]_vars => [\A c \in Serials : Issued(c) => Owned(c)]_vars
  BY <1>3
<1>. QED  BY <1>1, <1>2, <1>4, TypeCorrect, PTL DEF Spec, SessionsNeedAnAccount

----------------------------------------------------------------------------
(* One credential per login.                                               *)

\* The requests there are at each step.
OpsAt(step) ==
  CASE step \in {"record", "lastSuccess", "count"} -> {"loginPassword", "verify"}
    [] step = "account" -> {"refresh", "completeReset"}
    [] step = "findUser" -> {"verify"}
    [] step \in {"limit", "insert"} -> {"verify", "create"}
    [] step = "write" ->
         {"loginPassword", "verify", "setPassword", "update", "completeReset"}
    [] step = "remove" -> {"delete"}
    [] step = "open" -> {"login", "callback", "initReset"}
    [] step = "admit" -> {"callback"}
    [] step = "issue" -> {"loginPassword", "verify", "refresh"}
    [] step = "discard" -> {"callback", "verify", "refresh", "completeReset"}
OnPath(p) == req[p].at # "idle" => req[p].op \in OpsAt(req[p].at)
AllOnPath == \A p \in Handlers : OnPath(p)

\* Where a handler goes that goes on: ServeKeeps, with the request it serves.
LEMMA Onward ==
  ASSUME TypeOK, NEW p \in Handlers, req'[p] # Idle
  PROVE  /\ Update(p) => IF req[p].op = "completeReset" THEN req'[p].at = "discard"
                         ELSE Bans(p) /\ req'[p].at = "issue"
         /\ Create(p) => req[p].op = "verify" /\ req'[p].at = "discard"
         /\ getUser(p) => IF req[p].op = "completeReset" THEN req'[p].at = "write"
                          ELSE req'[p].at = "issue"
         /\ createRefreshToken(p) => /\ req[p].op = "refresh" /\ req'[p].at = "discard"
                                     /\ req'[p].mark = req[p].serial
         /\ deleteCredential(p) => IF req[p].op = "callback" THEN req'[p].at = "admit"
                                   ELSE req[p].op = "verify" /\ req'[p].at = "record"
<1>0. req \in [Handlers -> Request \cup {Idle}] /\ ~Return(p)
  BY DEF TypeOK, Return
<1>a. \A s : Goto(p, s) /\ req[p].at # "idle" => req'[p].at = s
  BY <1>0, MoveKeeps DEF Keeps
<1>b. Proceed(p) => Goto(p, "issue")
  BY <1>0 DEF Proceed
<1>1. ASSUME Update(p)
      PROVE  IF req[p].op = "completeReset" THEN req'[p].at = "discard"
             ELSE Bans(p) /\ req'[p].at = "issue"
  <2>1. req[p].at = "write" /\ CASE Bans(p) -> Proceed(p)
                                 [] req[p].op = "completeReset" -> Goto(p, "discard")
                                 [] OTHER -> Return(p)
    BY <1>1 DEF Update
  <2>. QED  BY <1>0, <1>a, <1>b, <2>1 DEF Bans
<1>2. ASSUME Create(p) PROVE req[p].op = "verify" /\ req'[p].at = "discard"
  <2>1. req[p].op = "verify"
    BY <1>0, <1>2 DEF Create
  <2>. QED  BY <1>2, <2>1, ServeKeeps DEF Keeps
<1>3. ASSUME getUser(p)
      PROVE  IF req[p].op = "completeReset" THEN req'[p].at = "write"
             ELSE req'[p].at = "issue"
  <2>1. req[p].at # "idle"
        /\ req' = [req EXCEPT ![p].at = IF req[p].op = "completeReset" THEN "write" ELSE "issue",
                              ![p].row = users[req[p].email]]
    BY <1>0, <1>3 DEF getUser
  <2>. QED  BY <1>0, <2>1, Serving DEF Request
<1>4. ASSUME createRefreshToken(p)
      PROVE  req[p].op = "refresh" /\ req'[p].at = "discard" /\ req'[p].mark = req[p].serial
  <2>1. req[p].at # "idle" /\ req[p].op = "refresh"
        /\ req' = [req EXCEPT ![p].at = "discard", ![p].mark = req[p].serial]
    BY <1>0, <1>4 DEF createRefreshToken
  <2>. QED  BY <1>0, <2>1, Serving DEF Request
<1>5. ASSUME deleteCredential(p)
      PROVE  IF req[p].op = "callback" THEN req'[p].at = "admit"
             ELSE req[p].op = "verify" /\ req'[p].at = "record"
  <2>1. req[p].at = "discard" /\ CASE req[p].op = "callback" -> Goto(p, "admit")
                                   [] req[p].op = "verify" /\ req[p].row # Gone -> Goto(p, "record")
                                   [] OTHER -> Return(p)
    BY <1>5 DEF deleteCredential
  <2>. QED  BY <1>0, <1>a, <2>1
<1>. QED  BY <1>1, <1>2, <1>3, <1>4, <1>5

LEMMA OnPathStep ==
  ASSUME TypeOK, AllOnPath, Next
  PROVE  AllOnPath'
<1>1. ASSUME NEW p \in Handlers, Arrive(p) PROVE AllOnPath'
  <2>1. PICK r \in Fresh : Begin(p, r) /\ Read(r)
    BY <1>1, ArriveBegins
  <2>2. /\ req'[p].op = r.op /\ req'[p].at = r.at
        /\ \A q \in Handlers \ {p} : req'[q] = req[q]
    BY <2>1, Arrival
  <2>3. r.op \in OpsAt(r.at)
    <3>1. r.op \in Ops /\ r.at = FirstStep(r.op)
      BY <2>1 DEF Fresh, Read
    <3>. QED  BY <3>1 DEF Ops, FirstStep, OpsAt
  <2>. QED  BY <2>2, <2>3 DEF AllOnPath, OnPath
<1>2. ASSUME NEW p \in Handlers, Serve(p) PROVE AllOnPath'
  <2>1. /\ \A q \in Handlers \ {p} : req'[q] = req[q]
        /\ req'[p] = Idle \/ Same(p)
    BY <1>2, ServeKeeps DEF Serve, Keeps, Same
  <2>2. ASSUME req'[p] # Idle PROVE req'[p].op \in OpsAt(req'[p].at)
    <3>1. req'[p].op = req[p].op
      BY <2>1, <2>2 DEF Same
    <3>2. req[p].at # "idle" => req[p].op \in OpsAt(req[p].at)
      BY DEF AllOnPath, OnPath
    <3>3. CASE RecordLoginAttempt(p)
      <4>1. req[p].at = "record" /\ req'[p].at \in {"lastSuccess", "issue"}
        BY <2>2, <3>3, ServeKeeps DEF RecordLoginAttempt, Keeps
      <4>. QED  BY <3>1, <3>2, <4>1 DEF OpsAt
    <3>4. CASE readLastSuccess(p)
      <4>1. req[p].at = "lastSuccess" /\ req'[p].at = "count"
        BY <2>2, <3>4, ServeKeeps DEF readLastSuccess, Keeps
      <4>. QED  BY <3>1, <3>2, <4>1 DEF OpsAt
    <3>5. CASE checkBanUser(p)
      <4>1. req[p].at = "count" /\ req'[p].at \in {"write", "issue"}
        BY <2>2, <3>5, ServeKeeps DEF checkBanUser, Keeps
      <4>. QED  BY <3>1, <3>2, <4>1 DEF OpsAt
    <3>6. CASE Update(p)
      BY <2>2, <3>1, <3>6, Onward DEF OpsAt, Bans
    <3>7. CASE Delete(p)
      BY <2>2, <3>7, ServeKeeps DEF Keeps
    <3>8. CASE checkLimit(p)
      <4>1. req[p].at = "limit" /\ req'[p].at = "insert"
        BY <2>2, <3>8, ServeKeeps DEF checkLimit, Keeps
      <4>. QED  BY <3>1, <3>2, <4>1 DEF OpsAt
    <3>9. CASE Create(p)
      BY <2>2, <3>1, <3>9, Onward DEF OpsAt
    <3>10. CASE getUser(p)
      <4>1. req[p].at = "account"
        BY <3>10 DEF getUser
      <4>. QED  BY <2>2, <3>1, <3>2, <3>10, <4>1, Onward DEF OpsAt
    <3>11. CASE findUser(p)
      <4>1. req[p].at = "findUser" /\ req'[p].at \in {"limit", "discard"}
        BY <2>2, <3>11, ServeKeeps DEF findUser, Keeps
      <4>. QED  BY <3>1, <3>2, <4>1 DEF OpsAt
    <3>12. CASE admit(p)
      <4>1. req[p].at = "admit" /\ req'[p].at = "open"
        BY <2>2, <3>12, ServeKeeps DEF admit, Keeps
      <4>. QED  BY <3>1, <3>2, <4>1 DEF OpsAt
    <3>13. CASE createAuthState(p)
      BY <2>2, <3>13, ServeKeeps DEF Keeps
    <3>14. CASE createRefreshToken(p)
      BY <2>2, <3>1, <3>14, Onward DEF OpsAt
    <3>15. CASE deleteCredential(p)
      BY <2>2, <3>1, <3>15, Onward DEF OpsAt
    <3>. QED
      BY <1>2, <3>3, <3>4, <3>5, <3>6, <3>7, <3>8, <3>9, <3>10, <3>11, <3>12, <3>13, <3>14,
         <3>15
      DEF Serve
  <2>. QED  BY <2>1, <2>2 DEF AllOnPath, OnPath, Idle
<1>3. ASSUME Cleanup \/ Tick \/ Crash PROVE AllOnPath'
  BY <1>3 DEF Cleanup, Tick, Crash, AllOnPath, OnPath, Idle
<1>. QED  BY <1>1, <1>2, <1>3 DEF Next

\* A handler of login f: of the login, or of what presents its credentials.
SessionOps == {"loginPassword", "login", "callback", "verify", "refresh"}
LogsIn(p, f) == req[p].op \in SessionOps /\ req[p].root = f

\* A refresh that has its new token, and deletes the old one.
Replacing(p) == req[p].op = "refresh" /\ req[p].at = "discard"

\* Handler p has credential c in its hands, and the login has no other.
HoldingSteps == {"findUser", "limit", "insert", "account", "discard"}
Holds(p, c) ==
  \/ c = req[p].cred /\ (req[p].at \in HoldingSteps \/ req[p].op = "refresh")
  \/ Replacing(p) /\ c = req[p].mark

\* A login that is not forked is in the hands of one handler at a time, which holds
\* all its credentials; and it has two of them only while one replaces the other.
LoginsAlone ==
  \A p, q \in Handlers, f \in Serials \ forked : LogsIn(p, f) /\ LogsIn(q, f) => p = q
LoginsHeld ==
  \A p \in Handlers, c \in SessionCreds :
    LogsIn(p, creds[c].root) /\ creds[c].root \notin forked => Holds(p, c)
LoginsReplaced ==
  \A c, d \in SessionCreds :
    creds[c].root = creds[d].root /\ creds[c].root \notin forked /\ c # d
    => \E p \in Handlers : /\ Replacing(p) /\ LogsIn(p, creds[c].root)
                           /\ {c, d} = {req[p].cred, req[p].mark}

\* Roots are requests that have arrived; and a number is used once: nothing has that
\* of a request that has yet to insert something, only what replaces a token that of
\* a refresh.
Rooted ==
  /\ \A c \in SessionCreds : creds[c].root <= serial
  /\ \A p \in Handlers : req[p].root <= serial
Replacements ==
  /\ \A c \in Serials : c > serial => creds[c].kind = "none"
  /\ \A p \in Handlers :
       req[p].serial # 0 => IF Replacing(p)
                            THEN /\ req[p].mark = req[p].serial
                                 /\ creds[req[p].serial].kind \in {"none", "refresh"}
                            ELSE creds[req[p].serial].kind = "none"

LoginInv == /\ AllOnPath /\ LoginsAlone /\ LoginsHeld /\ LoginsReplaced
            /\ Rooted /\ Replacements

\* Where a credential comes from.
Inserts(p, c) ==
  /\ req[p].serial = c /\ creds'[c].root = req[p].root
  /\ \/ createRefreshToken(p) /\ creds'[c].kind = "refresh"
     \/ createAuthState(p) /\ creds'[c].kind # "refresh"

\* Other steps only delete.
LEMMA CredsStay ==
  ASSUME TypeOK, NEW c \in Serials, creds'[c].kind # "none",
         \/ \E p \in Handlers : Serve(p) /\ ~createAuthState(p) /\ ~createRefreshToken(p)
         \/ Cleanup \/ Tick \/ Crash
  PROVE  creds'[c] = creds[c]
<1>0. creds \in [Serials -> Cred \cup {Unused}] /\ Unused.kind = "none"
  BY DEF TypeOK, Unused
<1>1. ASSUME NEW p \in Handlers, deleteCredential(p) PROVE creds'[c] = creds[c]
  BY <1>0, <1>1 DEF deleteCredential
<1>2. ASSUME NEW p \in Handlers, Serve(p), ~createAuthState(p), ~createRefreshToken(p),
             ~deleteCredential(p)
      PROVE  creds'[c] = creds[c]
  BY <1>2 DEF Serve, RecordLoginAttempt, readLastSuccess, checkBanUser, Update, Delete,
     checkLimit, Create, getUser, findUser, admit
<1>3. ASSUME Cleanup PROVE creds'[c] = creds[c]
  BY <1>0, <1>3 DEF Cleanup, DeleteExpired
<1>4. ASSUME Tick \/ Crash PROVE creds'[c] = creds[c]
  BY <1>4 DEF Tick, Crash
<1>. QED  BY <1>1, <1>2, <1>3, <1>4

\* New credentials are inserted.
LEMMA CredsAppear ==
  ASSUME TypeOK, Next, NEW c \in Serials, creds'[c].kind # "none"
  PROVE  creds'[c] = creds[c] \/ \E p \in Handlers : Inserts(p, c)
<1>0. creds \in [Serials -> Cred \cup {Unused}] /\ Unused.kind = "none"
  BY DEF TypeOK, Unused
<1>1. ASSUME NEW p \in Handlers, Arrive(p) PROVE creds'[c] = creds[c]
  BY <1>1, ArriveBegins, Arrival
<1>2. ASSUME NEW p \in Handlers, NEW kind, Insert(p, kind), creds'[c] # creds[c],
             req[p].at # "idle"
      PROVE  req[p].serial = c /\ creds'[c].root = req[p].root /\ creds'[c].kind = kind
  <2>1. req[p].serial \in Serials
    BY <1>2, Serving
  <2>. QED  BY <1>0, <1>2, <2>1 DEF Insert
<1>3. ASSUME NEW p \in Handlers, createRefreshToken(p), creds'[c] # creds[c]
      PROVE  Inserts(p, c)
  BY <1>2, <1>3 DEF createRefreshToken, Inserts
<1>4. ASSUME NEW p \in Handlers, createAuthState(p), creds'[c] # creds[c]
      PROVE  Inserts(p, c)
  <2>1. PICK kind \in {"request", "cache", "reset"} : Insert(p, kind)
    BY <1>4 DEF createAuthState
  <2>2. req[p].at # "idle"
    BY <1>4 DEF createAuthState
  <2>. QED  BY <1>2, <1>4, <2>1, <2>2 DEF Inserts
<1>. QED  BY <1>1, <1>3, <1>4, CredsStay DEF Next

\* Steps that insert nothing and keep what is held.
LEMMA SameLogins ==
  ASSUME LoginsAlone, LoginsHeld, LoginsReplaced, forked \subseteq forked',
         \A c \in SessionCreds' : creds'[c] = creds[c],
         \A q \in Handlers : req'[q] = Idle \/ Same(q),
         \A q \in Handlers, c \in SessionCreds' :
           /\ req'[q] # Idle /\ Holds(q, c)
           /\ LogsIn(q, creds[c].root) /\ creds[c].root \notin forked'
           => Holds(q, c)',
         \A q \in Handlers : Replacing(q) =>
           \/ Replacing(q)' /\ req'[q].mark = req[q].mark
           \/ req[q].root \in forked' \/ req[q].cred \notin SessionCreds'
  PROVE  LoginsAlone' /\ LoginsHeld' /\ LoginsReplaced'
<1>1. \A q \in Handlers : \A f : LogsIn(q, f)' => LogsIn(q, f) /\ req'[q] # Idle /\ Same(q)
  BY DEF LogsIn, SessionOps, Same, Idle
<1>2. \A c \in SessionCreds' : c \in SessionCreds /\ creds'[c] = creds[c]
  BY DEF SessionCreds
<1>3. LoginsAlone'
  BY <1>1 DEF LoginsAlone
<1>4. LoginsHeld'
  <2>1. SUFFICES ASSUME NEW p \in Handlers, NEW c \in SessionCreds',
                        LogsIn(p, creds[c].root)', creds'[c].root \notin forked'
                 PROVE  Holds(p, c)'
    BY DEF LoginsHeld
  <2>2. creds'[c] = creds[c] /\ c \in SessionCreds
    BY <1>2
  <2>3. LogsIn(p, creds[c].root) /\ req'[p] # Idle
    BY <1>1, <2>1, <2>2 DEF LogsIn
  <2>4. Holds(p, c)
    BY <2>1, <2>2, <2>3 DEF LoginsHeld
  <2>. QED  BY <2>1, <2>2, <2>3, <2>4
<1>5. LoginsReplaced'
  <2>1. SUFFICES ASSUME NEW c \in SessionCreds', NEW d \in SessionCreds',
                        creds'[c].root = creds'[d].root, creds'[c].root \notin forked', c # d
                 PROVE  \E p \in Handlers : /\ Replacing(p)' /\ LogsIn(p, creds[c].root)'
                                            /\ {c, d} = {req'[p].cred, req'[p].mark}
    BY DEF LoginsReplaced
  <2>2. PICK p \in Handlers : /\ Replacing(p) /\ LogsIn(p, creds[c].root)
                              /\ {c, d} = {req[p].cred, req[p].mark}
    BY <1>2, <2>1 DEF LoginsReplaced
  <2>3. Replacing(p)' /\ req'[p].mark = req[p].mark
    <3>1. req[p].root \notin forked'
      BY <1>2, <2>1, <2>2 DEF LogsIn
    <3>2. req[p].cred \in SessionCreds'
      BY <2>1, <2>2
    <3>. QED  BY <2>2, <3>1, <3>2
  <2>4. Same(p)
    BY <2>3 DEF Replacing, Idle
  <2>. QED  BY <1>2, <2>2, <2>3, <2>4 DEF Same, LogsIn
<1>. QED  BY <1>3, <1>4, <1>5

\* Whoever arrives with a credential is alone with it, or forks its login.
LEMMA ArriveLogins ==
  ASSUME TypeOK, LoginInv, NEW p \in Handlers, Arrive(p)
  PROVE  LoginsAlone' /\ LoginsHeld' /\ LoginsReplaced'
<1>1. PICK r \in Fresh : Begin(p, r) /\ Read(r)
  BY ArriveBegins
<1>2. /\ req[p].at = "idle" /\ serial' = serial + 1 /\ serial \in Nat
      /\ \A q \in Handlers \ {p} : req'[q] = req[q]
      /\ req'[p].op = r.op /\ req'[p].at = r.at /\ req'[p].cred = r.cred
      /\ req'[p].root = IF r.root = 0 THEN serial + 1 ELSE r.root
      /\ forked \subseteq forked'
      /\ \A q \in Handlers \ {p} : r.cred # 0 /\ req[q].cred = r.cred => r.root \in forked'
      /\ creds' = creds
  BY <1>1, Arrival
<1>3. ASSUME NEW f, f \notin forked', r.op \in SessionOps, req'[p].root = f
      PROVE  /\ \A q \in Handlers \ {p} : ~LogsIn(q, f)
             /\ \A c \in SessionCreds : creds[c].root = f =>
                  c = r.cred /\ r.at \in HoldingSteps
  <2>1. CASE r.op \in {"loginPassword", "login"}
    <3>1. f = serial + 1
      BY <1>1, <1>2, <1>3, <2>1 DEF Read, Presents
    <3>2. \A q \in Handlers : req[q].root \in Int /\ req[q].root <= serial
      <4>1. \A q \in Handlers : req[q].root \in Int
        BY Bounds DEF TypeOK, Request, Idle, Serials
      <4>. QED  BY <4>1 DEF LoginInv, Rooted
    <3>3. \A c \in SessionCreds : creds[c].root \in Int /\ creds[c].root <= serial
      <4>1. \A c \in SessionCreds : creds[c].root \in Serials
        BY CredFields DEF SessionCreds, Kinds
      <4>. QED  BY <4>1, Bounds DEF LoginInv, Rooted, Serials
    <3>. QED  BY <1>2, <3>1, <3>2, <3>3 DEF LogsIn
  <2>2. CASE r.op \in {"callback", "verify", "refresh"}
    <3>1. /\ r.cred \in SessionCreds /\ r.cred # 0 /\ creds[r.cred].root = r.root
          /\ creds[r.cred].kind = "refresh" => Answered(r.cred)
      BY <1>1, <2>2, Bounds DEF Read, Presents, SessionCreds, Serials
    <3>2. r.root = f /\ r.at \in HoldingSteps
      <4>1. r.root # 0
        BY <3>1 DEF Fresh
      <4>2. r.at = FirstStep(r.op)
        BY <1>1 DEF Read
      <4>. QED  BY <1>2, <1>3, <2>2, <4>1, <4>2 DEF FirstStep, HoldingSteps
    <3>3. ASSUME NEW q \in Handlers \ {p}, LogsIn(q, f) PROVE FALSE
      <4>1. Holds(q, r.cred)
        BY <1>2, <1>3, <3>1, <3>2, <3>3 DEF LoginInv, LoginsHeld
      <4>2. req[q].cred # r.cred
        BY <1>2, <1>3, <3>1, <3>2
      <4>3. Replacing(q) /\ req[q].mark = r.cred
        BY <4>1, <4>2 DEF Holds
      <4>4. creds[r.cred].kind \in {"none", "refresh"}
        <5>1. req[q].serial # 0
          BY <4>3, Serving, Bounds DEF Replacing, Serials
        <5>. QED  BY <4>3, <5>1 DEF LoginInv, Replacements
      <4>5. Answered(r.cred)
        BY <3>1, <4>4 DEF SessionCreds
      <4>. QED  BY <4>3, <4>5 DEF Answered, Replacing
    <3>4. ASSUME NEW c \in SessionCreds, creds[c].root = f, c # r.cred PROVE FALSE
      <4>1. PICK q \in Handlers : Replacing(q) /\ LogsIn(q, f)
        BY <1>2, <1>3, <3>1, <3>2, <3>4 DEF LoginInv, LoginsReplaced
      <4>2. q # p
        BY <1>2, <4>1 DEF Replacing
      <4>. QED  BY <3>3, <4>1, <4>2
    <3>. QED  BY <3>2, <3>3, <3>4
  <2>. QED  BY <1>3, <2>1, <2>2 DEF SessionOps
<1>4. \A f : LogsIn(p, f)' <=> r.op \in SessionOps /\ req'[p].root = f
  BY <1>2 DEF LogsIn
<1>5. \A q \in Handlers \ {p} : /\ \A f : LogsIn(q, f)' <=> LogsIn(q, f)
                                /\ \A c : Holds(q, c)' <=> Holds(q, c)
                                /\ Replacing(q)' <=> Replacing(q)
  BY <1>2 DEF LogsIn, Holds, Replacing
<1>6. LoginsAlone'
  BY <1>2, <1>3, <1>4, <1>5 DEF LoginInv, LoginsAlone
<1>7. SessionCreds' = SessionCreds
  BY <1>2 DEF SessionCreds
<1>8. LoginsHeld'
  <2>1. SUFFICES ASSUME NEW q \in Handlers, NEW c \in SessionCreds,
                        LogsIn(q, creds[c].root)', creds[c].root \notin forked'
                 PROVE  Holds(q, c)'
    BY <1>2, <1>7 DEF LoginsHeld
  <2>2. CASE q = p
    <3>1. r.op \in SessionOps /\ req'[p].root = creds[c].root
      BY <1>2, <2>1, <2>2 DEF LogsIn
    <3>2. c = r.cred /\ r.at \in HoldingSteps
      BY <1>3, <2>1, <3>1
    <3>. QED  BY <1>2, <2>2, <3>2 DEF Holds
  <2>3. CASE q # p
    <3>1. LogsIn(q, creds[c].root)
      BY <1>2, <2>1, <2>3 DEF LogsIn
    <3>2. Holds(q, c)
      BY <1>2, <2>1, <3>1 DEF LoginInv, LoginsHeld
    <3>. QED  BY <1>5, <2>3, <3>2
  <2>. QED  BY <2>2, <2>3
<1>9. LoginsReplaced'
  <2>1. SUFFICES ASSUME NEW c \in SessionCreds, NEW d \in SessionCreds,
                        creds[c].root = creds[d].root, creds[c].root \notin forked', c # d
                 PROVE  \E q \in Handlers : /\ Replacing(q)' /\ LogsIn(q, creds[c].root)'
                                            /\ {c, d} = {req'[q].cred, req'[q].mark}
    BY <1>2, <1>7 DEF LoginsReplaced
  <2>2. PICK q \in Handlers : /\ Replacing(q) /\ LogsIn(q, creds[c].root)
                              /\ {c, d} = {req[q].cred, req[q].mark}
    BY <1>2, <2>1 DEF LoginInv, LoginsReplaced
  <2>3. q # p
    BY <1>2, <2>2 DEF Replacing
  <2>4. req'[q] = req[q] /\ Replacing(q)' /\ LogsIn(q, creds[c].root)'
    BY <1>2, <2>2, <2>3 DEF Replacing, LogsIn
  <2>. QED  BY <2>2, <2>4
<1>. QED  BY <1>6, <1>8, <1>9

\* A login goes on in what its handler inserts.
LEMMA InsertLogins ==
  ASSUME TypeOK, LoginInv, NEW p \in Handlers, createAuthState(p) \/ createRefreshToken(p)
  PROVE  LoginsAlone' /\ LoginsHeld' /\ LoginsReplaced'
<1>1. /\ req[p].at \in {"open", "issue"} /\ UNCHANGED forked
      /\ \A q \in Handlers \ {p} : req'[q] = req[q]
      /\ req'[p] = Idle \/ Same(p)
  BY ServeKeeps DEF createAuthState, createRefreshToken, Keeps, Same
<1>2. /\ req[p].op # "refresh" => req'[p] = Idle
      /\ req'[p] # Idle => /\ createRefreshToken(p) /\ req[p].op = "refresh"
                           /\ req'[p].at = "discard" /\ req'[p].mark = req[p].serial
  BY Onward DEF createAuthState, createRefreshToken, Return, TypeOK
<1>3. /\ req[p].op \in OpsAt(req[p].at) /\ req[p].serial \in Serials
      /\ req[p].root \in Serials
  BY <1>1, Serving DEF LoginInv, AllOnPath, OnPath
<1>4. Next
  BY DEF Next, Serve
<1>. DEFINE n == req[p].serial
            f == req[p].root
<1>5. ASSUME NEW c \in SessionCreds'
      PROVE  \/ c \in SessionCreds /\ creds'[c] = creds[c]
             \/ c = n /\ creds'[c].root = f /\ req[p].op \in SessionOps
  <2>1. CASE creds'[c] = creds[c]
    BY <2>1 DEF SessionCreds
  <2>2. CASE creds'[c] # creds[c]
    <3>1. c = n /\ creds'[c].root = f
      <4>1. PICK kind : Insert(p, kind)
        BY DEF createAuthState, createRefreshToken
      <4>. QED  BY <1>3, <2>2, <4>1 DEF Insert, TypeOK, SessionCreds
    <3>2. createAuthState(p) => req[p].op \in SessionOps
      <4>1. CASE createAuthState(p)
        <5>1. PICK kind : kind = CASE req[p].op = "login" -> "request"
                                   [] req[p].op = "callback" -> "cache"
                                   [] OTHER -> "reset"
          OBVIOUS
        <5>2. Insert(p, kind)
          BY <4>1, <5>1 DEF createAuthState
        <5>3. creds'[c].kind = kind
          BY <1>3, <2>2, <3>1, <5>2 DEF Insert, TypeOK, SessionCreds
        <5>4. kind # "reset"
          BY <5>3 DEF SessionCreds
        <5>. QED  BY <5>1, <5>4 DEF SessionOps
      <4>. QED  BY <4>1
    <3>3. createRefreshToken(p) => req[p].op \in SessionOps
      BY <1>3 DEF createRefreshToken, OpsAt, SessionOps
    <3>. QED  BY <3>1, <3>2, <3>3
  <2>. QED  BY <2>1, <2>2
<1>. HIDE DEF n, f
<1>6. \A q \in Handlers : \A g : LogsIn(q, g)' => LogsIn(q, g)
  BY <1>1 DEF LogsIn, Same, Idle, SessionOps
<1>7. LoginsAlone'
  BY <1>1, <1>6 DEF LoginInv, LoginsAlone
\* Nothing is held but the token that is replaced.
<1>8. ASSUME NEW c \in SessionCreds, creds[c].root = f, f \notin forked,
             req[p].op \in SessionOps
      PROVE  req[p].op = "refresh" /\ c = req[p].cred
  <2>1. LogsIn(p, f)
    BY <1>8 DEF LogsIn, f
  <2>2. Holds(p, c)
    BY <1>8, <2>1 DEF LoginInv, LoginsHeld
  <2>. QED  BY <1>1, <2>2 DEF Holds, HoldingSteps, Replacing
<1>9. LoginsHeld'
  <2>1. SUFFICES ASSUME NEW q \in Handlers, NEW c \in SessionCreds',
                        LogsIn(q, creds[c].root)', creds'[c].root \notin forked
                 PROVE  Holds(q, c)'
    BY <1>1 DEF LoginsHeld
  <2>2. PICK g : g = creds'[c].root
    OBVIOUS
  <2>3. LogsIn(q, g) /\ req'[q] # Idle
    BY <1>6, <2>1, <2>2 DEF LogsIn, Idle, SessionOps
  <2>4. CASE q = p
    <3>1. /\ req[p].op = "refresh" /\ req'[p].op = "refresh" /\ req'[p].at = "discard"
          /\ req'[p].mark = n /\ req'[p].cred = req[p].cred
      BY <1>1, <1>2, <2>3, <2>4 DEF Same, n
    <3>2. c = n \/ c = req[p].cred
      BY <1>5, <1>8, <2>1, <2>2, <2>3, <2>4 DEF LogsIn, f
    <3>. QED  BY <2>4, <3>1, <3>2 DEF Holds, Replacing
  <2>5. CASE q # p
    <3>1. ~(g = f /\ req[p].op \in SessionOps)
      BY <1>1, <1>3, <2>1, <2>2, <2>3, <2>5 DEF LoginInv, LoginsAlone, LogsIn, f
    <3>2. c \in SessionCreds /\ creds'[c] = creds[c]
      BY <1>5, <2>2, <3>1
    <3>3. Holds(q, c)
      BY <1>1, <2>1, <2>2, <2>3, <3>2 DEF LoginInv, LoginsHeld
    <3>. QED  BY <1>1, <2>5, <3>3 DEF Holds, Replacing
  <2>. QED  BY <2>4, <2>5
<1>10. LoginsReplaced'
  <2>1. SUFFICES ASSUME NEW c \in SessionCreds', NEW d \in SessionCreds',
                        creds'[c].root = creds'[d].root, creds'[c].root \notin forked, c # d
                 PROVE  \E q \in Handlers : /\ Replacing(q)' /\ LogsIn(q, creds[c].root)'
                                            /\ {c, d} = {req'[q].cred, req'[q].mark}
    BY <1>1 DEF LoginsReplaced
  <2>2. CASE /\ c \in SessionCreds /\ creds'[c] = creds[c]
             /\ d \in SessionCreds /\ creds'[d] = creds[d]
    <3>1. PICK q \in Handlers : /\ Replacing(q) /\ LogsIn(q, creds[c].root)
                                /\ {c, d} = {req[q].cred, req[q].mark}
      BY <2>1, <2>2 DEF LoginInv, LoginsReplaced
    <3>2. q # p
      BY <1>1, <3>1 DEF Replacing
    <3>3. req'[q] = req[q]
      BY <1>1, <3>2
    <3>4. Replacing(q)' /\ LogsIn(q, creds[c].root)'
      BY <2>2, <3>1, <3>3 DEF Replacing, LogsIn
    <3>. QED  BY <3>1, <3>3, <3>4
  <2>3. ASSUME NEW a \in SessionCreds, creds'[a] = creds[a], creds[a].root = f, f \notin forked,
               a # n, req[p].op \in SessionOps
        PROVE  /\ req'[p].op = "refresh" /\ req'[p].at = "discard"
               /\ req'[p].root = creds[a].root
               /\ a = req'[p].cred /\ n = req'[p].mark
    <3>1. req[p].op = "refresh" /\ a = req[p].cred
      BY <1>8, <2>3
    <3>2. createRefreshToken(p)
      BY <3>1, <1>3 DEF createAuthState, OpsAt
    <3>3. req' = [req EXCEPT ![p].at = "discard", ![p].mark = req[p].serial]
      BY <3>1, <3>2 DEF createRefreshToken
    <3>4. req[p] \in Request
      BY <1>1, Serving
    <3>5. /\ req'[p].at = "discard" /\ req'[p].mark = n /\ req'[p].op = "refresh"
          /\ req'[p].root = f /\ req'[p].cred = req[p].cred
      BY <3>1, <3>3, <3>4 DEF Request, TypeOK, n, f
    <3>. QED  BY <2>3, <3>1, <3>5
  <2>4. CASE /\ c \in SessionCreds /\ creds'[c] = creds[c] /\ c # n /\ d = n
             /\ creds'[d].root = f /\ req[p].op \in SessionOps
    <3>1. f \notin forked /\ creds[c].root = f
      BY <1>1, <2>1, <2>4
    <3>2. /\ req'[p].op = "refresh" /\ req'[p].at = "discard"
          /\ req'[p].root = creds'[c].root
          /\ {c, d} = {req'[p].cred, req'[p].mark}
      BY <2>3, <2>4, <3>1
    <3>. QED  BY <3>2 DEF LogsIn, Replacing, SessionOps
  <2>5. CASE /\ d \in SessionCreds /\ creds'[d] = creds[d] /\ d # n /\ c = n
             /\ creds'[c].root = f /\ req[p].op \in SessionOps
    <3>1. f \notin forked /\ creds[d].root = f
      BY <1>1, <2>1, <2>5
    <3>2. /\ req'[p].op = "refresh" /\ req'[p].at = "discard"
          /\ req'[p].root = creds'[c].root
          /\ {c, d} = {req'[p].cred, req'[p].mark}
      BY <2>1, <2>3, <2>5, <3>1
    <3>. QED  BY <3>2 DEF LogsIn, Replacing, SessionOps
  <2>. QED  BY <1>5, <2>1, <2>2, <2>4, <2>5
<1>. QED  BY <1>7, <1>9, <1>10

\* A step that inserts nothing ends what it does not keep.
LEMMA ServeLogins ==
  ASSUME TypeOK, LoginInv, NEW p \in Handlers, Serve(p),
         ~createAuthState(p), ~createRefreshToken(p)
  PROVE  LoginsAlone' /\ LoginsHeld' /\ LoginsReplaced'
<1>1. /\ forked \subseteq forked'
      /\ \A q \in Handlers : req'[q] = Idle \/ Same(q)
  BY OtherSteps
<1>2. \A q \in Handlers \ {p} : req'[q] = req[q]
  BY ServeKeeps DEF Serve, Keeps
<1>3. \A c \in SessionCreds' : creds'[c] = creds[c]
  BY CredsStay DEF SessionCreds
<1>4. req[p].at # "idle" /\ req[p].op \in OpsAt(req[p].at)
  <2>1. req[p].at # "idle"
    BY DEF Serve, RecordLoginAttempt, readLastSuccess, checkBanUser, Update, Delete,
       checkLimit, Create, getUser, findUser, admit, deleteCredential
  <2>. QED  BY <2>1 DEF LoginInv, AllOnPath, OnPath
\* A deletion succeeds, or forks the login.
<1>5. ASSUME deleteCredential(p)
      PROVE  req[p].cred \notin SessionCreds' \/ req[p].root \in forked'
  <2>1. CASE creds' = [creds EXCEPT ![req[p].cred] = Unused]
    BY <2>1 DEF TypeOK, SessionCreds, Unused
  <2>2. CASE forked' = forked \cup {req[p].root}
    BY <2>2
  <2>. QED  BY <1>5, <2>1, <2>2 DEF deleteCredential
<1>6. ASSUME NEW c \in SessionCreds', req'[p] # Idle, Holds(p, c),
             LogsIn(p, creds[c].root), creds[c].root \notin forked'
      PROVE  Holds(p, c)'
  <2>1. /\ req'[p].cred = req[p].cred /\ req'[p].op = req[p].op
        /\ req[p].op \in SessionOps /\ req[p].root \notin forked'
    BY <1>1, <1>6 DEF Same, LogsIn
  <2>2. CASE deleteCredential(p)
    <3>1. req[p].at = "discard" /\ req[p].op # "refresh"
      BY <1>6, <2>2, Onward DEF deleteCredential
    <3>2. c = req[p].cred
      BY <1>6, <3>1 DEF Holds, Replacing
    <3>. QED  BY <1>5, <2>1, <2>2, <3>2
  <2>3. CASE ~deleteCredential(p)
    <3>1. req[p].at # "discard"
      BY <2>3 DEF Serve, RecordLoginAttempt, readLastSuccess, checkBanUser, Update, Delete,
         checkLimit, Create, getUser, findUser, admit
    <3>2. c = req[p].cred /\ (req[p].at \in HoldingSteps \/ req[p].op = "refresh")
      BY <1>6, <3>1 DEF Holds, Replacing
    <3>3. CASE req[p].op = "refresh"
      BY <2>1, <3>2, <3>3 DEF Holds
    <3>4. CASE req[p].op # "refresh" /\ req[p].at \in {"findUser", "limit", "insert"}
      <4>1. req'[p].at \in {"limit", "insert", "discard"}
        <5>1. findUser(p) \/ checkLimit(p) \/ Create(p)
          BY <2>3, <3>4 DEF Serve, RecordLoginAttempt, readLastSuccess, checkBanUser,
             Update, Delete, getUser, admit
        <5>. QED  BY <1>6, <5>1, ServeKeeps DEF Keeps
      <4>. QED  BY <2>1, <3>2, <4>1 DEF Holds, HoldingSteps
    <3>5. CASE req[p].op # "refresh" /\ req[p].at = "account"
      BY <1>4, <2>1, <3>5 DEF OpsAt, SessionOps
    <3>. QED  BY <3>1, <3>2, <3>3, <3>4, <3>5 DEF HoldingSteps
  <2>. QED  BY <2>2, <2>3
<1>7. \A q \in Handlers, c \in SessionCreds' :
        /\ req'[q] # Idle /\ Holds(q, c)
        /\ LogsIn(q, creds[c].root) /\ creds[c].root \notin forked'
        => Holds(q, c)'
  <2>1. \A q \in Handlers \ {p} : \A c : Holds(q, c) => Holds(q, c)'
    BY <1>2 DEF Holds, Replacing
  <2>. QED  BY <1>6, <2>1
<1>8. \A q \in Handlers : Replacing(q) =>
        \/ Replacing(q)' /\ req'[q].mark = req[q].mark
        \/ req[q].root \in forked' \/ req[q].cred \notin SessionCreds'
  <2>1. \A q \in Handlers \ {p} : Replacing(q) => Replacing(q)' /\ req'[q].mark = req[q].mark
    BY <1>2 DEF Replacing
  <2>2. Replacing(p) => deleteCredential(p)
    BY DEF Replacing, Serve, RecordLoginAttempt, readLastSuccess, checkBanUser, Update, Delete,
       checkLimit, Create, getUser, findUser, admit
  <2>. QED  BY <1>5, <2>1, <2>2
<1>. QED  BY <1>1, <1>3, <1>7, <1>8, SameLogins DEF LoginInv

\* Nor do the clean-up, time and a crash, which forks what it interrupts.
LEMMA WorldLogins ==
  ASSUME TypeOK, LoginInv, Cleanup \/ Tick \/ Crash
  PROVE  LoginsAlone' /\ LoginsHeld' /\ LoginsReplaced'
<1>1. /\ forked \subseteq forked'
      /\ \A q \in Handlers : req'[q] = Idle \/ Same(q)
  BY OtherSteps
<1>2. \A c \in SessionCreds' : creds'[c] = creds[c]
  BY CredsStay DEF SessionCreds
<1>3. CASE Cleanup \/ Tick
  <2>1. req' = req
    BY <1>3 DEF Cleanup, Tick
  <2>2. \A q \in Handlers : /\ \A c : Holds(q, c) => Holds(q, c)'
                            /\ Replacing(q) => Replacing(q)' /\ req'[q].mark = req[q].mark
    BY <2>1 DEF Holds, Replacing
  <2>. QED  BY <1>1, <1>2, <2>2, SameLogins DEF LoginInv
<1>4. CASE Crash
  <2>1. \A q \in Handlers : req'[q] = Idle
    BY <1>4 DEF Crash
  <2>2. \A q \in Handlers : Replacing(q) => \/ req[q].root \in forked'
                                            \/ req[q].cred \notin SessionCreds'
    <3>1. \A q \in Handlers : req[q].at # "idle" /\ req[q].cred # 0 => req[q].root \in forked'
      BY <1>4 DEF Crash
    <3>2. 0 \notin SessionCreds'
      BY Bounds DEF SessionCreds, Serials
    <3>. QED  BY <3>1, <3>2 DEF Replacing
  <2>. QED  BY <1>1, <1>2, <2>1, <2>2, SameLogins DEF LoginInv
<1>. QED  BY <1>3, <1>4

LEMMA RootedStep ==
  ASSUME TypeOK, ResetInv, LoginInv, Next
  PROVE  Rooted'
<1>0. /\ serial \in Nat /\ \A c \in SessionCreds : creds[c].root \in Nat
      /\ \A p \in Handlers : req[p].root \in Nat
  <2>1. serial \in Nat
    BY Bounds DEF TypeOK
  <2>2. \A c \in SessionCreds : creds[c].root \in Serials
    BY CredFields DEF SessionCreds, Kinds
  <2>3. \A p \in Handlers : req[p].root \in Serials \cup {0}
    BY DEF TypeOK, Request, Idle
  <2>. QED  BY <2>1, <2>2, <2>3, Bounds DEF Serials
<1>1. serial' \in Nat /\ serial <= serial'
  <2>1. ASSUME NEW p \in Handlers, Arrive(p) PROVE serial' = serial + 1
    BY <2>1, ArriveBegins, Arrival
  <2>. QED  BY <1>0, <2>1, OtherSteps DEF Next
<1>2. ASSUME NEW c \in SessionCreds' PROVE creds'[c].root <= serial'
  <2>1. c \in Serials /\ creds'[c].kind # "none"
    BY DEF SessionCreds
  <2>2. CASE creds'[c] = creds[c]
    <3>1. c \in SessionCreds
      BY <2>2 DEF SessionCreds
    <3>. QED  BY <1>0, <1>1, <2>2, <3>1 DEF LoginInv, Rooted
  <2>3. ASSUME NEW p \in Handlers, Inserts(p, c) PROVE creds'[c].root <= serial'
    BY <1>0, <1>1, <2>3 DEF LoginInv, Rooted, Inserts
  <2>. QED  BY <2>1, <2>2, <2>3, CredsAppear
<1>3. ASSUME NEW p \in Handlers, Arrive(p) PROVE \A q \in Handlers : req'[q].root <= serial'
  <2>1. PICK r \in Fresh : Begin(p, r) /\ Read(r)
    BY <1>3, ArriveBegins
  <2>2. /\ serial' = serial + 1
        /\ req'[p].root = IF r.root = 0 THEN serial + 1 ELSE r.root
        /\ \A q \in Handlers \ {p} : req'[q] = req[q]
    BY <2>1, Arrival
  <2>3. CASE r.op \in {"callback", "verify", "refresh"}
    <3>1. r.cred \in SessionCreds /\ r.root = creds[r.cred].root
      BY <2>1, <2>3 DEF Read, Presents, SessionCreds
    <3>. QED  BY <1>0, <2>2, <3>1 DEF LoginInv, Rooted
  <2>4. CASE r.op = "completeReset"
    <3>1. r.cred \in Serials /\ r.root = creds[r.cred].root /\ creds[r.cred].kind = "reset"
      BY <2>1, <2>4 DEF Read
    <3>2. r.root = r.cred /\ r.cred <= serial /\ r.cred \in Nat
      BY <3>1, Bounds DEF ResetInv, ResetsSettled, Settled, Serials
    <3>. QED  BY <1>0, <2>2, <3>2 DEF LoginInv, Rooted
  <2>5. CASE r.op \notin {"callback", "verify", "refresh", "completeReset"}
    <3>1. r.root = 0
      BY <2>1, <2>5 DEF Read, Presents
    <3>. QED  BY <1>0, <2>2, <3>1 DEF LoginInv, Rooted
  <2>. QED  BY <2>3, <2>4, <2>5
<1>4. ASSUME (\E p \in Handlers : Serve(p)) \/ Cleanup \/ Tick \/ Crash
      PROVE  \A q \in Handlers : req'[q].root <= serial'
  <2>1. serial' = serial /\ \A q \in Handlers : req'[q].root \in {0, req[q].root}
    BY <1>4, OtherSteps DEF Same, Idle
  <2>. QED  BY <1>0, <2>1 DEF LoginInv, Rooted
<1>. QED  BY <1>2, <1>3, <1>4 DEF Next, Rooted

\* A refresh is about to delete the old token only once it has inserted the new one.
LEMMA BeginsReplacing ==
  ASSUME TypeOK, AllOnPath, NEW p \in Handlers, ~Replacing(p), Replacing(p)',
         (\E q \in Handlers : Serve(q)) \/ Cleanup \/ Tick \/ Crash
  PROVE  createRefreshToken(p)
<1>1. req'[p] # Idle /\ req'[p] # req[p]
  BY DEF Replacing, Idle
<1>2. Serve(p)
  <2>1. \A q \in Handlers : Serve(q) => \A o \in Handlers \ {q} : req'[o] = req[o]
    BY ServeKeeps DEF Serve, Keeps
  <2>2. Cleanup \/ Tick \/ Crash => \A o \in Handlers : req'[o] \in {req[o], Idle}
    BY DEF Cleanup, Tick, Crash
  <2>. QED  BY <1>1, <2>1, <2>2
<1>3. req[p].op = "refresh" /\ req'[p].at = "discard"
  BY <1>1, <1>2, OtherSteps DEF Replacing, Same
<1>4. ~Update(p) /\ ~Create(p) /\ ~deleteCredential(p)
  BY <1>1, <1>3, Onward DEF Bans
<1>5. ~findUser(p)
  <2>1. req[p].at = "findUser" => req[p].op = "verify"
    BY DEF AllOnPath, OnPath, OpsAt
  <2>. QED  BY <1>3, <2>1 DEF findUser
<1>. QED  BY <1>1, <1>2, <1>3, <1>4, <1>5, ServeKeeps DEF Serve, Keeps

LEMMA ReplacementsStep ==
  ASSUME TypeOK, ResetInv, LoginInv, Next
  PROVE  Replacements'
<1>0. /\ serial \in Nat
      /\ \A q \in Handlers : req[q].serial # 0 =>
           /\ req[q].serial \in Serials /\ req[q].serial <= serial
           /\ req[q] # Idle
  <2>1. \A q \in Handlers : req[q] = Idle \/ req[q].serial \in Serials
    BY DEF TypeOK, Request
  <2>. QED  BY <2>1, Bounds DEF TypeOK, Idle, ResetInv, Numbered
<1>a. \A c \in Serials : c \in Nat /\ c # 0
  BY Bounds DEF Serials
<1>1. ASSUME NEW p \in Handlers, Arrive(p) PROVE Replacements'
  <2>1. PICK r \in Fresh : Begin(p, r) /\ Read(r)
    BY <1>1, ArriveBegins
  <2>2. /\ serial' = serial + 1 /\ creds' = creds
        /\ req'[p].serial = serial + 1 /\ req'[p].op = r.op /\ req'[p].at = r.at
        /\ \A q \in Handlers \ {p} : req'[q] = req[q]
    BY <2>1, Arrival
  <2>3. \A c \in Serials : c > serial' => creds'[c].kind = "none"
    BY <1>0, <1>a, <2>2 DEF LoginInv, Replacements
  <2>4. ~Replacing(p)'
    BY <2>1, <2>2 DEF Replacing, Read, FirstStep
  <2>5. creds'[serial + 1].kind = "none"
    <3>1. serial + 1 \in Serials
      <4>1. serial < scenario.requests /\ scenario.requests <= MaxRequests
            /\ scenario.requests \in Nat
        BY <2>1, Bounds DEF TypeOK, Begin
      <4>. QED  BY <1>0, <4>1, Bounds DEF Serials
    <3>. QED  BY <1>0, <2>2, <3>1 DEF LoginInv, Replacements
  <2>6. \A q \in Handlers \ {p} : Replacing(q)' <=> Replacing(q)
    BY <2>2 DEF Replacing
  <2>. QED  BY <2>2, <2>3, <2>4, <2>5, <2>6 DEF LoginInv, Replacements
<1>2. ASSUME (\E p \in Handlers : Serve(p)) \/ Cleanup \/ Tick \/ Crash PROVE Replacements'
  <2>1. serial' = serial /\ \A q \in Handlers : req'[q] = Idle \/ Same(q)
    BY <1>2, OtherSteps
  \* What a request inserts has its number, and it goes on only when it refreshes.
  <2>2. ASSUME NEW q \in Handlers, NEW c \in Serials, Inserts(q, c)
        PROVE  /\ req[q].serial = c /\ c <= serial
               /\ req'[q] # Idle => createRefreshToken(q) /\ creds'[c].kind = "refresh"
    <3>1. req[q].serial = c
      BY <2>2 DEF Inserts
    <3>2. createAuthState(q) => req'[q] = Idle
      BY DEF createAuthState, Return, TypeOK
    <3>. QED  BY <1>0, <1>a, <2>2, <3>1, <3>2 DEF Inserts
  <2>3. \A c \in Serials : c > serial' => creds'[c].kind = "none"
    <3>1. SUFFICES ASSUME NEW c \in Serials, c > serial, creds'[c].kind # "none"
                   PROVE  FALSE
      BY <2>1
    <3>2. creds[c].kind = "none"
      BY <3>1 DEF LoginInv, Replacements
    <3>. QED  BY <1>0, <1>a, <2>2, <3>1, <3>2, CredsAppear
  <2>4. ASSUME NEW p \in Handlers, req'[p].serial # 0
        PROVE  IF Replacing(p)'
               THEN req'[p].mark = req'[p].serial
                    /\ creds'[req'[p].serial].kind \in {"none", "refresh"}
               ELSE creds'[req'[p].serial].kind = "none"
    <3>1. req'[p] # Idle /\ Same(p) /\ req'[p].serial = req[p].serial
      BY <2>1, <2>4 DEF Idle, Same
    <3>2. PICK c \in Serials : c = req[p].serial
      BY <1>0, <2>4, <3>1
    <3>3. \/ creds'[c].kind \in {"none", creds[c].kind}
          \/ createRefreshToken(p) /\ creds'[c].kind = "refresh"
      <4>1. ASSUME NEW q \in Handlers, Inserts(q, c)
            PROVE  createRefreshToken(p) /\ creds'[c].kind = "refresh"
        <5>1. q = p
          BY <1>a, <2>2, <3>2, <4>1 DEF ResetInv, Numbered
        <5>. QED  BY <2>2, <3>1, <4>1, <5>1
      <4>. QED  BY <4>1, CredsAppear
    <3>4. CASE createRefreshToken(p)
      <4>1. req[p].op = "refresh" /\ req'[p].at = "discard" /\ req'[p].mark = req[p].serial
        BY <3>1, <3>4, Onward
      <4>2. Replacing(p)' /\ ~Replacing(p)
        BY <3>1, <3>4, <4>1 DEF Replacing, Same, createRefreshToken
      <4>3. creds[c].kind = "none"
        BY <1>a, <3>2, <4>2 DEF LoginInv, Replacements
      <4>. QED  BY <3>1, <3>2, <3>3, <4>1, <4>2, <4>3
    <3>5. CASE ~createRefreshToken(p) /\ Replacing(p)
      <4>1. req'[p] = req[p]
        <5>1. Serve(p) => deleteCredential(p)
          BY <3>5 DEF Replacing, Serve, RecordLoginAttempt, readLastSuccess, checkBanUser,
             Update, Delete, checkLimit, Create, getUser, findUser, admit, createAuthState
        <5>2. ~deleteCredential(p)
          BY <3>1, <3>5, Onward DEF Replacing
        <5>3. \A q \in Handlers : Serve(q) => \A o \in Handlers \ {q} : req'[o] = req[o]
          BY ServeKeeps DEF Serve, Keeps
        <5>4. Cleanup \/ Tick \/ Crash => \A o \in Handlers : req'[o] \in {req[o], Idle}
          BY DEF Cleanup, Tick, Crash
        <5>. QED  BY <1>2, <3>1, <5>1, <5>2, <5>3, <5>4
      <4>2. /\ Replacing(p)' /\ req[p].mark = req[p].serial
            /\ creds[c].kind \in {"none", "refresh"}
        BY <1>a, <3>2, <3>5, <4>1 DEF Replacing, LoginInv, Replacements
      <4>. QED  BY <3>1, <3>2, <3>3, <3>5, <4>1, <4>2
    <3>6. CASE ~createRefreshToken(p) /\ ~Replacing(p)
      <4>1. ~Replacing(p)'
        BY <1>2, <3>6, BeginsReplacing DEF LoginInv
      <4>2. creds[c].kind = "none"
        BY <1>a, <3>2, <3>6 DEF LoginInv, Replacements
      <4>. QED  BY <3>1, <3>2, <3>3, <3>6, <4>1, <4>2
    <3>. QED  BY <3>4, <3>5, <3>6
  <2>. QED  BY <2>3, <2>4 DEF Replacements
<1>. QED  BY <1>1, <1>2 DEF Next

\* Logins have one credential from the start, and every step keeps it so.
LEMMA LoginsBegin == Init => LoginInv
<1>. SUFFICES ASSUME Init PROVE LoginInv
  OBVIOUS
<1>1. /\ \A p \in Handlers : req[p] = Idle
      /\ \A c \in Serials : creds[c].kind = "none"
      /\ serial = 0
  BY DEF Init, Unused
<1>2. SessionCreds = {}
  BY <1>1 DEF SessionCreds
<1>3. AllOnPath /\ LoginsAlone /\ LoginsHeld /\ LoginsReplaced
  BY <1>1, <1>2 DEF AllOnPath, OnPath, LoginsAlone, LoginsHeld, LoginsReplaced, LogsIn,
     SessionOps, Idle
<1>4. Rooted /\ Replacements
  BY <1>1, <1>2 DEF Rooted, Replacements, Idle
<1>. QED  BY <1>3, <1>4 DEF LoginInv

LEMMA LoginsGoOn ==
  ASSUME TypeOK, ResetInv, LoginInv, [Next]_vars
  PROVE  LoginInv'
<1>1. Next => LoginInv'
  <2>. SUFFICES ASSUME Next PROVE LoginInv'
    OBVIOUS
  <2>1. LoginsAlone' /\ LoginsHeld' /\ LoginsReplaced'
    BY ArriveLogins, InsertLogins, ServeLogins, WorldLogins DEF Next
  <2>. QED  BY <2>1, OnPathStep, RootedStep, ReplacementsStep DEF LoginInv
<1>2. UNCHANGED vars => LoginInv'
  BY DEF LoginInv, AllOnPath, OnPath, LoginsAlone, LoginsHeld, LoginsReplaced, LogsIn,
     Rooted, Replacements, Replacing, Holds, SessionCreds, vars
<1>. QED  BY <1>1, <1>2

\* However often its tokens are refreshed, and whatever arrives, interleaves, fails or
\* is interrupted, a login that was not forked has one credential alive
\* (auth-router.go 121-155, 311-377, 488-537).
THEOREM LoginsHaveOneCredential == Spec => []OneCredentialPerLogin
<1>1. LoginInv => OneCredentialPerLogin
  <2>. SUFFICES ASSUME LoginInv, NEW c \in SessionCreds, NEW d \in SessionCreds,
                       creds[c].root = creds[d].root, creds[c].root \notin forked,
                       ~Pending(c), ~Pending(d), c # d
                PROVE  FALSE
    BY DEF OneCredentialPerLogin
  <2>1. PICK p \in Handlers : Replacing(p) /\ {c, d} = {req[p].cred, req[p].mark}
    BY DEF LoginInv, LoginsReplaced
  <2>. QED  BY <2>1 DEF Replacing, Pending
<1>2. Init => ResetInv /\ LoginInv
  BY ResetsBegin, LoginsBegin
<1>3. TypeOK /\ ResetInv /\ LoginInv /\ [Next]_vars => ResetInv' /\ LoginInv'
  BY ResetsGoOn, LoginsGoOn
<1>. QED  BY <1>1, <1>2, <1>3, TypeCorrect, PTL DEF Spec

----------------------------------------------------------------------------
(* The threshold and the ban.                                              *)

\* Enough failed attempts on account <<e, id>> since its last success.
Overdue(e, id) == Cardinality(FailsSince(LastSuccess(e, id), e, id)) >= MaxFails

\* The number of the last success is that of an attempt, and no attempt is lost.
LEMMA LastSuccessBounds ==
  ASSUME TypeOK, NEW e, NEW id
  PROVE  /\ LastSuccess(e, id) \in 0 .. Len(attempts)
         /\ Len(attempts) \in Nat
<1>1. attempts \in Seq(Attempt)
  BY DEF TypeOK
<1>2. Successes(e, id) \subseteq 1 .. Len(attempts) /\ Len(attempts) \in Nat
  BY <1>1 DEF Successes, AttemptsOf
<1>. QED  BY <1>2 DEF LastSuccess

\* There are finitely many failed attempts.
LEMMA FailsFinite ==
  ASSUME TypeOK, NEW m, NEW e, NEW id
  PROVE  /\ IsFiniteSet(FailsSince(m, e, id))
         /\ Cardinality(FailsSince(m, e, id)) \in Nat
<1>1. attempts \in Seq(Attempt)
  BY DEF TypeOK
<1>2. FailsSince(m, e, id) \subseteq 1 .. Len(attempts) /\ Len(attempts) \in Nat
  BY <1>1 DEF FailsSince, AttemptsOf
<1>3. IsFiniteSet(1 .. Len(attempts))
  BY <1>2, FS_Interval
<1>. QED  BY <1>2, <1>3, FS_Subset, FS_CardinalityType

\* Time brings no failed attempts, and a later mark counts fewer.
LEMMA FewerFails ==
  ASSUME TypeOK, NEW e, NEW id, NEW m \in Nat, NEW l \in Nat, l <= m
  PROVE  Cardinality(FailsSince(m, e, id)) <= Cardinality(FailsSince(l, e, id))
<1>1. \A i \in AttemptsOf(e, id) : i \in Nat
  BY DEF AttemptsOf, TypeOK
<1>2. FailsSince(m, e, id) \subseteq FailsSince(l, e, id)
  BY <1>1 DEF FailsSince
<1>. QED  BY <1>2, FailsFinite, FS_Subset

LEMMA OverdueRests ==
  ASSUME TypeOK, NEW e, NEW id, UNCHANGED attempts, now' \in {now, now + 1}, Overdue(e, id)'
  PROVE  Overdue(e, id)
<1>1. /\ AttemptsOf(e, id)' = AttemptsOf(e, id) /\ LastSuccess(e, id)' = LastSuccess(e, id)
  BY DEF AttemptsOf, LastSuccess, Successes
<1>2. PICK m : m = LastSuccess(e, id)
  OBVIOUS
<1>3. PICK F : F = FailsSince(m, e, id)'
  OBVIOUS
<1>4. F \subseteq FailsSince(m, e, id)
  <2>1. now \in Nat /\ Window \in Nat
    BY Bounds DEF TypeOK
  <2>2. \A i \in AttemptsOf(e, id) : attempts[i].at \in Nat
    <3>1. \A i \in DOMAIN attempts : attempts[i] \in Attempt
      BY DEF TypeOK
    <3>. QED  BY <3>1 DEF AttemptsOf, Attempt
  <2>3. F = {i \in AttemptsOf(e, id) : attempts[i].at > now' - Window /\ i > m}
    BY <1>1, <1>3 DEF FailsSince
  <2>4. \A i \in F : attempts[i].at > now - Window
    BY <2>1, <2>2, <2>3
  <2>. QED  BY <2>3, <2>4 DEF FailsSince
<1>5. Cardinality(F) >= MaxFails
  BY <1>1, <1>2, <1>3 DEF Overdue, FailsSince
<1>6. Cardinality(F) <= Cardinality(FailsSince(m, e, id)) /\ Cardinality(F) \in Nat
  BY <1>4, FailsFinite, FS_Subset, FS_CardinalityType
<1>. QED  BY <1>2, <1>5, <1>6, FailsFinite, Bounds DEF Overdue

\* What another attempt does to the account it is on, and to the others.
LEMMA AttemptCounts ==
  ASSUME TypeOK, MaxFails # 0, NEW x \in Attempt, attempts' = Append(attempts, x),
         UNCHANGED now, NEW e, NEW id
  PROVE  /\ LastSuccess(e, id) <= LastSuccess(e, id)' /\ LastSuccess(e, id)' \in Nat
         /\ Overdue(e, id)' => \/ <<x.email, x.id>> # <<e, id>> /\ Overdue(e, id)
                               \/ <<x.email, x.id>> = <<e, id>> /\ ~x.ok
<1>0. PICK n : n = Len(attempts)
  OBVIOUS
<1>1. /\ attempts \in Seq(Attempt) /\ n \in Nat /\ DOMAIN attempts = 1 .. n
      /\ DOMAIN attempts' = 1 .. n + 1 /\ attempts'[n + 1] = x
      /\ \A i \in 1 .. n : attempts'[i] = attempts[i]
  BY <1>0 DEF TypeOK
<1>2. CASE <<x.email, x.id>> # <<e, id>>
  <2>1. AttemptsOf(e, id)' = AttemptsOf(e, id) /\ AttemptsOf(e, id) \subseteq 1 .. n
    BY <1>1, <1>2 DEF AttemptsOf
  <2>2. Successes(e, id)' = Successes(e, id)
    BY <1>1, <2>1 DEF Successes
  <2>3. LastSuccess(e, id)' = LastSuccess(e, id)
    BY <2>2 DEF LastSuccess
  <2>4. PICK m : m = LastSuccess(e, id)
    OBVIOUS
  <2>5. FailsSince(m, e, id)' = FailsSince(m, e, id)
    BY <1>1, <2>1 DEF FailsSince
  <2>6. Overdue(e, id)' <=> Overdue(e, id)
    BY <2>3, <2>4, <2>5 DEF Overdue
  <2>. QED  BY <1>0, <1>1, <1>2, <2>3, <2>6, LastSuccessBounds
<1>3. CASE <<x.email, x.id>> = <<e, id>> /\ ~x.ok
  <2>1. AttemptsOf(e, id)' = AttemptsOf(e, id) \cup {n + 1} /\ AttemptsOf(e, id) \subseteq 1 .. n
    BY <1>1, <1>3 DEF AttemptsOf
  <2>2. Successes(e, id)' = Successes(e, id)
    BY <1>1, <1>3, <2>1 DEF Successes
  <2>3. LastSuccess(e, id)' = LastSuccess(e, id)
    BY <2>2 DEF LastSuccess
  <2>. QED  BY <1>0, <1>1, <1>3, <2>3, LastSuccessBounds
<1>4. CASE <<x.email, x.id>> = <<e, id>> /\ x.ok
  <2>1. AttemptsOf(e, id)' = AttemptsOf(e, id) \cup {n + 1} /\ AttemptsOf(e, id) \subseteq 1 .. n
    BY <1>1, <1>4 DEF AttemptsOf
  <2>2. n + 1 \in Successes(e, id)' /\ Successes(e, id)' \subseteq 1 .. n + 1
    BY <1>1, <1>4, <2>1 DEF Successes
  <2>3. PICK S : S = Successes(e, id)'
    OBVIOUS
  <2>4. {i \in S : \A j \in S : j <= i} = {n + 1}
    BY <1>1, <2>2, <2>3
  <2>5. LastSuccess(e, id)' = n + 1
    BY <2>3, <2>4 DEF LastSuccess
  <2>6. PICK m : m = n + 1
    OBVIOUS
  <2>7. PICK F : F = FailsSince(m, e, id)'
    OBVIOUS
  <2>8. F = {}
    <3>1. \A i \in F : i \in AttemptsOf(e, id)' /\ i > m
      BY <2>7 DEF FailsSince
    <3>. QED  BY <1>1, <2>1, <2>6, <3>1
  <2>9. Overdue(e, id)' <=> Cardinality(F) >= MaxFails
    BY <2>5, <2>6, <2>7 DEF Overdue, FailsSince
  <2>10. Cardinality(F) = 0
    BY <2>8, FS_EmptySet
  <2>11. ~Overdue(e, id)'
    BY <2>9, <2>10, Bounds
  <2>. QED  BY <1>0, <1>1, <2>5, <2>11, LastSuccessBounds
<1>. QED  BY <1>2, <1>3, <1>4

\* An account nobody has attempted to log in to is not overdue.
LEMMA NoAttempts ==
  ASSUME MaxFails # 0, NEW e, NEW id, \A i \in DOMAIN attempts : attempts[i].id # id
  PROVE  ~Overdue(e, id)
<1>1. \A m : FailsSince(m, e, id) = {}
  BY DEF FailsSince, AttemptsOf
<1>. QED  BY <1>1, FS_EmptySet, Bounds DEF Overdue

\* An id is known when no user will be created with it any more: what is in the
\* tables and in the hands of the handlers is, so that a new account starts afresh.
Before == {"findUser", "limit", "insert"}
Known(id) == /\ id <= serial \/ id = MaxRequests + 1
             /\ \A q \in Handlers : req[q].at \in Before => req[q].serial # id
KnownIds == /\ \A e \in Emails : Known(users[e].id)
            /\ \A p \in Handlers : Known(req[p].row.id)
            /\ \A i \in DOMAIN attempts : Known(attempts[i].id)

\* A handler is before the insertion of a user because it was, or has just arrived.
LEMMA BeforeStays ==
  ASSUME TypeOK, (\E p \in Handlers : Serve(p)) \/ Cleanup \/ Tick \/ Crash,
         NEW q \in Handlers, req'[q].at \in Before
  PROVE  req[q].at \in Before /\ req'[q].serial = req[q].serial
<1>1. req'[q] # Idle
  BY DEF Before, Idle
<1>2. Same(q)
  BY <1>1, OtherSteps
<1>3. ASSUME Serve(q) PROVE req[q].at \in Before
  BY <1>1, <1>3, ServeKeeps DEF Serve, Keeps, Before, findUser, checkLimit
<1>4. ASSUME ~Serve(q) PROVE req'[q] = req[q]
  <2>1. ASSUME NEW p \in Handlers \ {q}, Serve(p) PROVE req'[q] = req[q]
    BY <2>1, ServeKeeps DEF Serve, Keeps
  <2>2. Cleanup \/ Tick \/ Crash => req'[q] \in {req[q], Idle}
    BY DEF Cleanup, Tick, Crash
  <2>. QED  BY <1>1, <1>4, <2>1, <2>2
<1>. QED  BY <1>2, <1>3, <1>4 DEF Same

LEMMA KnownStays ==
  ASSUME TypeOK, Next, NEW id \in Nat, Known(id)
  PROVE  Known(id)'
<1>0. serial \in Nat /\ MaxRequests \in Nat
  BY Bounds DEF TypeOK
<1>1. ASSUME NEW p \in Handlers, Arrive(p) PROVE Known(id)'
  <2>1. PICK r \in Fresh : Begin(p, r)
    BY <1>1, ArriveBegins
  <2>2. /\ serial' = serial + 1 /\ req'[p].serial = serial + 1
        /\ \A q \in Handlers \ {p} : req'[q] = req[q]
    BY <2>1, Arrival
  <2>3. serial + 1 <= MaxRequests
    <3>1. serial < scenario.requests /\ scenario.requests <= MaxRequests
          /\ scenario.requests \in Nat
      BY <2>1, Bounds DEF TypeOK, Begin
    <3>. QED  BY <1>0, <3>1
  <2>. QED  BY <1>0, <2>2, <2>3 DEF Known
<1>2. ASSUME (\E p \in Handlers : Serve(p)) \/ Cleanup \/ Tick \/ Crash PROVE Known(id)'
  <2>1. serial' = serial
    BY <1>2, OtherSteps
  <2>2. \A q \in Handlers : req'[q].at \in Before =>
          req[q].at \in Before /\ req'[q].serial = req[q].serial
    BY <1>2, BeforeStays
  <2>. QED  BY <1>0, <2>1, <2>2 DEF Known
<1>. QED  BY <1>1, <1>2 DEF Next

\* The id a user is created with is known from then on, and not before.
LEMMA NewIds ==
  ASSUME TypeOK, Numbered, NEW p \in Handlers, Create(p), NEW n, n = req[p].serial
  PROVE  n \in Nat /\ ~Known(n) /\ Known(n)'
<1>1. req[p].at = "insert" /\ n \in Serials
  BY Serving DEF Create
<1>2. ~Known(n)
  BY <1>1 DEF Known, Before
<1>3. serial' = serial /\ n <= serial /\ n \in Nat /\ n # 0
  BY <1>1, Bounds DEF Create, Numbered, Serials
<1>4. Keeps(p, {"discard"})
  BY ServeKeeps
<1>5. \A q \in Handlers : req'[q].at \in Before => req'[q].serial # n
  BY <1>3, <1>4 DEF Keeps, Numbered, Before, Idle
<1>6. Known(n)'
  BY <1>3, <1>5 DEF Known
<1>. QED  BY <1>2, <1>3, <1>6

\* What a handler that goes on has in its hands: what it had, what it has read, or the
\* user it has created.
LEMMA InHand ==
  ASSUME TypeOK, NEW p \in Handlers, Serve(p), req'[p] # Idle
  PROVE  /\ req'[p].long = req[p].long
         /\ admit(p) \/ req'[p].email = req[p].email
         /\ readLastSuccess(p) \/ createRefreshToken(p) \/ req'[p].mark = req[p].mark
         /\ \/ req'[p].row = req[p].row
            \/ /\ getUser(p) \/ findUser(p)
               /\ req[p].email \in Emails /\ req'[p].row = users[req[p].email]
            \/ Create(p) /\ req'[p].row.id \in {0, req[p].serial}
<1>0. req[p].at # "idle" /\ ~Return(p)
  <2>1. req[p].at # "idle"
    BY DEF Serve, RecordLoginAttempt, readLastSuccess, checkBanUser, Update, Delete,
       checkLimit, Create, getUser, findUser, admit, createAuthState, createRefreshToken,
       deleteCredential
  <2>. QED  BY <2>1 DEF TypeOK, Return
<1>1. req \in [Handlers -> Request \cup {Idle}] /\ req[p] \in Request
  BY <1>0, Serving DEF TypeOK
<1>2. ASSUME NEW s, Goto(p, s)
      PROVE  /\ req'[p].email = req[p].email /\ req'[p].mark = req[p].mark
             /\ req'[p].row = req[p].row /\ req'[p].long = req[p].long
  BY <1>1, <1>2 DEF Goto, Request
<1>3. ASSUME NEW s, NEW row, req' = [req EXCEPT ![p].at = s, ![p].row = row]
      PROVE  /\ req'[p].email = req[p].email /\ req'[p].mark = req[p].mark
             /\ req'[p].row = row /\ req'[p].long = req[p].long
  BY <1>1, <1>3 DEF Request
<1>4. Proceed(p) => Goto(p, "issue")
  BY <1>0 DEF Proceed
<1>5. CASE RecordLoginAttempt(p) \/ checkBanUser(p) \/ Update(p)
  <2>1. \E s : Goto(p, s)
    BY <1>0, <1>4, <1>5 DEF RecordLoginAttempt, checkBanUser, Update
  <2>. QED  BY <1>2, <2>1
<1>6. CASE Delete(p) \/ checkLimit(p) \/ createAuthState(p) \/ deleteCredential(p)
  <2>1. \E s : Goto(p, s)
    BY <1>0, <1>6 DEF Delete, checkLimit, createAuthState, deleteCredential
  <2>. QED  BY <1>2, <2>1
<1>7. CASE readLastSuccess(p) \/ createRefreshToken(p)
  <2>1. /\ req'[p].email = req[p].email /\ req'[p].row = req[p].row
        /\ req'[p].long = req[p].long
    BY <1>0, <1>1, <1>7 DEF readLastSuccess, createRefreshToken, Goto, Request
  <2>. QED  BY <1>7, <2>1
<1>8. CASE getUser(p)
  <2>1. req[p].email \in Emails
    BY <1>0, <1>8, Serving DEF getUser
  <2>2. PICK s \in {"write", "issue"} :
          req' = [req EXCEPT ![p].at = s, ![p].row = users[req[p].email]]
    BY <1>0, <1>8 DEF getUser
  <2>3. /\ req'[p].email = req[p].email /\ req'[p].mark = req[p].mark
        /\ req'[p].row = users[req[p].email] /\ req'[p].long = req[p].long
    BY <1>1, <2>2 DEF Request
  <2>. QED  BY <1>8, <2>1, <2>3
<1>9. CASE findUser(p)
  <2>1. req[p].email \in Emails
    BY <1>0, <1>9, Serving DEF findUser
  <2>2. \/ Goto(p, "limit")
        \/ req' = [req EXCEPT ![p].at = "discard", ![p].row = users[req[p].email]]
    BY <1>0, <1>9 DEF findUser
  <2>. QED  BY <1>2, <1>3, <1>9, <2>1, <2>2
<1>10. CASE Create(p)
  <2>1. PICK new : new = [Gone EXCEPT !.id = req[p].serial, !.pw = req[p].pw]
    OBVIOUS
  <2>2. new.id = req[p].serial /\ Gone.id = 0
    BY <2>1 DEF Gone
  <2>3. \/ req' = [req EXCEPT ![p].at = "discard", ![p].row = new]
        \/ req' = [req EXCEPT ![p].at = "discard", ![p].row = Gone]
    BY <1>0, <1>10, <2>1 DEF Create
  <2>. QED  BY <1>3, <1>10, <2>2, <2>3
<1>11. CASE admit(p)
  <2>1. /\ req'[p].mark = req[p].mark /\ req'[p].row = req[p].row
        /\ req'[p].long = req[p].long
    BY <1>0, <1>1, <1>11 DEF admit, Request
  <2>. QED  BY <1>11, <2>1
<1>. QED  BY <1>5, <1>6, <1>7, <1>8, <1>9, <1>10, <1>11 DEF Serve

\* An address keeps its account until that is deleted, and a new one is created.
LEMMA IdsChange ==
  ASSUME TypeOK, Next, NEW e \in Emails
  PROVE  \/ users'[e].id = users[e].id \/ users'[e] = Gone
         \/ \E p \in Handlers : Create(p) /\ ~Exists(e) /\ users'[e].id = req[p].serial
<1>0. users \in [Emails -> Row \cup {Gone}]
  BY DEF TypeOK
<1>1. ASSUME NEW p \in Handlers, Arrive(p) PROVE users' = users
  BY <1>1, ArriveBegins DEF Begin
<1>2. ASSUME NEW p \in Handlers, Update(p) PROVE users'[e].id = users[e].id
  <2>1. req[p].at = "write"
    BY <1>2 DEF Update
  <2>2. \/ users' = users
        \/ /\ HasId(req[p].email, req[p].row.id)
           /\ users' = [users EXCEPT ![req[p].email] = Written(p)]
    BY <1>2 DEF Update
  <2>3. HasId(e, req[p].row.id) => Written(p).id = users[e].id
    BY <2>1, WrittenRow
  <2>. QED  BY <1>0, <2>2, <2>3
<1>3. ASSUME NEW p \in Handlers, Delete(p) PROVE users'[e] \in {users[e], Gone}
  BY <1>0, <1>3 DEF Delete
<1>4. ASSUME NEW p \in Handlers, Create(p)
      PROVE  users'[e] = users[e] \/ (~Exists(e) /\ users'[e].id = req[p].serial)
  <2>1. PICK new : new = [Gone EXCEPT !.id = req[p].serial, !.pw = req[p].pw]
    OBVIOUS
  <2>2. new.id = req[p].serial
    BY <2>1 DEF Gone
  <2>3. \/ users' = users
        \/ ~Exists(req[p].email) /\ users' = [users EXCEPT ![req[p].email] = new]
    BY <1>4, <2>1 DEF Create
  <2>. QED  BY <1>0, <2>2, <2>3 DEF Exists
<1>5. ASSUME NEW p \in Handlers, Serve(p), ~Update(p), ~Delete(p), ~Create(p)
      PROVE  users' = users
  BY <1>5 DEF Serve, RecordLoginAttempt, readLastSuccess, checkBanUser, checkLimit, getUser,
     findUser, admit, createAuthState, createRefreshToken, deleteCredential
<1>6. ASSUME Cleanup PROVE users'[e].id = users[e].id
  <2>1. \/ users' = users
        \/ users' = [d \in Emails |->
                       IF d \in Released
                       THEN [users[d] EXCEPT !.disabled = FALSE, !.ban = 0]
                       ELSE users[d]]
    BY <1>6 DEF Cleanup, enableUsersWithExpiredBan
  <2>2. [users[e] EXCEPT !.disabled = FALSE, !.ban = 0].id = users[e].id
    BY <1>0 DEF Row, Gone
  <2>. QED  BY <2>1, <2>2
<1>7. ASSUME Tick \/ Crash PROVE users' = users
  BY <1>7 DEF Tick, Crash
<1>. QED  BY <1>1, <1>2, <1>3, <1>4, <1>5, <1>6, <1>7 DEF Next

LEMMA KnownIdsStep ==
  ASSUME TypeOK, Numbered, KnownIds, Next
  PROVE  KnownIds'
<1>0. /\ \A e \in Emails : users[e].id \in Nat
      /\ \A p \in Handlers : req[p].row.id \in Nat
      /\ \A i \in DOMAIN attempts : attempts[i].id \in Nat
  <2>1. \A row \in Row \cup {Gone} : row.id \in Nat
    BY Bounds DEF Row, Gone, Serials
  <2>2. \A p \in Handlers : req[p].row \in Row \cup {Gone}
    BY DEF TypeOK, Request, Idle
  <2>3. \A i \in DOMAIN attempts : attempts[i] \in Attempt
    BY DEF TypeOK
  <2>. QED  BY <2>1, <2>2, <2>3 DEF TypeOK, Attempt
<1>a. Known(0)'
  <2>1. Known(0)
    <3>1. \A q \in Handlers : req[q].at \in Before => req[q].serial # 0
      BY Serving, Bounds DEF Before, Serials
    <3>2. 0 <= serial
      BY Bounds DEF TypeOK
    <3>. QED  BY <3>1, <3>2 DEF Known
  <2>. QED  BY <2>1, KnownStays
<1>1. ASSUME NEW e \in Emails PROVE Known(users[e].id)'
  <2>1. PICK n : n = users'[e].id
    OBVIOUS
  <2>2. Known(n)'
    <3>1. CASE n = users[e].id
      BY <1>0, <3>1, KnownStays DEF KnownIds
    <3>2. CASE users'[e] = Gone
      BY <1>a, <2>1, <3>2 DEF Gone
    <3>3. ASSUME NEW p \in Handlers, Create(p), n = req[p].serial PROVE Known(n)'
      BY <3>3, NewIds
    <3>. QED  BY <2>1, <3>1, <3>2, <3>3, IdsChange
  <2>. QED  BY <2>1, <2>2
<1>2. ASSUME NEW q \in Handlers PROVE Known(req[q].row.id)'
  <2>1. PICK n : n = req'[q].row.id
    OBVIOUS
  <2>2. ASSUME n = req[q].row.id PROVE Known(n)'
    <3>1. Known(n) /\ n \in Nat
      BY <1>0, <2>2 DEF KnownIds
    <3>. QED  BY <3>1, KnownStays
  <2>3. ASSUME NEW e \in Emails, n = users[e].id PROVE Known(n)'
    BY <1>0, <2>3, KnownStays DEF KnownIds
  <2>4. CASE req'[q] = Idle
    BY <1>a, <2>1, <2>4 DEF Idle, Gone
  <2>5. ASSUME NEW p \in Handlers, Arrive(p)
        PROVE  n = req[q].row.id \/ n = 0 \/ \E e \in Emails : n = users[e].id
    <3>1. PICK r \in Fresh : Begin(p, r) /\ Read(r)
      BY <2>5, ArriveBegins
    <3>2. req'[p].row = r.row /\ \A o \in Handlers \ {p} : req'[o] = req[o]
      BY <3>1 DEF Begin, TypeOK, Fresh
    <3>3. r.row = Gone \/ \E e \in Emails : r.row = users[e]
      BY <3>1 DEF Read
    <3>. QED  BY <2>1, <3>2, <3>3 DEF Gone
  <2>6. ASSUME NEW p \in Handlers, Serve(p), req'[q] # Idle
        PROVE  \/ n = req[q].row.id \/ n = 0 \/ \E e \in Emails : n = users[e].id
               \/ Create(q) /\ n = req[q].serial
    <3>1. q # p => req'[q] = req[q]
      BY <2>6, ServeKeeps DEF Serve, Keeps
    <3>. QED  BY <2>1, <2>6, <3>1, InHand
  <2>7. Create(q) /\ n = req[q].serial => Known(n)'
    BY NewIds
  <2>8. Cleanup \/ Tick \/ Crash => req'[q] \in {req[q], Idle}
    BY DEF Cleanup, Tick, Crash
  <2>9. Known(n)'
    BY <1>a, <2>1, <2>2, <2>3, <2>4, <2>5, <2>6, <2>7, <2>8 DEF Next
  <2>. QED  BY <2>1, <2>9
<1>3. ASSUME NEW i \in DOMAIN attempts' PROVE Known(attempts[i].id)'
  <2>1. \/ attempts' = attempts
        \/ \E p \in Handlers : \E ok, at : attempts' = Append(attempts,
             [email |-> req[p].email, id |-> req[p].row.id, ok |-> ok, at |-> at])
    <3>1. ASSUME NEW p \in Handlers, Arrive(p) PROVE attempts' = attempts
      BY <3>1, ArriveBegins DEF Begin
    <3>2. ASSUME NEW p \in Handlers, Serve(p), ~RecordLoginAttempt(p)
          PROVE  attempts' = attempts
      BY <3>2 DEF Serve, readLastSuccess, checkBanUser, Update, Delete, checkLimit, Create,
         getUser, findUser, admit, createAuthState, createRefreshToken, deleteCredential
    <3>3. Cleanup \/ Tick \/ Crash => attempts' = attempts
      BY DEF Cleanup, Tick, Crash
    <3>. QED  BY <3>1, <3>2, <3>3 DEF Next, RecordLoginAttempt
  <2>2. PICK n : n = attempts'[i].id
    OBVIOUS
  <2>3. (\E j \in DOMAIN attempts : n = attempts[j].id) \/ \E p \in Handlers : n = req[p].row.id
    <3>1. CASE attempts' = attempts
      BY <2>2, <3>1
    <3>2. ASSUME NEW p \in Handlers, NEW ok, NEW at, attempts' = Append(attempts,
             [email |-> req[p].email, id |-> req[p].row.id, ok |-> ok, at |-> at])
          PROVE  (\E j \in DOMAIN attempts : n = attempts[j].id) \/ n = req[p].row.id
      BY <2>2, <3>2 DEF TypeOK
    <3>. QED  BY <2>1, <3>1, <3>2
  <2>4. Known(n)'
    BY <1>0, <2>3, KnownStays DEF KnownIds
  <2>. QED  BY <2>2, <2>4
<1>. QED  BY <1>1, <1>2, <1>3 DEF KnownIds

\* A login reads the last success after its own attempt, and successes only come later.
Marked(p) ==
  /\ Bans(p) /\ req[p].at \in Before \cup {"discard", "record", "lastSuccess"} => req[p].mark = 0
  /\ req[p].at = "count" => req[p].mark <= LastSuccess(req[p].email, req[p].row.id)
Marks == \A p \in Handlers : Marked(p)

\* Whoever is between a failed attempt and the ban.
Banning(p) == Bans(p) /\ req[p].at \in {"lastSuccess", "count", "write"}
BanInv ==
  \A e \in Emails :
    Exists(e) /\ Overdue(e, users[e].id)
    => \/ users[e].disabled \/ <<e, users[e].id>> \in pardoned
       \/ \E p \in Handlers : Banning(p) /\ Account(p) = <<e, users[e].id>>

\* Attempts are only added, by whoever records his own.
LEMMA AttemptsGrow ==
  ASSUME TypeOK, Next
  PROVE  \/ UNCHANGED attempts /\ now' \in {now, now + 1}
         \/ \E p \in Handlers : /\ RecordLoginAttempt(p) /\ UNCHANGED now
                                /\ attempts' = Append(attempts,
                                     [email |-> req[p].email, id |-> req[p].row.id,
                                      ok |-> Right(p), at |-> now])
<1>1. ASSUME NEW p \in Handlers, Arrive(p) PROVE UNCHANGED <<attempts, now>>
  BY <1>1, ArriveBegins DEF Begin
<1>2. ASSUME NEW p \in Handlers, Serve(p), ~RecordLoginAttempt(p)
      PROVE  UNCHANGED <<attempts, now>>
  BY <1>2 DEF Serve, readLastSuccess, checkBanUser, Update, Delete, checkLimit, Create,
     getUser, findUser, admit, createAuthState, createRefreshToken, deleteCredential
<1>3. Cleanup \/ Tick \/ Crash => UNCHANGED attempts /\ now' \in {now, now + 1}
  BY DEF Cleanup, Tick, Crash
<1>4. ASSUME NEW p \in Handlers, RecordLoginAttempt(p)
      PROVE  /\ UNCHANGED now
             /\ \/ UNCHANGED attempts
                \/ attempts' = Append(attempts,
                     [email |-> req[p].email, id |-> req[p].row.id,
                      ok |-> Right(p), at |-> now])
  BY <1>4 DEF RecordLoginAttempt
<1>. QED  BY <1>1, <1>2, <1>3, <1>4 DEF Next

LEMMA AttemptTyped ==
  ASSUME TypeOK, NEW p \in Handlers, req[p].at = "record"
  PROVE  /\ [email |-> req[p].email, id |-> req[p].row.id, ok |-> Right(p), at |-> now]
              \in Attempt
         /\ req[p].email \in Emails
<1>1. /\ req[p].email \in Emails /\ req[p].row.id \in Nat /\ now \in Nat
      /\ Right(p) \in BOOLEAN
  BY Serving DEF TypeOK, Right
<1>. QED  BY <1>1 DEF Attempt

LEMMA LastSuccessGrows ==
  ASSUME TypeOK, MaxFails # 0, Next, NEW e, NEW id
  PROVE  /\ LastSuccess(e, id) <= LastSuccess(e, id)'
         /\ LastSuccess(e, id) \in Nat /\ LastSuccess(e, id)' \in Nat
<1>1. CASE UNCHANGED attempts
  <2>1. LastSuccess(e, id)' = LastSuccess(e, id)
    BY <1>1 DEF LastSuccess, Successes, AttemptsOf
  <2>. QED  BY <2>1, LastSuccessBounds
<1>2. ASSUME NEW p \in Handlers, RecordLoginAttempt(p), UNCHANGED now,
             attempts' = Append(attempts, [email |-> req[p].email, id |-> req[p].row.id,
                                           ok |-> Right(p), at |-> now])
      PROVE  LastSuccess(e, id) <= LastSuccess(e, id)' /\ LastSuccess(e, id)' \in Nat
  <2>1. req[p].at = "record"
    BY <1>2 DEF RecordLoginAttempt
  <2>. QED  BY <1>2, <2>1, AttemptTyped, AttemptCounts
<1>. QED  BY <1>1, <1>2, AttemptsGrow, LastSuccessNat

LEMMA MarksStep ==
  ASSUME TypeOK, MaxFails # 0, AllOnPath, Marks, Next
  PROVE  Marks'
<1>1. ASSUME NEW q \in Handlers,
             req'[q].email = req[q].email /\ req'[q].row = req[q].row
             /\ req'[q].mark = req[q].mark /\ req'[q].op = req[q].op,
             req'[q].at = req[q].at \/ req'[q].at # "count",
             req'[q].at \in Before \cup {"discard", "record", "lastSuccess"}
             => req[q].at \in Before \cup {"discard", "record", "lastSuccess"}
      PROVE  Marked(q)'
  <2>1. CASE req'[q].at = "count"
    <3>1. PICK e, id : e = req[q].email /\ id = req[q].row.id
      OBVIOUS
    <3>2. req[q].mark \in Nat /\ req[q].mark <= LastSuccess(e, id)
      BY <1>1, <2>1, <3>1, Serving DEF Marks, Marked
    <3>3. LastSuccess(e, id) \in Nat /\ LastSuccess(e, id)' \in Nat
      BY LastSuccessGrows
    <3>4. req'[q].mark <= LastSuccess(e, id)'
      BY <1>1, <3>2, <3>3, LastSuccessGrows
    <3>5. LastSuccess(req[q].email, req[q].row.id)' = LastSuccess(e, id)'
      BY <1>1, <3>1
    <3>. QED  BY <2>1, <3>4, <3>5 DEF Marked, Before
  <2>2. CASE req'[q].at # "count"
    BY <1>1, <2>2 DEF Marks, Marked, Bans
  <2>. QED  BY <2>1, <2>2
<1>2. ASSUME NEW q \in Handlers, req'[q] = Idle PROVE Marked(q)'
  BY <1>2 DEF Marked, Idle, Bans
<1>3. ASSUME NEW q \in Handlers, req'[q] = req[q] PROVE Marked(q)'
  BY <1>1, <1>3
<1>4. ASSUME NEW p \in Handlers, Arrive(p) PROVE Marks'
  <2>1. PICK r \in Fresh : Begin(p, r) /\ Read(r)
    BY <1>4, ArriveBegins
  <2>2. /\ req'[p].mark = r.mark /\ req'[p].at = r.at
        /\ \A o \in Handlers \ {p} : req'[o] = req[o]
    BY <2>1 DEF Begin, TypeOK, Fresh
  <2>3. r.mark = 0 /\ r.at # "count"
    BY <2>1 DEF Read, Fresh, FirstSteps
  <2>4. Marked(p)'
    BY <2>2, <2>3 DEF Marked
  <2>. QED  BY <1>3, <2>2, <2>4 DEF Marks
<1>5. ASSUME NEW p \in Handlers, Serve(p), req'[p] # Idle PROVE Marked(p)'
  <2>1. Same(p) /\ (req[p].at # "idle" => req[p].op \in OpsAt(req[p].at))
    BY <1>5, OtherSteps DEF AllOnPath, OnPath
  <2>2. CASE readLastSuccess(p)
    <3>1. req[p].at = "lastSuccess" /\ UNCHANGED attempts
      BY <2>2 DEF readLastSuccess
    <3>2. Bans(p) /\ req[p].mark = 0
      BY <2>1, <3>1 DEF OpsAt, Bans, Marks, Marked
    <3>3. PICK e, id : e = req[p].email /\ id = req[p].row.id
      OBVIOUS
    <3>4. /\ req'[p].at = "count" /\ req'[p].email = e /\ req'[p].row.id = id
          /\ req'[p].mark \in {0, LastSuccess(e, id)}
      <4>1. req \in [Handlers -> Request \cup {Idle}] /\ req[p] \in Request
        BY <3>1, Serving DEF TypeOK
      <4>. QED  BY <2>2, <3>2, <3>3, <4>1 DEF readLastSuccess, Goto, Request
    <3>5. req'[p].mark <= LastSuccess(e, id)'
      BY <3>4, LastSuccessGrows
    <3>6. LastSuccess(req[p].email, req[p].row.id)' = LastSuccess(e, id)'
      BY <3>4
    <3>. QED  BY <3>4, <3>5, <3>6 DEF Marked, Before
  <2>3. CASE createRefreshToken(p)
    <3>1. req'[p].op = "refresh" /\ req'[p].at = "discard"
      BY <1>5, <2>1, <2>3, Onward DEF Same
    <3>. QED  BY <3>1 DEF Marked, Bans
  <2>4. CASE ~readLastSuccess(p) /\ ~createRefreshToken(p)
    <3>1. req'[p].mark = req[p].mark /\ req'[p].op = req[p].op /\ req'[p].at # "count"
      BY <1>5, <2>1, <2>4, InHand, ServeKeeps DEF Serve, Keeps, Same
    <3>2. ASSUME req'[p].at \in Before \cup {"discard", "record", "lastSuccess"}, Bans(p)
          PROVE  req[p].at \in Before \cup {"discard", "record", "lastSuccess"}
      <4>1. ~Update(p)
        BY <1>5, <3>2, Onward DEF Bans, Before
      <4>2. /\ RecordLoginAttempt(p) => req[p].at = "record"
            /\ checkLimit(p) => req[p].at \in Before
            /\ Create(p) => req[p].at \in Before
            /\ findUser(p) => req[p].at \in Before
            /\ deleteCredential(p) => req[p].at = "discard"
        BY DEF RecordLoginAttempt, checkLimit, Create, findUser, deleteCredential, Before
      <4>. QED  BY <1>5, <2>4, <3>2, <4>1, <4>2, ServeKeeps DEF Serve, Keeps, Before
    <3>. QED  BY <3>1, <3>2 DEF Marks, Marked, Bans
  <2>. QED  BY <2>2, <2>3, <2>4
<1>6. ASSUME NEW p \in Handlers, Serve(p) PROVE Marks'
  <2>1. \A o \in Handlers \ {p} : req'[o] = req[o]
    BY <1>6, ServeKeeps DEF Serve, Keeps
  <2>. QED  BY <1>2, <1>3, <1>5, <1>6, <2>1 DEF Marks
<1>7. ASSUME Cleanup \/ Tick \/ Crash PROVE Marks'
  <2>1. \A o \in Handlers : req'[o] \in {req[o], Idle}
    BY <1>7 DEF Cleanup, Tick, Crash
  <2>. QED  BY <1>2, <1>3, <2>1 DEF Marks
<1>. QED  BY <1>4, <1>6, <1>7 DEF Next

\* A pardon is kept until the next failed attempt on the account.
LEMMA PardonsStay ==
  ASSUME TypeOK, Next
  PROVE  \/ pardoned \subseteq pardoned'
         \/ \E p \in Handlers : /\ RecordLoginAttempt(p) /\ Goto(p, "lastSuccess")
                                /\ pardoned' = pardoned \ {Account(p)}
<1>1. ASSUME NEW p \in Handlers, Arrive(p) PROVE pardoned' = pardoned
  BY <1>1, ArriveBegins DEF Begin
<1>2. ASSUME NEW p \in Handlers, Serve(p), ~RecordLoginAttempt(p)
      PROVE  pardoned \subseteq pardoned'
  BY <1>2 DEF Serve, readLastSuccess, checkBanUser, Update, Delete, checkLimit, Create,
     getUser, findUser, admit, createAuthState, createRefreshToken, deleteCredential
<1>3. Cleanup \/ Tick \/ Crash => pardoned \subseteq pardoned'
  BY DEF Cleanup, enableUsersWithExpiredBan, Tick, Crash
<1>4. ASSUME NEW p \in Handlers, RecordLoginAttempt(p)
      PROVE  \/ pardoned \subseteq pardoned'
             \/ Goto(p, "lastSuccess") /\ pardoned' = pardoned \ {Account(p)}
  BY <1>4 DEF RecordLoginAttempt
<1>. QED  BY <1>1, <1>2, <1>3, <1>4 DEF Next

\* What keeps a handler banning.
LEMMA StillBanning ==
  ASSUME NEW p \in Handlers, Bans(p), req'[p].at \in {"lastSuccess", "count", "write"},
         req'[p].op = req[p].op, req'[p].email = req[p].email, req'[p].row = req[p].row
  PROVE  Banning(p)' /\ Account(p)' = Account(p)
BY DEF Banning, Bans, Account

\* Enough failed attempts lead through count and write, or to a pardon.
LEMMA BanningStep ==
  ASSUME TypeOK, Marks, Next, NEW e \in Emails, Exists(e), Overdue(e, users[e].id),
         NEW p \in Handlers, Banning(p), Account(p) = <<e, users[e].id>>
  PROVE  \/ users'[e].disabled \/ <<e, users[e].id>> \in pardoned'
         \/ Banning(p)' /\ Account(p)' = <<e, users[e].id>>
<1>0. /\ req[p].at \in {"lastSuccess", "count", "write"} /\ Bans(p)
      /\ req[p].email = e /\ req[p].row.id = users[e].id
      /\ req[p] \in Request /\ req \in [Handlers -> Request \cup {Idle}]
  BY Serving DEF Banning, Account, TypeOK
<1>1. CASE req'[p] = req[p]
  BY <1>0, <1>1, StillBanning
<1>2. CASE Crash
  BY <1>0, <1>2 DEF Crash
<1>3. ASSUME NEW s \in {"count", "write"}, Goto(p, s)
      PROVE  Banning(p)' /\ Account(p)' = <<e, users[e].id>>
  <2>1. /\ req'[p].at = s /\ req'[p].op = req[p].op /\ req'[p].email = req[p].email
        /\ req'[p].row = req[p].row
    BY <1>0, <1>3 DEF Goto, Request
  <2>. QED  BY <1>0, <2>1, StillBanning
<1>4. CASE readLastSuccess(p)
  <2>1. /\ req'[p].at = "count" /\ req'[p].op = req[p].op /\ req'[p].email = req[p].email
        /\ req'[p].row = req[p].row
    BY <1>0, <1>4 DEF readLastSuccess, Goto, Request
  <2>. QED  BY <1>0, <2>1, StillBanning
<1>5. CASE checkBanUser(p)
  <2>1. CASE Fault /\ Proceed(p) /\ pardoned' = pardoned \cup {Account(p)}
    BY <2>1
  <2>2. CASE ~(Fault /\ Proceed(p) /\ pardoned' = pardoned \cup {Account(p)})
    <3>1. PICK m, l, id : /\ m = LastSuccess(e, id) /\ l = req[p].mark /\ id = users[e].id
      OBVIOUS
    <3>2. m \in Nat /\ l \in Nat /\ l <= m
      <4>1. req[p].at = "count"
        BY <1>5 DEF checkBanUser
      <4>2. req[p].mark \in Nat
        BY <1>0 DEF Request
      <4>. QED  BY <1>0, <3>1, <4>1, <4>2, LastSuccessNat DEF Marks, Marked
    <3>3. Cardinality(FailsSince(m, e, id)) <= Cardinality(FailsSince(l, e, id))
      BY <3>2, FewerFails
    <3>4. Cardinality(FailsSince(l, e, id)) >= MaxFails
      BY <3>1, <3>3, FailsFinite, Bounds DEF Overdue
    <3>5. IF Cardinality(FailsSince(l, e, id)) >= MaxFails THEN Goto(p, "write")
          ELSE Proceed(p)
      BY <1>0, <1>5, <2>2, <3>1 DEF checkBanUser
    <3>. QED  BY <1>3, <3>4, <3>5
  <2>. QED  BY <2>1, <2>2
<1>6. CASE Update(p)
  <2>1. CASE Fault /\ pardoned' = pardoned \cup {Account(p)}
    BY <2>1
  <2>2. CASE ~(Fault /\ pardoned' = pardoned \cup {Account(p)})
    <3>1. HasId(e, req[p].row.id)
      BY <1>0 DEF HasId
    <3>2. users' = [users EXCEPT ![e] = Written(p)]
      BY <1>0, <1>6, <2>2, <3>1 DEF Update
    <3>3. PICK row : row = req[p].row
      OBVIOUS
    <3>4. Written(p).disabled
      <4>1. Written(p) = [row EXCEPT !.disabled = TRUE, !.ban = now + BanLength]
        BY <1>0, <3>3 DEF Written, Bans
      <4>2. row \in Row \cup {Gone}
        BY <1>0, <3>3 DEF Request
      <4>. QED  BY <4>1, <4>2 DEF Row, Gone
    <3>. QED  BY <3>2, <3>4 DEF TypeOK
  <2>. QED  BY <2>1, <2>2
<1>7. ASSUME ~Crash, ~readLastSuccess(p), ~checkBanUser(p), ~Update(p) PROVE req'[p] = req[p]
  <2>1. ASSUME NEW q \in Handlers, Arrive(q) PROVE req'[p] = req[p]
    BY <1>0, <2>1, ArriveBegins, Arrival
  <2>2. ASSUME NEW q \in Handlers \ {p}, Serve(q) PROVE req'[p] = req[p]
    BY <2>2, ServeKeeps DEF Serve, Keeps
  <2>3. ~Serve(p)
    BY <1>0, <1>7 DEF Serve, RecordLoginAttempt, Delete, checkLimit, Create, getUser,
       findUser, admit, createAuthState, createRefreshToken, deleteCredential
  <2>4. Cleanup \/ Tick => req'[p] = req[p]
    BY DEF Cleanup, Tick
  <2>. QED  BY <1>7, <2>1, <2>2, <2>3, <2>4 DEF Next
<1>. QED  BY <1>1, <1>2, <1>4, <1>5, <1>6, <1>7

\* Whoever enables a disabled account pardons it.
LEMMA EnablersPardon ==
  ASSUME TypeOK, Next, NEW e \in Emails, users[e].disabled,
         users'[e] # Gone, ~users'[e].disabled
  PROVE  <<e, users[e].id>> \in pardoned'
<1>0. users \in [Emails -> Row \cup {Gone}] /\ Exists(e)
  BY DEF TypeOK, Exists, Gone
<1>1. ASSUME NEW p \in Handlers, Arrive(p) PROVE FALSE
  BY <1>1, ArriveBegins DEF Begin
<1>2. ASSUME NEW p \in Handlers, Update(p) PROVE <<e, users[e].id>> \in pardoned'
  <2>1. /\ HasId(req[p].email, req[p].row.id)
        /\ users' = [users EXCEPT ![req[p].email] = Written(p)]
        /\ pardoned' = IF users[req[p].email].disabled /\ ~Written(p).disabled
                       THEN pardoned \cup {Account(p)} ELSE pardoned
    BY <1>2 DEF Update
  <2>2. e = req[p].email /\ users'[e] = Written(p)
    BY <1>0, <2>1
  <2>. QED  BY <2>1, <2>2 DEF HasId, Account
<1>3. ASSUME NEW p \in Handlers, Serve(p), ~Update(p) PROVE FALSE
  <2>1. CASE Create(p)
    BY <1>0, <2>1 DEF Create
  <2>2. CASE Delete(p)
    BY <1>0, <2>2 DEF Delete
  <2>3. CASE ~Create(p) /\ ~Delete(p)
    BY <1>3, <2>3 DEF Serve, RecordLoginAttempt, readLastSuccess, checkBanUser,
       checkLimit, getUser, findUser, admit, createAuthState, createRefreshToken,
       deleteCredential
  <2>. QED  BY <2>1, <2>2, <2>3
<1>4. ASSUME Cleanup PROVE <<e, users[e].id>> \in pardoned'
  <2>1. CASE users' = users
    BY <2>1
  <2>2. CASE users' # users
    <3>1. enableUsersWithExpiredBan
      BY <1>4, <2>2 DEF Cleanup
    <3>2. e \in Released
      BY <3>1 DEF enableUsersWithExpiredBan
    <3>. QED  BY <3>1, <3>2 DEF enableUsersWithExpiredBan
  <2>. QED  BY <2>1, <2>2
<1>5. ASSUME Tick \/ Crash PROVE FALSE
  BY <1>5 DEF Tick, Crash
<1>. QED  BY <1>1, <1>2, <1>3, <1>4, <1>5 DEF Next

LEMMA BanStep ==
  ASSUME TypeOK, TypeOK', MaxFails # 0, AllOnPath, Numbered, KnownIds, Marks, BanInv, Next
  PROVE  BanInv'
<1>1. ASSUME NEW e \in Emails, NEW id, id = users'[e].id, users'[e] # Gone, Overdue(e, id)'
      PROVE  \/ users'[e].disabled \/ <<e, id>> \in pardoned'
             \/ \E p \in Handlers : Banning(p)' /\ Account(p)' = <<e, id>>
  \* The account was there: a new one has no attempts.
  <2>1. id = users[e].id /\ Exists(e)
    <3>1. ASSUME NEW p \in Handlers, Create(p), id = req[p].serial PROVE FALSE
      <4>1. \A i \in DOMAIN attempts : attempts[i].id # id
        BY <3>1, NewIds DEF KnownIds
      <4>2. Overdue(e, id)
        BY <1>1, <3>1, OverdueRests DEF Create
      <4>. QED  BY <4>1, <4>2, NoAttempts
    <3>2. id = users[e].id
      BY <1>1, <3>1, IdsChange
    <3>3. id # 0
      <4>1. users'[e] \in Row
        BY <1>1 DEF TypeOK
      <4>. QED  BY <1>1, <4>1, Bounds DEF Row, Serials
    <3>. QED  BY <3>2, <3>3 DEF Exists, Gone
  \* Whoever records a failed attempt on it goes on to ban it.
  <2>2. ASSUME NEW p \in Handlers, RecordLoginAttempt(p), Goto(p, "lastSuccess"),
               Account(p) = <<e, id>>
        PROVE  Banning(p)' /\ Account(p)' = <<e, id>>
    <3>1. req[p].at = "record"
      BY <2>2 DEF RecordLoginAttempt
    <3>2. Bans(p)
      BY <3>1 DEF AllOnPath, OnPath, OpsAt, Bans
    <3>3. /\ req'[p].at = "lastSuccess" /\ req'[p].op = req[p].op
          /\ req'[p].email = req[p].email /\ req'[p].row = req[p].row
      BY <2>2, <3>1, Serving DEF Goto, Request, TypeOK
    <3>. QED  BY <2>2, <3>2, <3>3, StillBanning
  <2>3. \/ Overdue(e, id)
        \/ \E p \in Handlers : /\ RecordLoginAttempt(p) /\ Goto(p, "lastSuccess")
                               /\ Account(p) = <<e, id>>
    <3>1. CASE UNCHANGED attempts /\ now' \in {now, now + 1}
      BY <1>1, <3>1, OverdueRests
    <3>2. ASSUME NEW p \in Handlers, RecordLoginAttempt(p), UNCHANGED now,
                 attempts' = Append(attempts, [email |-> req[p].email, id |-> req[p].row.id,
                                               ok |-> Right(p), at |-> now])
          PROVE  Overdue(e, id) \/ (Goto(p, "lastSuccess") /\ Account(p) = <<e, id>>)
      <4>1. PICK x : x = [email |-> req[p].email, id |-> req[p].row.id,
                          ok |-> Right(p), at |-> now]
        OBVIOUS
      <4>2. x \in Attempt /\ attempts' = Append(attempts, x)
        BY <3>2, <4>1, AttemptTyped DEF RecordLoginAttempt
      <4>3. Overdue(e, id) \/ <<x.email, x.id>> = <<e, id>>
        BY <1>1, <3>2, <4>2, AttemptCounts
      <4>4. Account(p) = <<x.email, x.id>>
        BY <4>1 DEF Account
      <4>5. attempts' # attempts
        BY <4>2 DEF TypeOK
      <4>6. Goto(p, "lastSuccess")
        BY <3>2, <4>5 DEF RecordLoginAttempt
      <4>. QED  BY <4>3, <4>4, <4>6
    <3>. QED  BY <3>1, <3>2, AttemptsGrow
  <2>4. ASSUME Overdue(e, id)
        PROVE  \/ users'[e].disabled \/ <<e, id>> \in pardoned'
               \/ \E p \in Handlers : Banning(p)' /\ Account(p)' = <<e, id>>
    <3>1. CASE users[e].disabled
      BY <1>1, <2>1, <3>1, EnablersPardon
    <3>2. CASE <<e, id>> \in pardoned
      BY <2>2, <3>2, PardonsStay
    <3>3. ASSUME NEW p \in Handlers, Banning(p), Account(p) = <<e, id>>
          PROVE  \/ users'[e].disabled \/ <<e, id>> \in pardoned'
                 \/ \E q \in Handlers : Banning(q)' /\ Account(q)' = <<e, id>>
      BY <2>1, <2>4, <3>3, BanningStep
    <3>. QED  BY <2>1, <2>4, <3>1, <3>2, <3>3 DEF BanInv
  <2>. QED  BY <2>2, <2>3, <2>4
<1>. SUFFICES ASSUME NEW e \in Emails, users'[e] # Gone, Overdue(e, users[e].id)'
              PROVE  \/ users'[e].disabled \/ <<e, users'[e].id>> \in pardoned'
                     \/ \E p \in Handlers : Banning(p)' /\ Account(p)' = <<e, users'[e].id>>
  BY DEF BanInv, Exists
<1>2. PICK id : id = users'[e].id
  OBVIOUS
<1>3. Overdue(e, id)'
  BY <1>2
<1>. QED  BY <1>1, <1>2, <1>3

\* However logins interleave with each other, with what writes users, with failures and
\* with the end of a ban, an account with too many failed attempts is disabled once
\* nobody works on it any more, or was pardoned since (auth-attempt-repository.go
\* 62-103). MAX_LOGIN_ATTEMPTS is 10 unless configured, and not 0.
THEOREM EnoughFailuresBan ==
  ASSUME MaxFails # 0
  PROVE  Spec => []ThresholdMeansBan
<1>. DEFINE Inv == ResetInv /\ AllOnPath /\ KnownIds /\ Marks /\ BanInv
<1>1. Init => Inv
  <2>. SUFFICES ASSUME Init PROVE Inv
    OBVIOUS
  <2>1. /\ \A p \in Handlers : req[p] = Idle
        /\ attempts = <<>> /\ serial = 0
    BY DEF Init
  <2>2. \A e \in Emails : users[e].id \in {0, MaxRequests + 1}
    <3>1. PICK f \in Populations :
            users = [e \in Emails |->
                       IF e \in DOMAIN f
                       THEN [Gone EXCEPT !.id = MaxRequests + 1, !.pw = f[e]] ELSE Gone]
      BY DEF Init
    <3>. QED  BY <3>1 DEF Gone
  <2>3. KnownIds
    <3>1. Known(0) /\ Known(MaxRequests + 1)
      BY <2>1 DEF Known, Idle, Before
    <3>2. \A p \in Handlers : req[p].row.id = 0
      BY <2>1 DEF Idle, Gone
    <3>3. DOMAIN attempts = {}
      BY <2>1
    <3>. QED  BY <2>2, <3>1, <3>2, <3>3 DEF KnownIds
  <2>4. AllOnPath /\ Marks
    BY <2>1 DEF AllOnPath, OnPath, Marks, Marked, Bans, Idle
  <2>5. BanInv
    BY <2>1, NoAttempts DEF BanInv
  <2>. QED  BY <2>3, <2>4, <2>5, ResetsBegin
<1>2. TypeOK /\ TypeOK' /\ Inv /\ [Next]_vars => Inv'
  <2>1. ASSUME TypeOK, TypeOK', Inv, Next PROVE Inv'
    <3>1. ResetInv'
      BY <2>1, ResetsGoOn
    <3>2. Numbered
      BY <2>1 DEF ResetInv
    <3>. QED  BY <2>1, <3>1, <3>2, OnPathStep, KnownIdsStep, MarksStep, BanStep
  <2>2. Inv /\ UNCHANGED vars => Inv'
    <3>1. ResetInv /\ UNCHANGED vars => ResetInv'
      BY DEF ResetInv, Numbered, Paths, ResetsSettled, ResetsAlone, ResetsUsed, Resetting,
         Settled, vars
    <3>2. AllOnPath /\ KnownIds /\ UNCHANGED vars => AllOnPath' /\ KnownIds'
      BY DEF AllOnPath, OnPath, KnownIds, Known, vars
    <3>3. Marks /\ UNCHANGED vars => Marks'
      BY DEF Marks, Marked, Bans, LastSuccess, Successes, AttemptsOf, vars
    <3>4. BanInv /\ UNCHANGED vars => BanInv'
      BY DEF BanInv, Exists, Overdue, FailsSince, LastSuccess, Successes, AttemptsOf,
         Banning, Bans, Account, vars
    <3>. QED  BY <3>1, <3>2, <3>3, <3>4
  <2>. QED  BY <2>1, <2>2
<1>3. Inv => ThresholdMeansBan
  <2>. SUFFICES ASSUME BanInv, NEW e \in Emails, Exists(e),
                       \A p \in Handlers : req[p].email # e, Overdue(e, users[e].id)
                PROVE  users[e].disabled \/ <<e, users[e].id>> \in pardoned
    BY DEF ThresholdMeansBan, Overdue
  <2>. QED  BY DEF BanInv, Account
<1>. HIDE DEF Inv
<1>. QED  BY <1>1, <1>2, <1>3, TypeCorrect, PTL DEF Spec

----------------------------------------------------------------------------
(* A token lives as long as the login asked for.                           *)

\* Tokens say how long they live ...
Lifetime(long) == IF long THEN LongLife ELSE ShortLife
Lives ==
  \A c \in Serials :
    creds[c].kind = "refresh" => creds[c].expiry = creds[c].created + Lifetime(creds[c].long)

\* ... and a refresh, whose token nobody will insert again, has read it from the old
\* one and written it into the new one.
Inherits(p) ==
  /\ req[p].cred \in Serials /\ Settled(req[p].cred)
  /\ creds[req[p].cred].kind = "refresh" => creds[req[p].cred].long = req[p].long
  /\ Replacing(p) => /\ req[p].mark \in Serials
                     /\ creds[req[p].mark].kind = "refresh" =>
                          creds[req[p].mark].long = req[p].long
LifeInv == Lives /\ \A p \in Handlers : req[p].op = "refresh" => Inherits(p)

\* What an inserted token says.
LEMMA NewToken ==
  ASSUME TypeOK, AllOnPath, NEW p \in Handlers, createRefreshToken(p),
         NEW c \in Serials, creds'[c] # creds[c]
  PROVE  /\ c = req[p].serial /\ creds'[c].long = req[p].long
         /\ creds'[c].expiry = creds'[c].created + Lifetime(req[p].long)
<1>1. req[p].at = "issue" /\ req[p].serial \in Serials
  BY Serving DEF createRefreshToken
<1>2. req[p].op \in {"loginPassword", "verify", "refresh"}
  BY <1>1 DEF AllOnPath, OnPath, OpsAt
<1>3. Life(req[p].op, req[p].long) = Lifetime(req[p].long)
  BY <1>2 DEF Life, Lifetime
<1>4. creds \in [Serials -> Cred \cup {Unused}]
  BY DEF TypeOK
<1>5. creds' = [creds EXCEPT ![req[p].serial] =
                  [kind |-> "refresh", email |-> req[p].email, id |-> req[p].row.id,
                   created |-> now, expiry |-> now + Life(req[p].op, req[p].long),
                   root |-> req[p].root, long |-> req[p].long]]
        \/ creds' = creds
  BY DEF createRefreshToken, Insert
<1>. QED  BY <1>1, <1>3, <1>4, <1>5

\* A refresh that has its new token rests until it is over.
LEMMA ReplacingRests ==
  ASSUME TypeOK, NEW p \in Handlers, Replacing(p), req'[p] # Idle,
         (\E q \in Handlers : Serve(q)) \/ Cleanup \/ Tick \/ Crash
  PROVE  req'[p] = req[p]
<1>1. Serve(p) => deleteCredential(p)
  BY DEF Replacing, Serve, RecordLoginAttempt, readLastSuccess, checkBanUser, Update, Delete,
     checkLimit, Create, getUser, findUser, admit, createAuthState, createRefreshToken
<1>2. ~deleteCredential(p)
  BY Onward DEF Replacing
<1>3. \A q \in Handlers : Serve(q) => \A o \in Handlers \ {q} : req'[o] = req[o]
  BY ServeKeeps DEF Serve, Keeps
<1>4. Cleanup \/ Tick \/ Crash => \A o \in Handlers : req'[o] \in {req[o], Idle}
  BY DEF Cleanup, Tick, Crash
<1>. QED  BY <1>1, <1>2, <1>3, <1>4

LEMMA LivesStep ==
  ASSUME TypeOK, LoginInv, LifeInv, Next
  PROVE  Lives'
<1>. SUFFICES ASSUME NEW c \in Serials, creds'[c].kind = "refresh"
              PROVE  creds'[c].expiry = creds'[c].created + Lifetime(creds'[c].long)
  BY DEF Lives, Lifetime
<1>1. CASE creds'[c] = creds[c]
  BY <1>1 DEF LifeInv, Lives
<1>2. ASSUME NEW p \in Handlers, Inserts(p, c), creds'[c] # creds[c]
      PROVE  creds'[c].expiry = creds'[c].created + Lifetime(creds'[c].long)
  <2>1. createRefreshToken(p)
    BY <1>2 DEF Inserts
  <2>. QED  BY <1>2, <2>1, NewToken DEF LoginInv
<1>. QED  BY <1>1, <1>2, CredsAppear

\* The threshold lies between the two lifetimes.
LEMMA LongLived ==
  ASSUME TypeOK, Lives, NEW c \in Serials, creds[c].kind = "refresh"
  PROVE  isLongLived(c) = creds[c].long
<1>1. creds[c].created \in Nat /\ creds[c].long \in BOOLEAN
  BY CredFields DEF Kinds
<1>2. creds[c].expiry = creds[c].created + (IF creds[c].long THEN LongLife ELSE ShortLife)
  BY DEF Lives, Lifetime
<1>3. /\ ShortLife \in Nat /\ LongLife \in Nat /\ LongThreshold \in Nat
      /\ ShortLife <= LongThreshold /\ LongThreshold < LongLife
  BY Bounds, AccountsAssumption DEF AccountsAssumption
<1>4. isLongLived(c) <=> creds[c].long
  BY <1>1, <1>2, <1>3 DEF isLongLived
<1>5. isLongLived(c) \in BOOLEAN
  BY DEF isLongLived
<1>. QED  BY <1>1, <1>4, <1>5

LEMMA LifeArrives ==
  ASSUME TypeOK, ResetInv, LoginInv, LifeInv, NEW p \in Handlers, Arrive(p), Next,
         NEW q \in Handlers, req'[q].op = "refresh"
  PROVE  Inherits(q)'
<1>1. PICK r \in Fresh : Begin(p, r) /\ Read(r)
  BY ArriveBegins
<1>2. /\ creds' = creds /\ req[p].at = "idle" /\ req'[p].op = r.op /\ req'[p].at = r.at
      /\ req'[p].cred = r.cred /\ \A o \in Handlers \ {p} : req'[o] = req[o]
  BY <1>1, Arrival
<1>3. CASE q # p
  <2>1. req'[q] = req[q] /\ Inherits(q)
    BY <1>2, <1>3 DEF LifeInv
  <2>2. PICK c \in Serials : c = req[q].cred
    BY <2>1 DEF Inherits
  <2>3. Settled(c)'
    BY <2>1, <2>2, SettledStays DEF Inherits
  <2>4. \A o \in Handlers : req'[o].serial # req'[q].cred
    BY <2>1, <2>2, <2>3 DEF Settled
  <2>5. req'[q].cred <= serial'
    BY <2>1, <2>2, <2>3 DEF Settled
  <2>. QED  BY <1>2, <2>1, <2>4, <2>5 DEF Inherits, Settled, Replacing
<1>4. CASE q = p
  <2>1. /\ r.op = "refresh" /\ r.cred \in Serials /\ creds[r.cred].kind = "refresh"
        /\ Answered(r.cred) /\ r.long = isLongLived(r.cred) /\ r.at = "account"
    BY <1>1, <1>2, <1>4 DEF Read, Presents, FirstStep
  <2>2. PICK c \in Serials : c = r.cred
    BY <2>1
  <2>3. Settled(c)
    <3>1. c <= serial
      BY <2>1, <2>2, Bounds DEF LoginInv, Replacements, Serials, TypeOK
    <3>2. ASSUME NEW o \in Handlers, req[o].serial = c PROVE FALSE
      <4>1. req[o].serial # 0
        BY <3>2, Bounds DEF Serials
      <4>2. Replacing(o) /\ req[o].mark = c
        BY <2>1, <2>2, <3>2, <4>1 DEF LoginInv, Replacements
      <4>. QED  BY <2>1, <2>2, <4>2 DEF Answered, Replacing
    <3>. QED  BY <3>1, <3>2 DEF Settled
  <2>4. Settled(c)'
    BY <2>3, SettledStays
  <2>5. req'[p].long = r.long
    BY <1>1 DEF Begin, Fresh, TypeOK
  <2>6. req'[p].long = creds[c].long
    BY <2>1, <2>2, <2>5, LongLived DEF LifeInv
  <2>7. ~Replacing(p)'
    BY <1>2, <2>1 DEF Replacing
  <2>8. req'[p].cred = c /\ creds'[c] = creds[c]
    BY <1>2, <2>2
  <2>9. \A o \in Handlers : req'[o].serial # req'[p].cred
    BY <2>4, <2>8 DEF Settled
  <2>10. req'[p].cred <= serial'
    BY <2>4, <2>8 DEF Settled
  <2>. QED  BY <1>4, <2>6, <2>7, <2>8, <2>9, <2>10 DEF Inherits, Settled
<1>. QED  BY <1>3, <1>4

LEMMA LifeGoesOn ==
  ASSUME TypeOK, ResetInv, LoginInv, LifeInv, Next,
         (\E p \in Handlers : Serve(p)) \/ Cleanup \/ Tick \/ Crash,
         NEW q \in Handlers, req'[q].op = "refresh"
  PROVE  Inherits(q)'
<1>1. req'[q] # Idle /\ Same(q) /\ req[q].op = "refresh" /\ Inherits(q)
  BY OtherSteps DEF Idle, Same, LifeInv
<1>2. req'[q].long = req[q].long
  <2>1. \A p \in Handlers : Serve(p) => \A o \in Handlers \ {p} : req'[o] = req[o]
    BY ServeKeeps DEF Serve, Keeps
  <2>2. Cleanup \/ Tick \/ Crash => \A o \in Handlers : req'[o] \in {req[o], Idle}
    BY DEF Cleanup, Tick, Crash
  <2>3. Serve(q) => req'[q].long = req[q].long
    BY <1>1, InHand
  <2>. QED  BY <1>1, <2>1, <2>2, <2>3
<1>3. PICK c \in Serials : c = req[q].cred
  BY <1>1 DEF Inherits
<1>4. Settled(c) /\ req'[q].cred = c
  BY <1>1, <1>3 DEF Inherits, Same
<1>5. Settled(c)'
  BY <1>4, SettledStays
<1>6. creds'[c].kind = "refresh" => creds'[c].long = req'[q].long
  <2>1. \A p \in Handlers : ~Inserts(p, c)
    BY <1>4 DEF Inserts, Settled
  <2>2. creds'[c].kind = "refresh" => creds'[c] = creds[c]
    BY <2>1, CredsAppear
  <2>. QED  BY <1>1, <1>2, <1>3, <2>2 DEF Inherits
<1>7. req[q].serial \in Serials /\ req[q].serial # 0 /\ req'[q].serial = req[q].serial
  <2>1. req[q].at # "idle"
    BY <1>1 DEF TypeOK, Request, Idle, Steps
  <2>. QED  BY <1>1, <2>1, Serving, Bounds DEF Same, Serials
<1>8. PICK m \in Serials : m = req[q].serial
  BY <1>7
<1>9. ASSUME Replacing(q)'
      PROVE  req'[q].mark = m /\ (creds'[m].kind = "refresh" => creds'[m].long = req'[q].long)
  <2>1. ASSUME NEW p \in Handlers, Inserts(p, m), creds'[m] # creds[m]
        PROVE  creds'[m].kind = "refresh" => creds'[m].long = req'[q].long
    <3>1. p = q
      BY <1>7, <1>8, <2>1 DEF Inserts, ResetInv, Numbered
    <3>2. createRefreshToken(q) => creds'[m].long = req[q].long
      BY <2>1, NewToken DEF LoginInv
    <3>. QED  BY <1>2, <2>1, <3>1, <3>2 DEF Inserts
  <2>2. CASE Replacing(q)
    <3>1. req'[q] = req[q] /\ req[q].mark = m
      BY <1>1, <1>7, <1>8, <2>2, ReplacingRests DEF LoginInv, Replacements
    <3>2. creds[m].kind = "refresh" => creds[m].long = req[q].long
      BY <1>1, <2>2, <3>1 DEF Inherits
    <3>. QED  BY <1>2, <2>1, <3>1, <3>2, CredsAppear
  <2>3. CASE ~Replacing(q)
    <3>1. createRefreshToken(q)
      BY <1>9, <2>3, BeginsReplacing DEF LoginInv
    <3>2. req'[q].mark = m
      BY <1>1, <1>8, <3>1, Onward
    <3>3. creds[m].kind = "none"
      BY <1>7, <1>8, <2>3 DEF LoginInv, Replacements
    <3>. QED  BY <2>1, <3>2, <3>3, CredsAppear
  <2>. QED  BY <2>2, <2>3
<1>10. \A o \in Handlers : req'[o].serial # req'[q].cred
  BY <1>4, <1>5 DEF Settled
<1>11. req'[q].cred <= serial'
  BY <1>4, <1>5 DEF Settled
<1>. QED  BY <1>4, <1>6, <1>9, <1>10, <1>11 DEF Inherits, Settled

\* A session of a day never becomes one of four weeks, nor the other way round, however
\* often its tokens are refreshed (auth-router.go 146, 578-593).
THEOREM LifetimesAreInherited == Spec => []LifeIsInherited
<1>1. Init => LifeInv
  <2>. SUFFICES ASSUME Init PROVE LifeInv
    OBVIOUS
  <2>1. /\ \A p \in Handlers : req[p] = Idle
        /\ \A c \in Serials : creds[c].kind = "none"
    BY DEF Init, Unused
  <2>. QED  BY <2>1 DEF LifeInv, Lives, Idle
<1>2. TypeOK /\ ResetInv /\ LoginInv /\ LifeInv /\ [Next]_vars => LifeInv'
  <2>1. ASSUME TypeOK, ResetInv, LoginInv, LifeInv, Next PROVE LifeInv'
    <3>1. \A q \in Handlers : req'[q].op = "refresh" => Inherits(q)'
      BY <2>1, LifeArrives, LifeGoesOn DEF Next
    <3>. QED  BY <2>1, <3>1, LivesStep DEF LifeInv
  <2>2. LifeInv /\ UNCHANGED vars => LifeInv'
    BY DEF LifeInv, Lives, Lifetime, Inherits, Settled, Replacing, vars
  <2>. QED  BY <2>1, <2>2
<1>3. TypeOK /\ LifeInv => LifeIsInherited
  <2>. SUFFICES ASSUME TypeOK, LifeInv, NEW p \in Handlers, Replacing(p),
                       creds[req[p].cred].kind = "refresh",
                       creds[req[p].mark].kind = "refresh"
                PROVE  creds[req[p].mark].expiry - creds[req[p].mark].created =
                       creds[req[p].cred].expiry - creds[req[p].cred].created
    BY DEF LifeIsInherited, Replacing
  <2>1. Inherits(p)
    BY DEF LifeInv, Replacing
  <2>2. PICK c \in Serials, m \in Serials : c = req[p].cred /\ m = req[p].mark
    BY <2>1 DEF Inherits
  <2>3. creds[c].long = creds[m].long
    BY <2>1, <2>2 DEF Inherits
  <2>4. PICK n \in Nat : n = Lifetime(creds[c].long)
    BY Bounds DEF Lifetime
  <2>5. /\ creds[c].expiry = creds[c].created + n
        /\ creds[m].expiry = creds[m].created + n
    BY <2>2, <2>3, <2>4 DEF LifeInv, Lives
  <2>6. creds[c].created \in Nat /\ creds[m].created \in Nat
    BY <2>2, CredFields DEF Kinds
  <2>. QED  BY <2>2, <2>4, <2>5, <2>6
<1>4. Init => ResetInv /\ LoginInv
  BY ResetsBegin, LoginsBegin
<1>5. TypeOK /\ ResetInv /\ LoginInv /\ [Next]_vars => ResetInv' /\ LoginInv'
  BY ResetsGoOn, LoginsGoOn
<1>. QED  BY <1>1, <1>2, <1>3, <1>4, <1>5, TypeCorrect, PTL DEF Spec
=============================================================================
