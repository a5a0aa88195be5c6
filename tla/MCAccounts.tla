----------------------------- MODULE MCAccounts ------------------------------
(* Small instances of Accounts: what the requests of a behaviour may be.       *)
EXTENDS Accounts, TLC

CONSTANTS ann, bob, cem, a, b

Nobody == [e \in {} |-> a]
OneAccount == ann :> a
Anyone == {Nobody, OneAccount}

Some(ops, emails, long, n, failures, clock) ==
  [ops |-> ops, emails |-> emails, long |-> long, requests |-> n,
   faults |-> failures, clock |-> clock]

\* Logins against the ban (four of them; with a failure; while the window slides),
\* bans against the handlers that write users, resets, the life of tokens and of
\* provider logins, and the creation of users.
Races == {
  Some({"loginPassword"}, {ann}, {FALSE}, 4, 0, 2),
  Some({"loginPassword"}, {ann}, {FALSE}, 3, 1, 2),
  Some({"loginPassword"}, {ann}, {FALSE}, 3, 0, 3),
  Some({"loginPassword", "update"}, {ann}, {FALSE}, 3, 0, 2),
  Some({"loginPassword", "setPassword"}, {ann}, {FALSE}, 3, 0, 2),
  Some({"initReset", "completeReset", "setPassword"}, {ann}, {FALSE}, 3, 1, 3),
  Some({"loginPassword", "refresh"}, {ann}, {FALSE, TRUE}, 2, 0, 3),
  Some({"loginPassword", "refresh"}, {ann}, {FALSE}, 3, 1, 2),
  Some({"loginPassword", "refresh", "delete"}, {ann}, {FALSE}, 3, 0, 2),
  Some({"login", "callback", "verify", "create"}, {ann}, {FALSE}, 4, 0, 2),
  Some({"login", "callback", "verify"}, {ann}, {FALSE}, 3, 1, 1),
  Some({"create", "delete"}, {ann, bob, cem}, {FALSE}, 3, 1, 1)}

\* Two requests and a failure, or three, and then time passes.
Endings == {
  Some({"loginPassword", "update"}, {ann}, {FALSE}, 2, 1, 2),
  Some({"loginPassword"}, {ann}, {FALSE}, 3, 0, 2),
  Some({"login", "callback", "initReset", "refresh", "loginPassword"}, {ann}, {FALSE},
       2, 1, 3)}
=============================================================================
