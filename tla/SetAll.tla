------------------------------- MODULE SetAll -------------------------------
(***************************************************************************)
(* PUT /setting/ and PUT /preference/: the server checks and stores the    *)
(* entries of a list one after the other, without a transaction, and stops *)
(* at the first one it refuses; of two requests the steps interleave.      *)
(***************************************************************************)
EXTENDS Sequences

CONSTANT
  Refused        \* the values the server refuses

VARIABLES
  stored,        \* the entries in the database: names to values
  requests       \* the lists pending: who sent them, what is left, and whether all was stored

Send(n, from, list) ==
  requests' = requests \cup {[n |-> n, from |-> from, left |-> list, ok |-> TRUE]}

Stored(r) ==
  /\ r \in requests /\ r.left # <<>> /\ Head(r.left).value \notin Refused
  /\ stored' = [stored EXCEPT ![Head(r.left).name] = Head(r.left).value]
  /\ requests' = (requests \ {r}) \cup {[r EXCEPT !.left = Tail(@)]}

\* A value that is refused, or, whatever the value, the database fails.
NotStored(r) ==
  /\ r \in requests /\ r.left # <<>>
  /\ requests' = (requests \ {r}) \cup {[r EXCEPT !.left = <<>>, !.ok = FALSE]}
  /\ UNCHANGED stored

Answered(r) ==
  /\ r \in requests /\ r.left = <<>> /\ requests' = requests \ {r}
  /\ UNCHANGED stored
=============================================================================
