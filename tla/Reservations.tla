---------------------------- MODULE Reservations ----------------------------
(***************************************************************************)
(* What the booking service promises, with none of its machinery: a        *)
(* reservation is made, moved or given up in one atomic step, and at no    *)
(* moment do two reservations of a space share an instant or more than the *)
(* allowed number of a location's reservations run at the same time.       *)
(***************************************************************************)
EXTENDS Intervals

CONSTANTS Ids, Users, Spaces, Locations, LocationOf,
          Capacity,   \* reservations a location may have at a time, 0: any
          None

VARIABLE held         \* id -> reservation or None

Reservation == [user : Users, space : Spaces, enter : Nat, leave : Nat]

Taken(hs) == {i \in Ids : hs[i] # None}

Exclusive(hs) ==
  \A i, k \in Taken(hs) :
    i # k /\ hs[i].space = hs[k].space => ~Share(hs[i], hs[k])

Running(hs, loc, t) ==
  {i \in Taken(hs) : /\ LocationOf[hs[i].space] = loc
                     /\ hs[i].enter < t /\ t < hs[i].leave}

WithinCapacity(hs) ==
  \A loc \in Locations : Capacity[loc] # 0 =>
    \A i \in Taken(hs) : \A t \in hs[i].enter .. hs[i].leave :
      Cardinality(Running(hs, loc, t)) <= Capacity[loc]

Kept(hs) == Exclusive(hs) /\ WithinCapacity(hs)

\* A fresh reservation, or another user, space or time for an existing one.
Put(i) ==
  /\ held'[i] \in Reservation
  /\ held' = [held EXCEPT ![i] = held'[i]]
  /\ Kept(held')

Release(i) == held' = [held EXCEPT ![i] = None]

Init == held = [i \in Ids |-> None]
Next == \E i \in Ids : Put(i) \/ Release(i)
Spec == Init /\ [][Next]_held
=============================================================================
