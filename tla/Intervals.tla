------------------------------ MODULE Intervals ------------------------------
(***************************************************************************)
(* The four range predicates the server hands to PostgreSQL when it        *)
(* compares a stored booking b (its enter_time and leave_time) with a      *)
(* requested range, and the minute-by-minute sampling that turns the rows  *)
(* of a location into a number of concurrent bookings.  A time is a whole  *)
(* number of minutes.                                                      *)
(*                                                                         *)
(* Nothing keeps a row or a request from having leave < enter: every       *)
(* predicate is translated clause by clause and means what its clauses say *)
(* for such ranges too.                                                    *)
(***************************************************************************)
EXTENDS Integers, FiniteSets

Ranges(T) == [enter : T, leave : T]

----------------------------------------------------------------------------
(* Mutants: forms a plausible bug would give to the definitions below.     *)

OpenEndIsOccupying(b, enter, leave) ==
  \/ enter >= b.enter /\ enter < b.leave
  \/ leave > b.enter /\ leave <= b.leave
  \/ b.enter >= enter /\ b.enter < leave
  \/ b.leave > enter /\ b.leave <= leave

EndpointsOnlyNumActive(bs, t) ==
  Cardinality({i \in DOMAIN bs : bs[i].enter = t \/ bs[i].leave = t})

----------------------------------------------------------------------------
\* GetConflicts: the closed ranges [b.enter, b.leave] and [enter, leave].
InConflict(b, enter, leave) ==
  \/ enter >= b.enter /\ enter <= b.leave
  \/ leave >= b.enter /\ leave <= b.leave
  \/ b.enter >= enter /\ b.enter <= leave
  \/ b.leave >= enter /\ b.leave <= leave

\* GetTimeRangeByUser: "overlap start", "overlap end" and "within".
InUserRange(b, enter, leave) ==
  \/ enter <= b.enter /\ leave > b.enter
  \/ enter < b.leave /\ leave >= b.leave
  \/ enter >= b.enter /\ leave <= b.leave

\* GetAllInTime: a space is available when no row of it satisfies this.
IsOccupying(b, enter, leave) ==
  \/ enter >= b.enter /\ enter < b.leave
  \/ leave >= b.enter /\ leave <= b.leave
  \/ b.enter >= enter /\ b.enter <= leave
  \/ b.leave > enter /\ b.leave <= leave

\* getNumActive: the rows of bs (a function from ids) that strictly contain t.
NumActive(bs, t) ==
  Cardinality({i \in DOMAIN bs : bs[i].enter < t /\ t < bs[i].leave})

\* GetConcurrent, compared with a bound: the rows its query returns, sampled
\* every minute from enter to leave, are never limit or more at once.
ConcurrentBelow(bs, enter, leave, limit) ==
  LET rows == {i \in DOMAIN bs : InConflict(bs[i], enter, leave)}
  IN  \A t \in enter .. leave : NumActive([i \in rows |-> bs[i]], t) < limit

----------------------------------------------------------------------------
(* Reference definitions, independent of the clauses above.                *)

Proper(b) == b.enter <= b.leave
Lasting(b) == b.enter < b.leave

\* The two closed ranges share an instant.
Share(a, b) == a.enter <= b.leave /\ b.enter <= a.leave
\* They share more than an instant.
Overlap(a, b) == a.enter < b.leave /\ b.enter < a.leave
=============================================================================
