------------------------------ MODULE MCRules ------------------------------
(***************************************************************************)
(* The range predicates of Intervals and the rules of BookingRules for     *)
(* every request of two users within a few days, as the clock goes on:     *)
(* days of four hours of two minutes, weeks of two days, locations one     *)
(* hour ahead of UTC.  Stored rows range over the first minutes; ranges    *)
(* that end before they start are included everywhere.                     *)
(***************************************************************************)
EXTENDS BookingRules, Intervals

CONSTANTS MaxTime, MaxRowTime, ann, bob

ASSUME BoundsAssumption == MaxTime \in Nat /\ MaxRowTime \in Nat

VARIABLES enter, leave, user, now
vars == <<enter, leave, user, now>>

MCHourly ==
  [noAdminRestrictions |-> TRUE, dailyBasisBooking |-> FALSE,
   maxBookingDurationHours |-> 3, minBookingDurationHours |-> 1,
   maxDaysInAdvance |-> 1, maxBookingsPerUser |-> 9,
   maxConcurrentBookingsPerUser |-> 0,
   enableMaxHourBeforeDelete |-> TRUE, maxHoursBeforeDelete |-> 2,
   allowBookingsNonExistingUsers |-> FALSE, maxUsers |-> 9]

EnterLater == enter < MaxTime /\ enter' = enter + 1 /\ UNCHANGED <<leave, user, now>>
LeaveLater == leave < MaxTime /\ leave' = leave + 1 /\ UNCHANGED <<enter, user, now>>
TimePasses == now < MaxTime /\ now' = now + 1 /\ UNCHANGED <<enter, leave, user>>
OtherUser == user' \in {ann, bob} \ {user} /\ UNCHANGED <<enter, leave, now>>

Init == enter = 0 /\ leave = 0 /\ user = bob /\ now = 0
Next == EnterLater \/ LeaveLater \/ TimePasses \/ OtherUser
Spec == Init /\ [][Next]_vars

Request == [enter |-> enter, leave |-> leave]
Rows == Ranges(0 .. MaxRowTime)

----------------------------------------------------------------------------
(* Ranges.                                                                 *)

\* A space GetAllInTime shows as taken is refused by GetConflicts; one it shows
\* as free is refused only for a range starting the minute a booking ends.
AvailableMeansBookable ==
  \A b \in Rows :
    Lasting(Request) /\ Lasting(b) =>
      (InConflict(b, enter, leave) <=> IsOccupying(b, enter, leave) \/ enter = b.leave)

\* Bookings running in the minute that starts at t.
RunningIn(rows, t) == {i \in DOMAIN rows : rows[i].enter <= t /\ t < rows[i].leave}

\* GetConcurrent's samples at whole minutes miss nothing that lasts two
\* minutes: with times on even minutes they see every number of bookings that
\* run at once during the requested range.
SamplesSeeEveryPeak ==
  Lasting(Request) /\ enter % 2 = 0 /\ leave % 2 = 0 =>
    \A rows \in [{1, 2} -> Ranges({t \in 0 .. MaxRowTime : t % 2 = 0})] :
      \A limit \in 1 .. 3 :
        ConcurrentBelow(rows, enter, leave, limit)
          <=> \A t \in enter .. leave - 1 : Cardinality(RunningIn(rows, t)) < limit

----------------------------------------------------------------------------
(* Rules.                                                                  *)

Accepted(e, l) ==
  /\ isValidBookingDuration(e, l, user)
  /\ isValidBookingAdvance(e, l, user, now)
  /\ isValidMinHoursBooking(e, l, user)

\* A user who is restricted gets, between the minimum and the maximum length,
\* what starts today or at most the configured number of days ahead, in UTC;
\* the time of day of the request plays no part.  (hourly bookings)
AcceptedIsWithinBounds ==
  Accepted(enter, leave) /\ user \notin SpaceAdmins =>
    /\ leave - enter \in Settings.minBookingDurationHours * MinutesPerHour
                           .. Settings.maxBookingDurationHours * MinutesPerHour
    /\ \E d \in 0 .. Settings.maxDaysInAdvance : Instant(enter) \div Day = (now \div Day) + d

\* A booking that may no longer be deleted never may again.
DeletionStaysClosed ==
  [][TimePasses /\ ~isValidBookingHoursBeforeDelete(enter, user, now)
       => ~isValidBookingHoursBeforeDelete(enter, user, now)']_vars

----------------------------------------------------------------------------
(* The booking page of the web client, in a browser in the time zone of    *)
(* the locations; no administrator is exempted.                            *)

Client ==
  INSTANCE SearchRules WITH
    Settings <- [Settings EXCEPT !.noAdminRestrictions = FALSE], NoArea <- "none"

\* What the page lets a user look for the server accepts, at the same minute,
\* as far as no bookings are concerned; but for the day after the last one that
\* may be booked, which the page offers from the time of day on it then is: it
\* counts the days in advance from now, not from midnight in UTC.  (hourly bookings)
OfferedMeansAccepted ==
  Client!updateCanSearch(0, "floor", enter, leave, now + ZoneOffset) =>
    \/ Accepted(enter, leave)
    \/ /\ DaysAhead(enter, now) = Settings.maxDaysInAdvance + 1
       /\ Instant(enter) % Day < now % Day
=============================================================================
