----------------------------- MODULE MCBooking -----------------------------
(***************************************************************************)
(* Small instances of Booking: a day has two hours of two minutes, a week  *)
(* is a day, and a handful of ranges stands for all the ways two ranges    *)
(* can lie.                                                                *)
(***************************************************************************)
EXTENDS Booking, TLC

CONSTANTS ann, bob, desk1, desk2, floor

Range(e, l) == [enter |-> e, leave |-> l]

MCUsers == {ann, bob}
MCLocationOf == [s \in Spaces |-> floor]
MCCapacity1 == [l \in Locations |-> 1]
MCCapacity2 == [l \in Locations |-> 2]
MCNoCapacity == [l \in Locations |-> 0]

\* Open: no setting restricts anything but the length of a booking.
MCOpenSettings ==
  [noAdminRestrictions |-> FALSE, dailyBasisBooking |-> FALSE,
   maxBookingDurationHours |-> 9, minBookingDurationHours |-> 0,
   maxDaysInAdvance |-> 9, maxBookingsPerUser |-> 9,
   maxConcurrentBookingsPerUser |-> 0,
   enableMaxHourBeforeDelete |-> FALSE, maxHoursBeforeDelete |-> 0,
   allowBookingsNonExistingUsers |-> TRUE, maxUsers |-> 9]

\* Touching and overlapping; nested, with two that touch and one of them too short
\* for the capacity to count it; overlapping; only one.
MCThreeWindows == {Range(0, 2), Range(2, 4), Range(1, 3)}
MCNestedWindows == {Range(0, 4), Range(1, 3), Range(3, 4)}
MCTwoWindows == {Range(0, 2), Range(1, 3)}
MCOneWindow == {Range(0, 2)}

\* A time zone behind UTC.
MCWest == -1

\* Two bookings ahead, one at a time.
MCUserLimits ==
  [MCOpenSettings EXCEPT !.maxBookingsPerUser = 2, !.maxConcurrentBookingsPerUser = 1]

HandlerSymmetry == Permutations(Handlers)
CalendarSymmetry == Permutations(Goroutines)
DeskSymmetry == HandlerSymmetry \cup Permutations(Spaces)
=============================================================================
