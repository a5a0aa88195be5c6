------------------------------ MODULE MCSearch ------------------------------
(* Small instances of SearchPage: two areas with a space each, days of three hours. *)
EXTENDS SearchPage, TLC

CONSTANTS hall, attic, desk1, desk2

MCAreaOf == desk1 :> hall @@ desk2 :> attic
MCPreferences == [enterTime |-> 2, workdayStart |-> 1, workdayEnd |-> 2, workdays |-> {0}]
MCSettings ==
  [noAdminRestrictions |-> FALSE, dailyBasisBooking |-> FALSE,
   maxBookingDurationHours |-> 9, minBookingDurationHours |-> 0,
   maxDaysInAdvance |-> 1, maxBookingsPerUser |-> 1,
   maxConcurrentBookingsPerUser |-> 0,
   enableMaxHourBeforeDelete |-> FALSE, maxHoursBeforeDelete |-> 0,
   allowBookingsNonExistingUsers |-> FALSE, maxUsers |-> 9]

Some(kinds, n, failures) == [inputs |-> kinds, count |-> n, failures |-> failures]

\* Dates and the slider under an open confirmation; areas and searches that
\* overlap; a booking after the other; and failures.
MCVisits == {
  Some({"date", "space", "confirm", "hide"}, 4, 0),
  Some({"slider", "space", "confirm"}, 3, 0),
  Some({"area", "space", "confirm", "hide"}, 4, 0),
  Some({"area", "dialog", "filter", "hide", "space"}, 3, 0),
  Some({"area", "date", "space", "confirm"}, 4, 0),
  Some({"date", "weekly", "space", "confirm"}, 3, 0),
  Some({"space", "confirm", "refresh", "buddy"}, 4, 0),
  Some({"area", "date", "filter", "dialog"}, 2, 1),
  Some({"space", "confirm", "buddy"}, 2, 1)}
=============================================================================
