---------------------------- MODULE BookingRules ----------------------------
(***************************************************************************)
(* The checks of booking-router.go that read no booking: what the settings *)
(* of the organisation allow a requested range to be, as a function of the *)
(* range, the user who sends the request and the current time; and the     *)
(* dates of a weekly series.                                               *)
(*                                                                         *)
(* Time is counted in minutes.  The number of minutes in an hour, of hours *)
(* in a day and of days in a week are constants, so that a small instance  *)
(* can have short days; a day has the same length all year (getHoursOnDate *)
(* only differs on the two days a year the clocks change).  Go converts a  *)
(* duration to whole hours by truncation towards zero and a number of days *)
(* in advance by math.Floor: Truncated is the former, \div the latter.     *)
(*                                                                         *)
(* A request names wall-clock times of its location, and the columns of    *)
(* table bookings hold wall-clock times too (a TIMESTAMP drops the offset  *)
(* it is given): enter and leave are wall-clock times everywhere.  The     *)
(* clock of the server, now, and the last date of a series are in UTC.     *)
(***************************************************************************)
EXTENDS Integers

CONSTANTS
  MinutesPerHour, HoursPerDay, DaysPerWeek,
  SpaceAdmins,   \* the users CanSpaceAdminOrg accepts
  Settings,      \* the settings of the organisation the checks read
  ZoneOffset     \* what the time zone of the locations is ahead of UTC

ASSUME CalendarAssumption ==
  /\ MinutesPerHour \in Nat \ {0}
  /\ HoursPerDay \in Nat \ {0}
  /\ DaysPerWeek \in Nat \ {0}
  /\ ZoneOffset \in Int

ASSUME SettingsAssumption ==
  Settings \in [noAdminRestrictions : BOOLEAN,
                dailyBasisBooking : BOOLEAN,
                maxBookingDurationHours : Nat,
                minBookingDurationHours : Nat,
                maxDaysInAdvance : Nat,
                maxBookingsPerUser : Nat,
                maxConcurrentBookingsPerUser : Nat,
                enableMaxHourBeforeDelete : BOOLEAN,
                maxHoursBeforeDelete : Nat,
                allowBookingsNonExistingUsers : BOOLEAN,
                maxUsers : Nat]

Day == HoursPerDay * MinutesPerHour
Week == DaysPerWeek * Day

\* Go's int(x / n): truncation towards zero.
Truncated(x, n) == IF x >= 0 THEN x \div n ELSE -((-x) \div n)

\* attachTimezoneInformation: the instant, in UTC, of a wall-clock time.
Instant(t) == t - ZoneOffset

\* noAdminRestrictions && CanSpaceAdminOrg(user, orgID)
Unrestricted(user) == Settings.noAdminRestrictions /\ user \in SpaceAdmins

----------------------------------------------------------------------------
(* Mutants.                                                                *)

HourlyDuration(enter, leave, user) ==
  \/ Unrestricted(user)
  \/ leave - enter >= 0 /\ Truncated(leave - enter, MinutesPerHour)
                             <= Settings.maxBookingDurationHours
AbsoluteHoursBeforeDelete(enter, user, now) ==
  \/ Unrestricted(user)
  \/ Truncated(IF enter > now THEN enter - now ELSE now - enter, MinutesPerHour)
       > Settings.maxHoursBeforeDelete
ExclusiveInSeries(first, k, until) == Instant(first.enter + k * Week) < until

----------------------------------------------------------------------------
\* In daily-basis mode only whole days pass, and neither the maximum nor the
\* sign of the duration is looked at: the function returns before it would.
isValidBookingDuration(enter, leave, user) ==
  \/ Unrestricted(user)
  \/ /\ Settings.dailyBasisBooking
     /\ Truncated(leave - enter, MinutesPerHour) % HoursPerDay = 0
  \/ /\ ~Settings.dailyBasisBooking
     /\ leave - enter \in 0 .. Settings.maxBookingDurationHours * MinutesPerHour

\* The first instant an ongoing booking may end at: this morning, or the noon
\* before in daily-basis mode.
EarliestLeave(now) ==
  (now \div Day) * Day - (IF Settings.dailyBasisBooking THEN Day \div 2 ELSE 0)

DaysAhead(enter, now) == (Instant(enter) - EarliestLeave(now)) \div Day

isValidBookingAdvance(enter, leave, user, now) ==
  /\ Instant(leave) >= EarliestLeave(now)
  /\ DaysAhead(enter, now) >= 0
  /\ \/ Unrestricted(user)
     \/ DaysAhead(enter, now) <= Settings.maxDaysInAdvance

isValidMinHoursBooking(enter, leave, user) ==
  \/ Unrestricted(user)
  \/ Truncated(leave - enter, MinutesPerHour) >= Settings.minBookingDurationHours

\* The wall-clock time of the row is compared with the server's clock as if
\* it were in UTC.
isValidBookingHoursBeforeDelete(enter, user, now) ==
  \/ Unrestricted(user)
  \/ ~Settings.enableMaxHourBeforeDelete
  \/ Settings.maxHoursBeforeDelete = 0
  \/ Truncated(enter - now, MinutesPerHour) > Settings.maxHoursBeforeDelete

\* Occurrence k of the series whose first booking is the requested one: the
\* handler adds seven days to enter, and builds leave from the date of that
\* enter and the time of day of the requested leave.
SeriesEnter(first, k) == first.enter + k * Week
SeriesLeave(first, k) ==
  (SeriesEnter(first, k) \div Day) * Day + (first.leave % Day)

\* Whether the loop that lists the dates of a series reaches occurrence k.
InSeries(first, k, until) == Instant(SeriesEnter(first, k)) <= until
=============================================================================
