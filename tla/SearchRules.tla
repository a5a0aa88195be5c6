---------------------------- MODULE SearchRules -----------------------------
(***************************************************************************)
(* What the booking page of the web client (search.tsx) computes from its  *)
(* own state, without a request: the dates it starts with, the area it     *)
(* starts with, whether it considers a search possible, and the colour of  *)
(* a space.  RuntimeConfig.INFOS is what the server sent of the settings.  *)
(*                                                                         *)
(* Time is in minutes and in the browser's zone; day d is the half-open    *)
(* interval d * Day .. (d + 1) * Day, and d % DaysPerWeek its weekday.     *)
(* 23:59:59 is LastMinute: it lies after every whole minute of the day.    *)
(***************************************************************************)
EXTENDS BookingRules, FiniteSets

CONSTANTS
  NoArea         \* the empty locationId

\* User.UserRoleSpaceAdmin is a constant other than zero: where administrators
\* are not restricted, the page restricts nobody.
isAdmin == Settings.noAdminRestrictions

DayOf(t) == t \div Day
LastMinute(t) == DayOf(t) * Day + Day - 1

\* date.setHours(hour, 0, 0, 0)
SetHours(t, hour) == DayOf(t) * Day + hour * MinutesPerHour
Hours(t) == (t % Day) \div MinutesPerHour

\* UserPreference.list as the page keeps it; enter_time is one of three.
EnterNow == 1
EnterNextDay == 2
EnterNextWorkday == 3

PreferenceRecords ==
  [enterTime : 0 .. 3, workdayStart : 0 .. HoursPerDay - 1,
   workdayEnd : 0 .. HoursPerDay - 1, workdays : SUBSET (0 .. DaysPerWeek - 1)]

----------------------------------------------------------------------------
(* Mutants.                                                                *)

DaysBetween(enter, now) == DayOf(enter) - DayOf(now) - 1

----------------------------------------------------------------------------
(* loadPreferences, initDates.                                             *)

\* In daily-basis mode the workday is the whole day.
Workday(pref) ==
  IF Settings.dailyBasisBooking
    THEN [pref EXCEPT !.workdayStart = 0, !.workdayEnd = HoursPerDay - 1]
    ELSE pref

\* The next full hour, but not before the workday starts, and in the next
\* morning once the workday is over.
NextHour(pref, now) ==
  LET next == (now \div MinutesPerHour + 1) * MinutesPerHour
      hour == IF Hours(next) < pref.workdayStart THEN SetHours(next, pref.workdayStart)
                                                 ELSE next
  IN  IF Hours(hour) >= pref.workdayEnd THEN SetHours(hour + Day, pref.workdayStart)
                                        ELSE hour

\* The search for a workday gives up one day after a whole week.
NextWorkday(pref, now) ==
  LET add == {n \in 0 .. DaysPerWeek + 1 :
                \/ n = DaysPerWeek + 1
                \/ (DayOf(now) + 1 + n) % DaysPerWeek \in pref.workdays}
  IN  SetHours(now + (1 + CHOOSE n \in add : \A m \in add : n <= m) * Day,
               pref.workdayStart)

InitialEnter(pref, now) ==
  CASE pref.enterTime = EnterNow -> NextHour(pref, now)
    [] pref.enterTime = EnterNextDay -> SetHours(now + Day, pref.workdayStart)
    [] pref.enterTime = EnterNextWorkday -> NextWorkday(pref, now)
    [] OTHER -> now

initDates(pref, now) ==
  LET enter == InitialEnter(pref, now)
  IN  IF Settings.dailyBasisBooking
        THEN [enter |-> SetHours(enter, 0), leave |-> LastMinute(enter)]
        ELSE [enter |-> enter, leave |-> SetHours(enter, pref.workdayEnd)]

\* The day the slider is on: as long a day as the earliest one, which starts
\* with the workday unless it is the earliest.
SliderDates(pref, earliest, value) ==
  LET day == earliest + value * Day
      enter == IF DayOf(day) > DayOf(earliest) THEN SetHours(day, pref.workdayStart) ELSE day
  IN  [enter |-> enter, leave |-> SetHours(enter, pref.workdayEnd)]

\* Formatting.getDayDiff
DayDiff(t1, t2) == DayOf(t1) - DayOf(t2)
SliderDisabled(enter, earliest) ==
  DayDiff(enter, earliest) \notin 0 .. Settings.maxDaysInAdvance

----------------------------------------------------------------------------
(* getPreferredLocationId: the previous area, the preferred one, or any    *)
(* other the user may choose; enabled are those of this.locations.         *)

PreferredLocations(previous, preferred, enabled) ==
  IF previous \in enabled THEN {previous}
  ELSE IF preferred \in enabled THEN {preferred}
  ELSE IF enabled = {} THEN {NoArea} ELSE enabled

----------------------------------------------------------------------------
(* updateCanSearch.                                                        *)

\* Whole days from this very minute, not from midnight.
AdvanceDays(enter, now) == (enter - now) \div Day

updateCanSearch(count, area, enter, leave, now) ==
  /\ area # NoArea
  /\ IF Settings.dailyBasisBooking THEN LastMinute(enter) >= now ELSE enter > now
  /\ leave > enter
  /\ \/ isAdmin
     \/ /\ count < Settings.maxBookingsPerUser
        /\ AdvanceDays(enter, now) <= Settings.maxDaysInAdvance
        /\ leave - enter <= Settings.maxBookingDurationHours * MinutesPerHour
        /\ leave - enter >= Settings.minBookingDurationHours * MinutesPerHour
=============================================================================
