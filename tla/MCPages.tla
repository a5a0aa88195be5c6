-------------------------------- MODULE MCPages --------------------------------
EXTENDS Pages, TLC
CONSTANTS hall, attic, desk1, desk2, own
MCAreaOf == desk1 :> hall @@ desk2 :> attic
MCPreferences == [enterTime |-> 1, workdayStart |-> 1, workdayEnd |-> 2, workdays |-> {0}]
MCSettings ==
  [noAdminRestrictions |-> FALSE, dailyBasisBooking |-> FALSE,
   maxBookingDurationHours |-> 9, minBookingDurationHours |-> 0,
   maxDaysInAdvance |-> 1, maxBookingsPerUser |-> 1,
   maxConcurrentBookingsPerUser |-> 0,
   enableMaxHourBeforeDelete |-> FALSE, maxHoursBeforeDelete |-> 0,
   allowBookingsNonExistingUsers |-> FALSE, maxUsers |-> 9]
MCOpenings ==
  {[new |-> TRUE, daily |-> d, enter |-> 0, leave |-> 0, space |-> desk1] : d \in BOOLEAN}
  \cup {[new |-> FALSE, daily |-> FALSE, enter |-> e, leave |-> e + 1, space |-> desk2] :
          e \in {-3, 4}}
  \cup {[new |-> FALSE, daily |-> TRUE, enter |-> 4, leave |-> 5, space |-> desk2]}

Visit(p, kinds, n, failures) ==
  [page |-> p, inputs |-> kinds, count |-> n, failures |-> failures]
MCVisits == {
  Visit("booking", {"date", "area", "space", "save"}, 4, 0),
  Visit("booking", {"date", "area", "space", "save", "delete"}, 3, 1),
  Visit("area", {"add", "edit", "save", "file"}, 4, 0),
  Visit("area", {"add", "drag", "remove", "copy", "save"}, 4, 0),
  Visit("area", {"value", "clear", "save", "file", "edit"}, 4, 0),
  Visit("area", {"add", "drag", "remove", "save", "value", "file", "delete"}, 3, 1),
  Visit("settings", {"daily", "duration", "save"}, 4, 0),
  Visit("settings", {"daily", "duration", "save"}, 3, 1),
  Visit("settings", {"name", "add", "remove", "verify"}, 4, 0),
  Visit("settings", {"save", "name", "add", "remove", "delete"}, 3, 1),
  Visit("preferences", {"account", "connect", "saveCalendar", "disconnect", "saveColours"}, 5, 0),
  Visit("preferences", {"hours", "colours", "password", "save", "saveColours",
                        "savePassword"}, 4, 1),
  Visit("preferences", {"account", "connect", "saveCalendar", "disconnect"}, 4, 1)}
=============================================================================
