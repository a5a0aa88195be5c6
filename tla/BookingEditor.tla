--------------------------- MODULE BookingEditor ----------------------------
(***************************************************************************)
(* The page of the administration on which a booking is created or changed *)
(* (admin-ui/src/pages/bookings/[id].tsx).                                 *)
(*                                                                         *)
(* The list of spaces the form offers is kept with the area and the times  *)
(* it was requested for; requests for lists are numbered as they are sent. *)
(* A booking opened with a time zone names wall-clock times; the page asks *)
(* for its first list with the dates as they came, which the browser, in a *)
(* zone BrowserOffset ahead of UTC, shifts once more.                      *)
(***************************************************************************)
EXTENDS Page, SearchRules

CONSTANTS
  EditorAreas, EditorSpaces,
  EditorAreaOf,  \* the area of each space
  EditorNow,     \* the clock: a visit is short
  EditorPicks,   \* the dates the user may pick
  EditorPreferences,
  BrowserOffset,
  Openings,      \* the pages that may be opened
  NoSpace, NoTime

\* New is the page /bookings/add; dates, area and space are those of the booking.
Opening ==
  [new : BOOLEAN, daily : BOOLEAN, enter : Int, leave : Int, space : EditorSpaces]

ASSUME EditorAssumption ==
  /\ NoArea \notin EditorAreas /\ NoSpace \notin EditorSpaces /\ NoTime \notin Int
  /\ EditorAreaOf \in [EditorSpaces -> EditorAreas]
  /\ EditorNow \in Int /\ EditorPicks \subseteq Int /\ BrowserOffset \in Int
  /\ EditorPreferences \in PreferenceRecords /\ Openings \subseteq Opening

VARIABLES
  opened,
  bookingLoads,  \* the requests of componentDidMount, by what became of them
  pref,          \* the preferences in the state
  enter, leave, selectedLocationId, selectedSpaceId,
  spaces, isDisabledSpace,
  canEdit,       \* canSave and canEdit are set together
  canSearchHint, \* TRUE iff the form warns of its dates; it can be saved all the same
  hasId,         \* entity.id is set: a save updates
  isNewBooking,
  leaveChangeTimer, \* the one timer of both pickers: what it will do
  spacesAsked,   \* pending requests for a list of spaces
  asks,          \* how many were sent
  bookingSaves,  \* pending saves: "POST" and "PUT", with the number of the save
  made,          \* how many bookings the page has created
  sentBooking,   \* the last booking sent
  \* History variables.
  reordered,     \* a list has been replaced by that of an older request
  early,         \* the space was chosen while another list was on its way
  rounded,       \* Save has rounded the dates a list was asked for
  resent         \* Save was pressed while a POST was pending, or the answer of one was lost

form == <<enter, leave, selectedLocationId, selectedSpaceId>>
offered == <<spaces, isDisabledSpace, spacesAsked, asks, reordered, rounded>>
stored == <<hasId, isNewBooking, bookingSaves, made, sentBooking, resent>>
pickers == <<leaveChangeTimer, canSearchHint>>
startup == <<opened, bookingLoads, pref>>
bookingPage == <<startup, form, offered, stored, canEdit, pickers, early>>
bookingVars == <<shell, bookingPage>>

BookingLoads == {"data", "settings", "locations", "preferences", "self"}
Awaited == BookingLoads \ {"self"}
NoTimer == [sets |-> "none", date |-> NoTime]
NoSpaces == [n |-> 0, area |-> NoArea, enter |-> 0, leave |-> 0, free |-> {}]
NotSent == [space |-> NoSpace, shown |-> NoSpace, excused |-> TRUE]
InList == {s \in EditorSpaces : EditorAreaOf[s] = spaces.area}

\* this.dailyBasisBooking is false until the settings have been answered.
dailyBasisBooking == opened.daily /\ bookingLoads["settings"] = "done"

\* The space the drop-down shows: React selects the first option that can be
\* chosen when none has the value of the state.
ShownSpace ==
  IF selectedSpaceId \in InList \cup {NoSpace} THEN selectedSpaceId
  ELSE IF spaces.free = {} THEN NoSpace ELSE CHOOSE s \in spaces.free : TRUE

----------------------------------------------------------------------------
\* /bookings/add has nothing to load; loadData is done at once.
BookingInit ==
  /\ opened \in Openings
  /\ bookingLoads =
       [l \in BookingLoads |-> IF l = "data" /\ opened.new THEN "done" ELSE "pending"]
  /\ pref = [enterTime |-> 0, workdayStart |-> 0, workdayEnd |-> 0, workdays |-> {}]
  /\ enter = EditorNow /\ leave = EditorNow
  /\ selectedLocationId = NoArea /\ selectedSpaceId = NoSpace
  /\ spaces = NoSpaces /\ isDisabledSpace = ~opened.new /\ canEdit = opened.new
  /\ spacesAsked = {} /\ asks = 0
  /\ hasId = FALSE /\ isNewBooking = opened.new /\ canSearchHint = FALSE
  /\ leaveChangeTimer = NoTimer
  /\ bookingSaves = {} /\ made = 0 /\ sentBooking = NotSent
  /\ reordered = FALSE /\ early = FALSE /\ rounded = FALSE /\ resent = FALSE

----------------------------------------------------------------------------
(* Mutants.                                                                *)

KeepTheSpace(a) == selectedSpaceId
AskForShownTimes(a, from, to) ==
  /\ asks' = asks + 1 /\ rounded' = FALSE
  /\ spacesAsked' = spacesAsked \cup {[n |-> asks', area |-> a, enter |-> enter, leave |-> leave]}
IdForgotten == hasId

----------------------------------------------------------------------------
(* loadSpaces.                                                             *)

AskSpaces(a, from, to) ==
  /\ asks' = asks + 1 /\ rounded' = FALSE
  /\ spacesAsked' = spacesAsked \cup {[n |-> asks', area |-> a, enter |-> from, leave |-> to]}

SpacesListed(r) ==
  /\ r \in spacesAsked /\ spacesAsked' = spacesAsked \ {r}
  /\ \E free \in SUBSET {s \in EditorSpaces : EditorAreaOf[s] = r.area} :
       spaces' = [n |-> r.n, area |-> r.area, enter |-> r.enter, leave |-> r.leave,
                  free |-> free]
  /\ isDisabledSpace' = FALSE
  /\ reordered' = (reordered \/ r.n < spaces.n)
  /\ UNCHANGED <<shell, startup, form, stored, canEdit, pickers, asks, early, rounded>>

\* The drop-down stays disabled, if it was.
SpacesNotListed(r) ==
  /\ Failure /\ Unheard
  /\ r \in spacesAsked /\ spacesAsked' = spacesAsked \ {r}
  /\ UNCHANGED <<startup, form, stored, canEdit, pickers, asks, early, spaces,
                 isDisabledSpace, reordered, rounded>>

----------------------------------------------------------------------------
(* componentDidMount.                                                      *)

\* initDates, in daily-basis mode whole days.
InitialDates(p, daily) ==
  LET first == InitialEnter(p, EditorNow)
  IN  IF daily THEN [enter |-> SetHours(first, 0), leave |-> LastMinute(first)]
               ELSE [enter |-> first, leave |-> SetHours(first, p.workdayEnd)]

\* A booking that has ended can be looked at only.
BookingOpened ==
  /\ enter' = opened.enter /\ leave' = opened.leave
  /\ selectedLocationId' = EditorAreaOf[opened.space] /\ selectedSpaceId' = opened.space
  /\ isDisabledSpace' = FALSE /\ canEdit' = (opened.leave >= EditorNow)
  /\ hasId' = TRUE /\ isNewBooking' = FALSE
  /\ AskSpaces(selectedLocationId', enter' + BrowserOffset, leave' + BrowserOffset)

\* The preferences are those of a daily mode only if the settings came first.
PreferencesAsOf(p) ==
  IF dailyBasisBooking
    THEN [p EXCEPT !.workdayStart = 0, !.workdayEnd = HoursPerDay - 1]
    ELSE p

BookingLoaded(l) ==
  /\ UNCHANGED opened
  /\ bookingLoads[l] = "pending" /\ bookingLoads' = [bookingLoads EXCEPT ![l] = "done"]
  /\ pref' = IF l = "preferences" THEN PreferencesAsOf(EditorPreferences) ELSE pref
  /\ loading' = \E other \in Awaited : bookingLoads'[other] # "done"
  /\ CASE l = "data" -> BookingOpened
       [] l # "data" /\ isNewBooking /\ loading /\ ~loading' ->
            LET d == InitialDates(pref', dailyBasisBooking')
            IN  /\ enter' = d.enter /\ leave' = d.leave
                /\ UNCHANGED <<selectedLocationId, selectedSpaceId, isDisabledSpace, canEdit,
                               hasId, isNewBooking, asks, spacesAsked, rounded>>
       [] OTHER -> UNCHANGED <<form, isDisabledSpace, canEdit, hasId, isNewBooking, asks,
                               spacesAsked, rounded>>
  /\ UNCHANGED <<visit, submitting, saved, error, goBack, uncaught, spaces, reordered, bookingSaves,
                 made, sentBooking, resent, pickers, early>>

\* Promise.all rejects: the page loads for ever, unless only the user's own
\* address was not answered.
BookingNotLoaded(l) ==
  /\ Failure /\ Unheard
  /\ bookingLoads[l] = "pending" /\ bookingLoads' = [bookingLoads EXCEPT ![l] = "failed"]
  /\ UNCHANGED <<opened, pref, form, offered, stored, canEdit, pickers, early>>

----------------------------------------------------------------------------
(* setEnterDate and setLeaveDate: either cancels what the other was about  *)
(* to do, as both use the timer of the second.                             *)

PickDate(field, date) ==
  /\ Shown /\ canEdit /\ Input("date")
  /\ leaveChangeTimer' = [sets |-> field, date |-> date]
  /\ UNCHANGED <<display, startup, form, offered, stored, canEdit,
                 canSearchHint, early>>

\* updateCanSearch: this morning is taken in UTC, days in advance from this
\* very minute; the user's bookings are never counted.
EditorCanSearch(from, to) ==
  /\ Settings.maxBookingsPerUser > 0
  /\ (IF dailyBasisBooking THEN LastMinute(from) ELSE from)
       >= SetHours(EditorNow + BrowserOffset, 0)
  /\ to > from /\ to >= EditorNow
  /\ \/ Settings.noAdminRestrictions
     \/ /\ AdvanceDays(from, EditorNow) <= Settings.maxDaysInAdvance
        /\ to - from <= Settings.maxBookingDurationHours * MinutesPerHour
        /\ to - from >= Settings.minBookingDurationHours * MinutesPerHour

\* A new enter moves leave to an hour later.
PickPerformed ==
  LET picked == leaveChangeTimer
  IN  /\ picked # NoTimer /\ leaveChangeTimer' = NoTimer
      /\ enter' = IF picked.sets = "leave" THEN enter
                  ELSE IF dailyBasisBooking THEN SetHours(picked.date, 0) ELSE picked.date
      /\ LET to == IF picked.sets = "leave" THEN picked.date ELSE picked.date + MinutesPerHour
         IN  leave' = IF dailyBasisBooking THEN LastMinute(to) ELSE to
      /\ isDisabledSpace' = TRUE /\ canSearchHint' = ~EditorCanSearch(enter', leave')
      /\ IF selectedLocationId # NoArea THEN AskSpaces(selectedLocationId, enter', leave')
                                        ELSE UNCHANGED <<asks, spacesAsked, rounded>>
      /\ UNCHANGED <<shell, startup, selectedLocationId, selectedSpaceId, stored, canEdit, spaces,
                     reordered, early>>

----------------------------------------------------------------------------
(* The two drop-downs.                                                     *)

SpaceIn(a) == NoSpace

\* The old list stays until the new one has come, and can be chosen from.
ChooseLocation(a) ==
  /\ Shown /\ canEdit /\ Input("area") /\ a # selectedLocationId
  /\ selectedLocationId' = a /\ selectedSpaceId' = SpaceIn(a)
  /\ isDisabledSpace' = FALSE /\ early' = FALSE
  /\ AskSpaces(a, enter, leave)
  /\ UNCHANGED <<display, startup, enter, leave, spaces,
                 reordered, stored, canEdit, pickers>>

ChooseSpace(s) ==
  /\ Shown /\ canEdit /\ ~isDisabledSpace /\ Input("space") /\ s \in spaces.free
  /\ selectedSpaceId' = s /\ early' = (spacesAsked # {})
  /\ UNCHANGED <<display, startup, enter, leave,
                 selectedLocationId, offered, stored, canEdit, pickers>>

----------------------------------------------------------------------------
(* onSubmit.                                                               *)

\* A drop-down that is disabled is not looked at by the browser's validation,
\* and nothing keeps Save from being pressed while a save is pending.  A booking
\* made by the hour is saved for whole days, once the organisation books by days.
SaveBooking ==
  /\ Shown /\ canEdit /\ Input("save")
  /\ selectedLocationId # NoArea /\ (isDisabledSpace \/ ShownSpace # NoSpace)
  /\ saved' = FALSE /\ error' = FALSE
  /\ enter' = IF dailyBasisBooking THEN SetHours(enter, 0) ELSE enter
  /\ leave' = IF dailyBasisBooking THEN LastMinute(leave) ELSE leave
  /\ rounded' = (rounded \/ <<enter', leave'>> # <<enter, leave>>)
  /\ bookingSaves' =
       bookingSaves \cup {[n |-> visit.count, verb |-> IF hasId THEN "PUT" ELSE "POST"]}
  /\ resent' = (resent \/ \E save \in bookingSaves : save.verb = "POST")
  /\ sentBooking' = [space |-> selectedSpaceId, shown |-> ShownSpace,
                     excused |-> early \/ reordered \/ uncaught]
  /\ UNCHANGED <<waits, goBack, uncaught, startup, selectedLocationId, selectedSpaceId, spaces,
                 isDisabledSpace, spacesAsked, asks, reordered, hasId, isNewBooking, made, canEdit,
                 pickers, early>>

\* saveEntity keeps the id it is told.
IdTold == TRUE

\* After a POST the page goes on to the new booking's own address: the same
\* component, with the state it has.
BookingSaved(save) ==
  /\ save \in bookingSaves /\ bookingSaves' = bookingSaves \ {save}
  /\ made' = IF save.verb = "POST" THEN made + 1 ELSE made
  /\ hasId' = IdTold /\ isNewBooking' = FALSE
  /\ saved' = TRUE /\ isDisabledSpace' = IF save.verb = "POST" THEN FALSE ELSE isDisabledSpace
  /\ UNCHANGED <<visit, waits, error, goBack, uncaught, startup, form, spaces, spacesAsked,
                 asks, reordered, rounded, sentBooking, resent, canEdit, pickers, early>>

\* The server refuses it, or its answer is lost on the way.
BookingNotSaved(save) ==
  /\ save \in bookingSaves /\ bookingSaves' = bookingSaves \ {save}
  /\ Failure
  /\ made' \in {made, IF save.verb = "POST" THEN made + 1 ELSE made}
  /\ resent' = (resent \/ made' # made)
  /\ error' = TRUE /\ saved' = FALSE
  /\ UNCHANGED <<waits, goBack, uncaught, startup, form, offered, hasId, isNewBooking,
                 sentBooking, canEdit, pickers, early>>

\* deleteItem, with its answer; a failure is not told.
DeleteBooking ==
  /\ Shown /\ canEdit /\ hasId /\ Input("delete")
  /\ goBack' \in BOOLEAN
  /\ IF goBack' THEN UNCHANGED uncaught ELSE visit.failures > 0 /\ uncaught' = TRUE
  /\ UNCHANGED <<waits, saved, error, startup, form, offered, stored, canEdit,
                 pickers, early>>

----------------------------------------------------------------------------
BookingAnswers ==
  \/ \E l \in BookingLoads : BookingLoaded(l)
  \/ \E r \in spacesAsked : SpacesListed(r)
  \/ \E save \in bookingSaves : BookingSaved(save)

BookingFailures ==
  \/ \E l \in BookingLoads : BookingNotLoaded(l)
  \/ \E r \in spacesAsked : SpacesNotListed(r)
  \/ \E save \in bookingSaves : BookingNotSaved(save)

BookingInputs ==
  \/ \E date \in EditorPicks : PickDate("enter", date) \/ PickDate("leave", date)
  \/ \E a \in EditorAreas : ChooseLocation(a)
  \/ \E s \in EditorSpaces : ChooseSpace(s)
  \/ SaveBooking \/ DeleteBooking

BookingNext == BookingAnswers \/ BookingFailures \/ PickPerformed \/ BookingInputs

----------------------------------------------------------------------------
BookingTypeOK ==
  /\ opened \in Openings
  /\ bookingLoads \in [BookingLoads -> {"pending", "done", "failed"}]
  /\ pref \in PreferenceRecords
  /\ {enter, leave} \subseteq Int
  /\ selectedLocationId \in EditorAreas \cup {NoArea}
  /\ selectedSpaceId \in EditorSpaces \cup {NoSpace}
  /\ spaces \in [n : Nat, area : EditorAreas \cup {NoArea}, enter : Int, leave : Int,
                 free : SUBSET EditorSpaces]
  /\ spacesAsked \subseteq [n : Nat, area : EditorAreas, enter : Int, leave : Int]
  /\ asks \in Nat /\ made \in Nat
  /\ {isDisabledSpace, canEdit, canSearchHint, hasId, isNewBooking, reordered, early, rounded,
      resent} \subseteq BOOLEAN
  /\ leaveChangeTimer \in [sets : {"none", "enter", "leave"}, date : Int \cup {NoTime}]
  /\ bookingSaves \subseteq [n : Nat, verb : {"POST", "PUT"}]
  /\ sentBooking \in [space : EditorSpaces \cup {NoSpace},
                      shown : EditorSpaces \cup {NoSpace}, excused : BOOLEAN]

\* A form at rest offers the spaces of the area and of the times it shows (its
\* requests are answered in order and none fails), unless Save has rounded them
\* to whole days since.  The first list of an existing booking is the exception:
\* it is for times shifted by the browser's offset.
SpacesAreForTheForm ==
  (/\ Shown /\ spacesAsked = {} /\ leaveChangeTimer = NoTimer
   /\ selectedLocationId # NoArea /\ ~reordered /\ ~rounded /\ ~uncaught)
    => LET asked(t) == IF spaces.n = 1 /\ ~opened.new THEN t + BrowserOffset ELSE t
       IN  /\ spaces.area = selectedLocationId
           /\ spaces.enter = asked(enter) /\ spaces.leave = asked(leave)

\* When a booking is sent the drop-down shows no other space than the one it is
\* for (none while the first list is on its way), unless the user chose it from
\* the list of another area, before the new one came, or lists came out of
\* order or not at all: then the form shows one space and books another.
SentAsShown == sentBooking.excused \/ sentBooking.shown \in {sentBooking.space, NoSpace}

\* The page creates one booking, however often it is saved, unless Save is
\* pressed before the first POST is answered or its answer is lost.
CreatedOnce == made > 1 => resent

----------------------------------------------------------------------------
BookingSpec == VisitInit /\ ShellInit /\ BookingInit /\ [][BookingNext]_bookingVars
=============================================================================
