----------------------------- MODULE SearchPage -----------------------------
(***************************************************************************)
(* The booking page of the web client (booking-ui/src/pages/search.tsx):   *)
(* one mounted component, from componentDidMount until the user goes to    *)
(* another page.                                                           *)
(*                                                                         *)
(* JavaScript runs one callback at a time.  An action is a callback of the *)
(* user, of a timer or of an answered request, with the setState calls and *)
(* the callbacks React runs before anything else can happen.  Between two  *)
(* actions the answers of pending requests arrive in any order, and any of *)
(* them may fail.                                                          *)
(*                                                                         *)
(* What the page shows is kept with where it comes from: a list of spaces  *)
(* is the area and the times it was requested for and the spaces that were *)
(* available; a map and attribute values are the area they belong to.      *)
(***************************************************************************)
EXTENDS SearchRules

CONSTANTS
  Areas, Spaces,
  AreaOf,        \* the area of each space
  Slots,         \* bounds the chains of requests that are pending together
  Now,           \* the clock; the page's timers are short
  Preferences,   \* what UserPreference.list returns
  PreferredArea, \* preference location_id, or NoArea
  LinkedArea,    \* the query parameter lid, or NoArea
  LinkedSpace,   \* the query parameter sid, or NoSpace
  Picks,         \* the dates the user may pick
  Visits,        \* bounds what the user does and what fails during a visit
  NoSpace, NoTime

\* The kinds of inputs.
Inputs == {"area", "date", "slider", "weekly", "dialog", "filter", "hide", "space", "confirm",
           "buddy", "refresh"}

ASSUME PageAssumption ==
  /\ NoArea \notin Areas /\ NoSpace \notin Spaces /\ NoTime \notin Int
  /\ AreaOf \in [Spaces -> Areas]
  /\ Now \in Int /\ Picks \subseteq Int
  /\ Visits \subseteq [inputs : SUBSET Inputs, count : Nat, failures : Nat]
  /\ Preferences \in PreferenceRecords
  /\ PreferredArea \in Areas \cup {NoArea} /\ LinkedArea \in Areas \cup {NoArea}
  /\ LinkedSpace \in Spaces \cup {NoSpace}

VARIABLES
  boot,          \* loadItems: its requests, by what became of them
  locations,     \* this.locations: the areas listed; enabled ones of them
  enabled,
  locationId, enter, leave, until, earliestEnterDate,
  weeklyReservation, daySliderDisabled, canSearch, curBookingCount, loading,
  data,          \* this.data, and what it was requested for
  mapData,       \* the area of this.mapData
  attributeValues, \* the area of the attribute values
  searchAttributes, \* TRUE iff the filter has criteria
  modals, front, \* the dialogs shown, and the one shown last: it covers the others
  selectedSpace, \* the space selected, with the list it was selected from
  confirmingBooking,
  timer,         \* the date each timer will set
  chain,         \* the chains of requests pending
  counting,      \* pending requests of initCurrentBookingCount
  saving,        \* pending requests of onConfirmBooking
  sent,          \* the bookings requested so far, and what the dialog said
  visit,         \* the inputs and failures left of the visit
  \* History variables: why what is shown may not be what was asked for last.
  failed,        \* a request the page does not catch has failed
  overlapped,    \* a chain started while another was pending
  skipped,       \* dates have changed without a list for them: no search possible
  moved          \* the space selected was listed for other dates, or a timer has
                 \* changed the dates while the confirmation was shown

dates == <<enter, leave, until, earliestEnterDate>>
listed == <<locations, enabled>>
toggles == <<weeklyReservation, searchAttributes>>
search == <<canSearch, curBookingCount, counting>>
offer == <<data, mapData, attributeValues>>
dialog == <<modals, front, selectedSpace, confirmingBooking, saving, sent>>
excuses == <<failed, overlapped, skipped, moved>>
vars == <<boot, listed, locationId, dates, toggles, daySliderDisabled, search, loading,
          offer, dialog, timer, chain, visit, excuses>>

Lists == {"locations", "preferences", "others"}
Dialogs == {"confirm", "names", "success", "error", "search", "details"}
DateFields == {"enter", "leave", "until"}

\* A chain of requests: which function started it, the request that is
\* pending, the area it is about, for the list of spaces the times asked for,
\* and the area of the attribute values it will show.
Idle == [of |-> "none"]
Steps == {"search", "attributes", "location", "spaces", "map", "buddy", "buddies"}
Functions == {"loadItems", "changeLocation", "applySearch", "refreshPage", "dates", "onAddBuddy"}
Chain(f, step, area, attributes) ==
  [of |-> f, at |-> step, area |-> area, enter |-> enter, leave |-> leave,
   attributes |-> attributes]

NoList == [area |-> NoArea, enter |-> 0, leave |-> 0, free |-> {}]
NoItem == [space |-> NoSpace, from |-> NoList]
NoBooking == [item |-> NoItem, area |-> NoArea, enter |-> 0, leave |-> 0,
              dateUntil |-> NoTime, excused |-> TRUE]
In(list) == {s \in Spaces : AreaOf[s] = list.area}

Free == {s \in Slots : chain[s] = Idle}
Pending == Slots \ Free
Booted == \A l \in Lists : boot[l] = "done"
Quiet == Pending = {} /\ Booted /\ \A f \in DateFields : timer[f] = NoTime

\* A chain starts: it overlaps with every other one, and with loadItems.
Launch(c) ==
  /\ Free # {} /\ chain' = [chain EXCEPT ![CHOOSE s \in Free : TRUE] = c]
Start(c) == Launch(c) /\ overlapped' = (overlapped \/ Pending # {} \/ ~Booted)
Continue(s, step) == chain' = [chain EXCEPT ![s].at = step]
EndOf(s) == chain' = [chain EXCEPT ![s] = Idle]

Show(d) ==
  modals' = modals \cup {d} /\ front' = IF d \in modals THEN front ELSE d
Hide(d) == modals' = modals \ {d} /\ UNCHANGED front
Usable(d) == d \in modals /\ (front \in modals => d = front)

Input(kind) ==
  /\ kind \in visit.inputs /\ visit.count > 0
  /\ visit' = [visit EXCEPT !.count = @ - 1]
Failure == visit.failures > 0 /\ visit' = [visit EXCEPT !.failures = @ - 1]

----------------------------------------------------------------------------
Init ==
  /\ boot = [l \in Lists |-> "pending"]
  /\ locations = {} /\ enabled = {} /\ locationId = NoArea
  /\ enter = Now /\ leave = Now /\ until = Now /\ earliestEnterDate = Now
  /\ weeklyReservation = TRUE /\ daySliderDisabled = FALSE
  /\ canSearch = FALSE /\ curBookingCount = 0 /\ counting = 0
  /\ loading = TRUE
  /\ data = NoList /\ mapData = NoArea /\ attributeValues = NoArea
  /\ searchAttributes = FALSE
  /\ modals = {} /\ front = "none" /\ selectedSpace = NoItem /\ confirmingBooking = FALSE
  /\ timer = [f \in DateFields |-> NoTime]
  /\ chain = [s \in Slots |-> Idle]
  /\ saving = 0 /\ sent = NoBooking
  /\ visit \in Visits
  /\ failed = FALSE /\ overlapped = FALSE /\ skipped = FALSE /\ moved = FALSE

----------------------------------------------------------------------------
(* loadItems.                                                              *)

\* The preferences the page has so far: none before they are loaded.
pref ==
  IF boot["preferences"] = "done" THEN Workday(Preferences)
  ELSE [enterTime |-> 0, workdayStart |-> 0, workdayEnd |-> 0, workdays |-> {}]

\* All four lists are here: the dates, and the first area unless the user has
\* chosen one.  Without an area the user may choose, getLocation() is
\* undefined and nothing ends the loading.
Started ==
  /\ LET d == initDates(Workday(Preferences), Now)
     IN  enter' = d.enter /\ leave' = d.leave /\ earliestEnterDate' = d.enter
  /\ IF locationId = NoArea /\ locations' # {}
       THEN /\ locationId' \in PreferredLocations(LinkedArea, PreferredArea, enabled')
            /\ IF locationId' = NoArea THEN UNCHANGED <<chain, overlapped>>
               ELSE /\ Launch(Chain("loadItems", "attributes", locationId', locationId'))
                    /\ overlapped' = (overlapped \/ Pending # {})
            /\ UNCHANGED loading
       ELSE loading' = FALSE /\ UNCHANGED <<locationId, chain, overlapped>>

ListAnswered(l) ==
  /\ boot[l] = "pending"
  /\ boot' = [boot EXCEPT ![l] = "done"]
  /\ IF l = "locations" THEN locations' = Areas /\ enabled' \in SUBSET Areas
                        ELSE UNCHANGED listed
  /\ IF \A other \in Lists \ {l} : boot[other] = "done" THEN Started
     ELSE UNCHANGED <<locationId, enter, leave, earliestEnterDate, loading, chain, overlapped>>
  /\ UNCHANGED <<until, toggles, daySliderDisabled, search, offer, dialog, timer, visit, failed,
                 skipped, moved>>

\* Promise.all rejects, and nobody catches it.
ListFailed(l) ==
  /\ Failure /\ boot[l] = "pending"
  /\ boot' = [boot EXCEPT ![l] = "failed"] /\ failed' = TRUE
  /\ UNCHANGED <<listed, locationId, dates, toggles, daySliderDisabled, search, loading, offer,
                 dialog, timer, chain, overlapped, skipped, moved>>

----------------------------------------------------------------------------
(* The answers of a chain.                                                 *)

chainless == <<boot, locationId, dates, toggles, daySliderDisabled, search, timer,
               overlapped>>

\* onSpaceSelect: an available space is confirmed, of another one the page
\* shows who booked it.
Selected(s) ==
  /\ selectedSpace' = [space |-> s, from |-> data]
  /\ Show(IF s \in data.free THEN "confirm" ELSE "names")
  /\ moved' = skipped

\* The attributes of an area: loadMap follows, of the area chosen by then
\* (loadItems) or of the same one.  applySearch drops them.
AttributesAnswered(s) ==
  /\ chain[s].of # "none" /\ chain[s].at = "attributes"
  /\ IF chain[s].of = "applySearch"
       THEN EndOf(s) /\ loading' = FALSE
       ELSE /\ chain' = [chain EXCEPT ![s].at = "location",
                      ![s].area = IF chain[s].of = "loadItems" THEN locationId ELSE @]
            /\ loading' = TRUE
  /\ UNCHANGED <<chainless, visit, failed, listed, offer, dialog, skipped, moved>>

\* loadSpaces asks for the times the page has now.
LocationAnswered(s) ==
  /\ chain[s].of # "none" /\ chain[s].at = "location" /\ chain[s].area # NoArea
  /\ chain' = [chain EXCEPT ![s].at = "spaces", ![s].enter = enter, ![s].leave = leave]
  /\ loading' = TRUE /\ skipped' = FALSE
  /\ UNCHANGED <<chainless, visit, failed, listed, offer, dialog, moved>>

SpacesAnsweredOnly(s) == \* mutant
  /\ chain[s].of # "none" /\ chain[s].at = "spaces"
  /\ \E free \in SUBSET In(chain[s]) :
       data' = [area |-> chain[s].area, enter |-> chain[s].enter, leave |-> chain[s].leave,
                free |-> free]
  /\ IF chain[s].of = "dates" THEN EndOf(s) ELSE Continue(s, "map")
  /\ UNCHANGED <<chainless, visit, failed, listed, mapData, attributeValues, dialog, skipped,
                 moved, loading>>

SpacesAnswered(s) ==
  /\ chain[s].of # "none" /\ chain[s].at = "spaces"
  /\ \E free \in SUBSET In(chain[s]) :
       data' = [area |-> chain[s].area, enter |-> chain[s].enter, leave |-> chain[s].leave,
                free |-> free]
  /\ IF chain[s].of = "dates" THEN EndOf(s) /\ loading' = FALSE
                              ELSE Continue(s, "map") /\ UNCHANGED loading
  /\ UNCHANGED <<chainless, visit, failed, listed, mapData, attributeValues, dialog, skipped,
                 moved>>

MapAnswered(s) ==
  /\ chain[s].of # "none" /\ chain[s].at = "map"
  /\ mapData' = chain[s].area
  /\ CASE chain[s].of = "applySearch" ->
            /\ IF locationId \in locations THEN Continue(s, "attributes") ELSE EndOf(s)
            /\ UNCHANGED <<loading, attributeValues>>
       [] chain[s].of = "refreshPage" ->
            EndOf(s) /\ loading' = FALSE /\ UNCHANGED attributeValues
       [] OTHER ->
            EndOf(s) /\ loading' = FALSE /\ attributeValues' = chain[s].attributes
  /\ IF chain[s].of = "loadItems" /\ LinkedSpace \in In(data)
       THEN Selected(LinkedSpace)
       ELSE UNCHANGED <<modals, front, selectedSpace, moved>>
  /\ UNCHANGED <<chainless, visit, failed, listed, data, confirmingBooking, saving, sent, skipped>>

\* applySearch: the areas found replace the list; the area chosen stays if it
\* is among them.
SearchAnswered(s) ==
  /\ chain[s].of # "none" /\ chain[s].at = "search"
  /\ locations' \in SUBSET Areas /\ enabled' \in SUBSET locations'
  /\ locationId' \in PreferredLocations(locationId, PreferredArea, enabled')
  /\ IF locationId' = NoArea
       THEN EndOf(s) /\ loading' = FALSE
       ELSE /\ chain' = [chain EXCEPT ![s].at = "location", ![s].area = locationId']
            /\ loading' = TRUE
  /\ UNCHANGED <<boot, dates, toggles, daySliderDisabled, search, offer, dialog, timer, visit,
                 excuses>>

BuddySaved(s) ==
  /\ chain[s].of # "none" /\ chain[s].at = "buddy" /\ Continue(s, "buddies")
  /\ UNCHANGED <<chainless, visit, failed, listed, loading, offer, dialog, skipped, moved>>

BuddiesReloaded(s) ==
  /\ chain[s].of # "none" /\ chain[s].at = "buddies" /\ EndOf(s) /\ loading' = FALSE
  /\ UNCHANGED <<chainless, visit, failed, listed, offer, dialog, skipped, moved>>

\* Only the saving of a buddy is caught; any other failure ends its chain and
\* leaves the page loading.
BuddyNotSaved(s) ==
  /\ Failure /\ chain[s].of # "none" /\ chain[s].at = "buddy" /\ EndOf(s) /\ loading' = FALSE
  /\ Show("error")
  /\ UNCHANGED <<chainless, failed, listed, offer, selectedSpace, confirmingBooking, saving,
                 sent, skipped, moved>>

ChainFailed(s) ==
  /\ chain[s].of # "none" /\ chain[s].at # "buddy" /\ EndOf(s) /\ failed' = TRUE
  /\ IF chain[s].at = "location" /\ chain[s].area = NoArea THEN UNCHANGED visit ELSE Failure
  /\ UNCHANGED <<chainless, listed, loading, offer, dialog, skipped, moved>>

Answered(s) ==
  \/ AttributesAnswered(s) \/ LocationAnswered(s) \/ SpacesAnswered(s) \/ MapAnswered(s)
  \/ SearchAnswered(s) \/ BuddySaved(s) \/ BuddiesReloaded(s)
  \/ BuddyNotSaved(s) \/ ChainFailed(s)

----------------------------------------------------------------------------
(* The count of the user's bookings.                                       *)

CountAnswered ==
  /\ counting > 0 /\ counting' = counting - 1
  /\ curBookingCount' \in 0 .. Settings.maxBookingsPerUser
  /\ canSearch' = updateCanSearch(curBookingCount', locationId, enter, leave, Now)
  /\ UNCHANGED <<boot, listed, locationId, dates, toggles, daySliderDisabled, loading, offer,
                 dialog, timer, chain, visit, excuses>>

CountFailed ==
  /\ Failure /\ counting > 0 /\ counting' = counting - 1
  /\ UNCHANGED <<boot, listed, locationId, dates, toggles, daySliderDisabled, canSearch,
                 curBookingCount, loading, offer, dialog, timer, chain, excuses>>

----------------------------------------------------------------------------
(* The timers of the date pickers, a second after the last pick.           *)

Pick(fields) == timer' = [f \in DateFields |-> IF f \in DOMAIN fields THEN fields[f] ELSE timer[f]]
Fired(f) == timer[f] # NoTime /\ timer' = [timer EXCEPT ![f] = NoTime]

\* dateChangedCb: without a possible search the list stays as it is.
DatesChanged ==
  /\ canSearch' = updateCanSearch(curBookingCount, locationId, enter', leave', Now)
  /\ moved' = (moved \/ "confirm" \in modals)
  /\ IF canSearch'
       THEN /\ Start([Chain("dates", "spaces", locationId, NoArea)
                       EXCEPT !.enter = enter', !.leave = leave'])
            /\ counting' = counting + 1 /\ loading' = TRUE /\ skipped' = FALSE
       ELSE /\ loading' = FALSE /\ skipped' = TRUE
            /\ UNCHANGED <<chain, counting, overlapped>>
  /\ UNCHANGED <<boot, listed, locationId, until, earliestEnterDate, toggles, curBookingCount,
                 offer, dialog, visit, failed>>

\* A new enter keeps the length of the stay.
EnterChanged ==
  /\ Fired("enter")
  /\ enter' = IF Settings.dailyBasisBooking THEN SetHours(timer["enter"], 0) ELSE timer["enter"]
  /\ leave' = enter' + (leave - enter)
  /\ daySliderDisabled' = SliderDisabled(enter', earliestEnterDate)
  /\ DatesChanged

LeaveMoved == \* mutant
  /\ Fired("leave") /\ leave' = timer["leave"]
  /\ canSearch' = updateCanSearch(curBookingCount, locationId, enter, leave', Now)
  /\ UNCHANGED <<boot, listed, locationId, enter, until, earliestEnterDate, toggles, loading,
                 daySliderDisabled, curBookingCount, counting, offer, dialog, chain, visit,
                 excuses>>

LeaveChanged ==
  /\ Fired("leave")
  /\ leave' = IF Settings.dailyBasisBooking THEN LastMinute(timer["leave"]) ELSE timer["leave"]
  /\ UNCHANGED <<enter, daySliderDisabled>> /\ DatesChanged

UntilChanged ==
  /\ Fired("until") /\ until' = timer["until"]
  /\ UNCHANGED <<boot, listed, locationId, enter, leave, earliestEnterDate, toggles,
                 daySliderDisabled, search, loading, offer, dialog, chain, visit, excuses>>

----------------------------------------------------------------------------
(* What the user does.  The form lies above the loading overlay and below  *)
(* the dialogs; the spaces lie below both.                                 *)

FormUsable == modals = {}
SpacesUsable == FormUsable /\ ~loading /\ locations # {} /\ locationId # NoArea

inputless == <<boot, listed, search, failed, skipped>>

changeLocation(id) ==
  /\ Input("area") /\ FormUsable /\ id \in enabled \ {locationId}
  /\ locationId' = id /\ loading' = TRUE
  /\ Start(Chain("changeLocation", "attributes", id, id))
  /\ UNCHANGED <<inputless, dates, toggles, daySliderDisabled, offer, dialog, timer, moved>>

PickDate(f, t) ==
  /\ Input("date") /\ FormUsable
  /\ IF f = "until" THEN ~weeklyReservation ELSE locationId # NoArea
  /\ Pick([g \in {f} |-> t])
  /\ UNCHANGED <<inputless, locationId, dates, toggles, daySliderDisabled, loading, offer, dialog,
                 chain, overlapped, moved>>

\* The slider sets both dates, each with its own timer.
changeEnterDay(value) ==
  /\ Input("slider") /\ FormUsable /\ locationId # NoArea /\ ~daySliderDisabled
  /\ Pick(SliderDates(pref, earliestEnterDate, value))
  /\ UNCHANGED <<inputless, locationId, dates, toggles, daySliderDisabled, loading, offer, dialog,
                 chain, overlapped, moved>>

toggleWeeklyReservation ==
  /\ Input("weekly") /\ FormUsable /\ weeklyReservation' = ~weeklyReservation
  /\ UNCHANGED <<inputless, locationId, dates, searchAttributes, daySliderDisabled, loading, offer,
                 dialog, timer, chain, overlapped, moved>>

quiet == <<inputless, locationId, dates, weeklyReservation, daySliderDisabled, offer, timer>>

OpenDialog(d) ==
  /\ Input("dialog") /\ FormUsable
  /\ d = "details" => locationId # NoArea /\ attributeValues # NoArea
  /\ Show(d)
  /\ UNCHANGED <<quiet, searchAttributes, loading, selectedSpace, confirmingBooking, saving, sent,
                 chain, overlapped, moved>>

\* onHide: the confirmation can be hidden while its booking is being saved.
HideDialog(d) ==
  /\ Input("hide") /\ Usable(d) /\ Hide(d)
  /\ UNCHANGED <<quiet, searchAttributes, loading, selectedSpace, confirmingBooking, saving, sent,
                 chain, overlapped, moved>>

\* setSearchAttributeComparator, setSearchAttributeValue
EditFilter ==
  /\ Input("filter") /\ Usable("search") /\ searchAttributes' = ~searchAttributes
  /\ UNCHANGED <<quiet, loading, dialog, chain, overlapped, moved>>

\* resetSearch drops the criteria before it applies them.
applySearch(reset) ==
  /\ Input("filter") /\ Usable("search") /\ Hide("search")
  /\ searchAttributes' = (searchAttributes /\ ~reset)
  /\ loading' = TRUE
  /\ Start(Chain("applySearch", "search", NoArea, NoArea))
  /\ UNCHANGED <<quiet, selectedSpace, confirmingBooking, saving, sent, moved>>

onSpaceSelect(s) ==
  /\ Input("space") /\ SpacesUsable /\ s \in In(data) /\ Selected(s)
  /\ UNCHANGED <<quiet, searchAttributes, loading, confirmingBooking, saving, sent, chain,
                 overlapped>>

ConfirmAgain == \* mutant
  /\ Input("confirm") /\ Usable("confirm") /\ selectedSpace # NoItem
  /\ confirmingBooking' = TRUE /\ saving' = saving + 1
  /\ UNCHANGED <<inputless, locationId, dates, toggles, daySliderDisabled, loading, offer, modals,
                 front, selectedSpace, timer, chain, overlapped, moved, sent>>

\* The booking is for the area and the times the dialog shows, which are the
\* page's; the space is the one selected.
onConfirmBooking ==
  /\ Input("confirm") /\ Usable("confirm") /\ ~confirmingBooking /\ selectedSpace # NoItem
  /\ confirmingBooking' = TRUE /\ saving' = saving + 1
  /\ until' = LastMinute(until)
  /\ sent' = [item |-> selectedSpace, area |-> locationId, enter |-> enter, leave |-> leave,
              dateUntil |-> IF weeklyReservation THEN NoTime ELSE until',
              excused |-> overlapped \/ failed \/ moved]
  /\ UNCHANGED <<inputless, locationId, enter, leave, earliestEnterDate, toggles,
                 daySliderDisabled, loading, offer, modals, front, selectedSpace, timer, chain,
                 overlapped, moved>>

onAddBuddy ==
  /\ Input("buddy") /\ Usable("names") /\ selectedSpace # NoItem
  /\ Hide("names") /\ loading' = TRUE
  /\ Start(Chain("onAddBuddy", "buddy", NoArea, NoArea))
  /\ UNCHANGED <<quiet, searchAttributes, selectedSpace, confirmingBooking, saving, sent, moved>>

\* The answer of the booking closes whatever confirmation is shown by then.
BookingSaved(d) ==
  /\ saving > 0 /\ saving' = saving - 1 /\ confirmingBooking' = FALSE
  /\ modals' = (modals \ {"confirm"}) \cup {d}
  /\ front' = IF d \in modals THEN front ELSE d
  /\ UNCHANGED <<boot, listed, locationId, dates, toggles, daySliderDisabled, search, loading,
                 offer, selectedSpace, sent, timer, chain, visit, excuses>>

refreshPage ==
  /\ Input("refresh") /\ Usable("success") /\ Hide("success")
  /\ loading' = TRUE
  /\ Start(Chain("refreshPage", "location", locationId, NoArea))
  /\ UNCHANGED <<quiet, searchAttributes, selectedSpace, confirmingBooking, saving, sent, moved>>

Browser ==
  \/ \E l \in Lists : ListAnswered(l) \/ ListFailed(l)
  \/ \E s \in Slots : Answered(s)
  \/ EnterChanged \/ LeaveChanged \/ UntilChanged \/ CountAnswered \/ CountFailed
  \/ BookingSaved("success") \/ BookingSaved("error")

User ==
  \/ \E id \in Areas : changeLocation(id)
  \/ \E f \in DateFields, t \in Picks : PickDate(f, t)
  \/ \E value \in 0 .. Settings.maxDaysInAdvance : changeEnterDay(value)
  \/ toggleWeeklyReservation \/ EditFilter
  \/ \E d \in {"search", "details"} : OpenDialog(d)
  \/ \E d \in Dialogs \ {"success", "error"} : HideDialog(d)
  \/ \E reset \in BOOLEAN : applySearch(reset)
  \/ \E s \in Spaces : onSpaceSelect(s)
  \/ onConfirmBooking \/ onAddBuddy \/ refreshPage

Next == Browser \/ User

Spec == Init /\ [][Next]_vars

\* Requests are answered or fail, and timers fire; the user may do nothing.
Fairness ==
  /\ \A l \in Lists : WF_vars(ListAnswered(l) \/ ListFailed(l))
  /\ \A s \in Slots : WF_vars(Answered(s))
  /\ WF_vars(EnterChanged \/ LeaveChanged)

FairSpec == Spec /\ Fairness

----------------------------------------------------------------------------
(* Properties.                                                             *)

ItemType == [space : Spaces \cup {NoSpace},
             from : [area : Areas \cup {NoArea}, enter : Int, leave : Int, free : SUBSET Spaces]]
ChainType == [of : Functions, at : Steps, area : Areas \cup {NoArea}, enter : Int, leave : Int,
              attributes : Areas \cup {NoArea}]

TypeOK ==
  /\ boot \in [Lists -> {"pending", "done", "failed"}]
  /\ locations \subseteq Areas /\ enabled \subseteq locations
  /\ {locationId, mapData, attributeValues} \subseteq Areas \cup {NoArea}
  /\ {enter, leave, until, earliestEnterDate} \subseteq Int
  /\ {weeklyReservation, daySliderDisabled, canSearch, loading, searchAttributes,
      confirmingBooking, failed, overlapped, skipped, moved} \subseteq BOOLEAN
  /\ {curBookingCount, counting, saving} \subseteq Nat
  /\ data \in [area : Areas \cup {NoArea}, enter : Int, leave : Int, free : SUBSET Spaces]
  /\ modals \subseteq Dialogs /\ front \in Dialogs \cup {"none"} /\ selectedSpace \in ItemType
  /\ timer \in [DateFields -> Int \cup {NoTime}]
  /\ chain \in [Slots -> ChainType \cup {Idle}]
  /\ sent \in [item : ItemType, area : Areas \cup {NoArea}, enter : Int, leave : Int,
               dateUntil : Int \cup {NoTime}, excused : BOOLEAN]

\* Once no request and no timer is pending, the spaces and the map on the page
\* are those of the area and the times its form shows, although an answer may
\* have arrived for other ones: unless two loads overlapped, a load failed, or
\* the dates were such that nothing was loaded for them.
SettledPageIsConsistent ==
  Quiet /\ locations # {} /\ locationId # NoArea /\ ~overlapped /\ ~skipped /\ ~failed
    => /\ mapData = locationId /\ data.area = locationId
       /\ data.enter = enter /\ data.leave = leave

\* What is booked is a space that was shown as available in the area and at
\* the times the confirmation dialog names: unless loads overlapped, one failed
\* (the user gets at the old list when the next request ends), the space was
\* selected while the dates allowed no search, or a date timer fired under the
\* open dialog.
BookedAsOffered ==
  sent.excused \/
    /\ sent.item.space \in sent.item.from.free
    /\ AreaOf[sent.item.space] = sent.area
    /\ sent.item.from.enter = sent.enter /\ sent.item.from.leave = sent.leave

\* A booking is saved once: the confirmation may be hidden and opened again
\* while the first request is pending, but it does not send a second one.
SavedOnce == saving <= 1

\* What the user has confirmed is what is booked, and once.
BookedAsConfirmed == BookedAsOffered /\ SavedOnce

\* When the user stops, the overlay over the spaces goes away: unless a request
\* the page does not catch has failed, or there is no area to show.
LoadingEnds == <>[](~loading \/ failed \/ locationId = NoArea)
=============================================================================
