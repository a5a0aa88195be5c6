------------------------------- MODULE Booking -------------------------------
(***************************************************************************)
(* The booking service of one organisation: the handlers of booking-router *)
(* .go that write bookings (create, its weekly series, update, delete),    *)
(* the goroutines they leave behind to mirror a booking in its user's      *)
(* CalDAV calendar, and the tables both work on.                           *)
(*                                                                         *)
(* Every request runs in a goroutine of its own and every SQL statement is *)
(* a transaction of its own: an action here is one statement together with *)
(* the code up to the next one, and actions of different handlers and      *)
(* goroutines interleave freely.  Locals of a handler live in job[h], its  *)
(* program counter in pc[h].                                               *)
(*                                                                         *)
(* Spaces, locations, settings and calendar preferences do not change.     *)
(***************************************************************************)
EXTENDS Intervals, BookingRules

CONSTANTS
  Handlers,           \* requests served at the same time
  Goroutines,         \* CalDAV goroutines alive at the same time (a bound)
  Users,              \* addresses valid for the organisation
  InitialUsers,       \* those with an account when the service starts
  CalDavUsers,        \* those whose preferences hold a complete CalDAV account
  Spaces, Locations, LocationOf,
  MaxConcurrentBookings,  \* per location, 0 for no limit
  Windows,            \* the ranges [enter, leave] requests ask for
  Untils,             \* the last dates weekly series ask for
  MaxBookings,        \* bound: rows ever inserted; a further INSERT fails
  MaxEvents,          \* bound: calendar events ever created
  MaxNow,             \* bound on the clock
  MaxFaults,          \* bound on failing statements, calendar errors, crashes
  Nil                 \* no user, no space, no reservation

ASSUME BookingAssumption ==
  /\ IsFiniteSet(Handlers) /\ Handlers # {}
  /\ InitialUsers \subseteq Users /\ SpaceAdmins \subseteq InitialUsers
  /\ CalDavUsers \subseteq Users
  /\ LocationOf \in [Spaces -> Locations]
  /\ MaxConcurrentBookings \in [Locations -> Nat]
  /\ Windows \subseteq Ranges(Nat) /\ Untils \subseteq Nat
  /\ MaxBookings \in Nat /\ MaxEvents \in Nat /\ MaxNow \in Nat /\ MaxFaults \in Nat
  /\ Nil \notin Users /\ Nil \notin Spaces
  /\ Nil \notin [user : Users, space : Spaces, enter : Nat, leave : Nat]

VARIABLES
  bookings,   \* table bookings: id -> row, Blank where there is none
  nextId,     \* the id the next INSERT returns (a uuid: never used again)
  users,      \* table users: the addresses that have an account
  pc, job,    \* the handlers
  answer,     \* what each client was told last
  task,       \* the CalDAV goroutines
  calendar,   \* the events on the CalDAV server
  nextEvent,  \* the uuid the next new event gets
  now,        \* the clock
  faults,     \* failures so far
  overtaken,  \* history: handlers whose conflict check predates a later write
  late        \* history: rows written by an overtaken handler, or moved by a
              \* write-back that checks nothing

tables == <<bookings, nextId, users>>
handlers == <<pc, job, answer>>
caldav == <<task, calendar, nextEvent>>
world == <<now, faults>>
history == <<overtaken, late>>
vars == <<tables, handlers, caldav, world, history>>

Ids == 1 .. MaxBookings
NoId == 0      \* the empty string, as a booking id and as a CalDAV id

Row == [id : Ids \cup {NoId}, user : Users, space : Spaces,
        enter : Nat, leave : Nat, calDav : 0 .. MaxEvents]
Blank == [id |-> NoId, user |-> Nil, space |-> Nil,
          enter |-> 0, leave |-> 0, calDav |-> NoId]
Live == {i \in Ids : bookings[i] # Blank}

\* op is the request; first the row it asks for (of a series, the first one);
\* made the rows a series has inserted so far.
Ops == {"create", "series", "update", "delete"}
Job == [op : Ops, by : Users, first : Row, until : Untils \cup {0}, made : Nat]
NoJob == [op |-> "none", by |-> Nil, first |-> Blank, until |-> 0, made |-> 0]

Steps == {"idle", "bookForUser", "countUsers", "createUser", "checkRequest",
          "checkUpcoming", "checkLocation", "checkConflicts", "write", "deleteRow"}
Answers == {"none", "created", "updated", "refused", "error"}
Tasks == [kind : {"created", "updated", "deleted"}, stage : {"send", "save"}, row : Row]
NoTask == [kind |-> "none", stage |-> "send", row |-> Blank]
Event == [user : Users, id : 1 .. MaxEvents, enter : Nat, leave : Nat]

----------------------------------------------------------------------------
(* The row a handler is about to check and write: the requested one, or    *)
(* the next occurrence of its series.                                      *)

Booking(j) ==
  IF j.op = "series"
  THEN [j.first EXCEPT !.enter = SeriesEnter(j.first, j.made),
                       !.leave = SeriesLeave(j.first, j.made)]
  ELSE j.first

(* Mutants.                                                                *)

OtherUsersConflicts(b) ==
  {i \in Live : /\ bookings[i].space = b.space /\ bookings[i].user # b.user
                /\ InConflict(bookings[i], b.enter, b.leave)}
FirstRowConflicts(b) ==
  {i \in Live \ {b.id} : /\ i = 1 /\ bookings[i].space = b.space
                         /\ InConflict(bookings[i], b.enter, b.leave)}
OneMoreAtATime(user, b, failed) ==
  \/ Unrestricted(user)
  \/ Settings.maxConcurrentBookingsPerUser = 0
  \/ Cardinality({i \in Live \ {b.id} : /\ bookings[i].user = user
                                       /\ InUserRange(bookings[i], b.enter, b.leave)})
       <= Settings.maxConcurrentBookingsPerUser
CapacityOfSpace(b) ==
  LET loc == LocationOf[b.space]
  IN  \/ MaxConcurrentBookings[loc] = 0
      \/ ConcurrentBelow([i \in {k \in Live : bookings[k].space = b.space} |-> bookings[i]],
                         b.enter, b.leave, MaxConcurrentBookings[loc])
Upserted(row) == IF row.id = NoId THEN bookings ELSE [bookings EXCEPT ![row.id] = row]
SilentRefuse(h) == UNCHANGED <<pc, job, answer, faults, now>>
ReplacedCalendar(row, id) ==
  {e \in calendar : e.user # row.user}
    \cup {[user |-> row.user, id |-> id, enter |-> row.enter, leave |-> row.leave]}

----------------------------------------------------------------------------
(* The queries of booking-repository.go and the checks that count rows.    *)

\* GetConflicts: the rows of the space, other than the one being updated.
GetConflicts(b) ==
  {i \in Live \ {b.id} : /\ bookings[i].space = b.space
                         /\ InConflict(bookings[i], b.enter, b.leave)}

GetTimeRangeByUser(user, b) ==
  {i \in Live \ {b.id} : /\ bookings[i].user = user
                         /\ InUserRange(bookings[i], b.enter, b.leave)}

\* GetAllByUser(user, now): a wall-clock time against the server's clock.
GetAllByUser(user) ==
  {i \in Live : bookings[i].user = user /\ bookings[i].leave >= now}

InLocation(loc, except) ==
  {i \in Live \ {except} : LocationOf[bookings[i].space] = loc}

isValidMaxConcurrentBookingsForUser(user, b, failed) ==
  \/ Unrestricted(user)
  \/ Settings.maxConcurrentBookingsPerUser = 0
  \/ (IF failed THEN 0 ELSE Cardinality(GetTimeRangeByUser(user, b)))
       < Settings.maxConcurrentBookingsPerUser

isValidMaxUpcomingBookings(user, failed) ==
  \/ Unrestricted(user)
  \/ (IF failed THEN 0 ELSE Cardinality(GetAllByUser(user)))
       < Settings.maxBookingsPerUser

\* There is no way around this one for administrators.
isValidConcurrent(b) ==
  LET loc == LocationOf[b.space]
  IN  \/ MaxConcurrentBookings[loc] = 0
      \/ ConcurrentBelow([i \in InLocation(loc, b.id) |-> bookings[i]],
                         b.enter, b.leave, MaxConcurrentBookings[loc])

----------------------------------------------------------------------------
(* Handler steps.                                                          *)

Goto(h, step) == pc' = [pc EXCEPT ![h] = step]

\* The handler writes its response and returns.
Answer(h, a) ==
  /\ Goto(h, "idle")
  /\ job' = [job EXCEPT ![h] = NoJob]
  /\ answer' = [answer EXCEPT ![h] = a]

\* A statement fails; what the code does about it is up to the action.
Fault == faults < MaxFaults /\ faults' = faults + 1 /\ UNCHANGED now

Free == {g \in Goroutines : task[g] = NoTask}

\* go router.onBooking...(row): the goroutine ends at once unless the user's
\* calendar is configured, and a deletion also when the row has no event.  One
\* more than the bound allows ends at once, too, as if it failed to connect.
Spawn(kind, row) ==
  IF row.user \in CalDavUsers /\ (kind = "deleted" => row.calDav # NoId) /\ Free # {}
  THEN \E g \in Free :
         /\ task' = [task EXCEPT ![g] = [kind |-> kind, stage |-> "send", row |-> row]]
         /\ UNCHANGED <<calendar, nextEvent>>
  ELSE UNCHANGED caldav

\* History: a row is created or moved while other handlers, between their
\* conflict check and their write, cannot notice.
Overtake(writers) == overtaken' = {h \in Handlers \ writers : pc[h] = "write"}

----------------------------------------------------------------------------
(* create, update and delete up to their first statement on the tables.    *)

\* create.  Booking for somebody else takes a space administrator.
ReceiveCreate(h) ==
  \E by \in users, for \in Users, space \in Spaces, w \in Windows, until \in Untils \cup {0} :
    LET row == [id |-> NoId, user |-> for, space |-> space,
                enter |-> w.enter, leave |-> w.leave, calDav |-> NoId]
    IN  /\ pc[h] = "idle"
        /\ IF for # by /\ by \notin SpaceAdmins
           THEN Answer(h, "refused")
           ELSE /\ job' = [job EXCEPT ![h] =
                     [op |-> IF until = 0 THEN "create" ELSE "series",
                      by |-> by, first |-> row, until |-> until, made |-> 0]]
                /\ answer' = [answer EXCEPT ![h] = "none"]
                /\ Goto(h, IF for = by THEN "checkRequest" ELSE "bookForUser")
        /\ UNCHANGED <<tables, caldav, world, history>>

\* update.  The row is read once, here: its owner and event id are kept
\* unless the request names another owner (for # Nil).
ReceiveUpdate(h) ==
  \E by \in users, i \in Ids, for \in Users \cup {Nil}, space \in Spaces, w \in Windows :
    LET old == bookings[i]
        other == for \notin {Nil, by}
        row == [id |-> i, user |-> IF other THEN for ELSE old.user, space |-> space,
                enter |-> w.enter, leave |-> w.leave, calDav |-> old.calDav]
    IN  /\ pc[h] = "idle"
        /\ IF i \notin Live \/ (by \notin SpaceAdmins /\ (old.user # by \/ other))
           THEN Answer(h, "refused")
           ELSE /\ job' = [job EXCEPT ![h] =
                     [op |-> "update", by |-> by, first |-> row, until |-> 0, made |-> 0]]
                /\ answer' = [answer EXCEPT ![h] = "none"]
                /\ Goto(h, IF other THEN "bookForUser" ELSE "checkRequest")
        /\ UNCHANGED <<tables, caldav, world, history>>

\* delete.  The goroutine that removes the event starts before the DELETE.
ReceiveDelete(h) ==
  \E by \in users, i \in Ids :
    /\ pc[h] = "idle"
    /\ IF \/ i \notin Live
          \/ bookings[i].user # by /\ by \notin SpaceAdmins
          \/ ~isValidBookingHoursBeforeDelete(bookings[i].enter, by, now)
       THEN Answer(h, "refused") /\ UNCHANGED caldav
       ELSE /\ Spawn("deleted", bookings[i])
            /\ job' = [job EXCEPT ![h] =
                 [op |-> "delete", by |-> by, first |-> bookings[i], until |-> 0, made |-> 0]]
            /\ answer' = [answer EXCEPT ![h] = "none"]
            /\ Goto(h, "deleteRow")
    /\ UNCHANGED <<tables, world, history>>

----------------------------------------------------------------------------
(* bookForUser: find the account of the user booked for, or create it.     *)

\* GetByEmail; a failing query is taken for an address without an account.
BookForUser(h) ==
  /\ pc[h] = "bookForUser"
  /\ \/ /\ job[h].first.user \in users
        /\ Goto(h, "checkRequest")
        /\ UNCHANGED <<job, answer, world>>
     \/ /\ \/ job[h].first.user \notin users /\ UNCHANGED world
           \/ job[h].first.user \in users /\ Fault
        /\ IF Settings.allowBookingsNonExistingUsers
           THEN Goto(h, "countUsers") /\ UNCHANGED <<job, answer>>
           ELSE Answer(h, "refused")
  /\ UNCHANGED <<tables, caldav, history>>

\* canCreateUser; a failing count reads as 0 users.
CountUsers(h) ==
  /\ pc[h] = "countUsers"
  /\ \/ Cardinality(users) < Settings.maxUsers
        /\ Goto(h, "createUser") /\ UNCHANGED <<job, answer, world>>
     \/ Cardinality(users) >= Settings.maxUsers
        /\ Answer(h, "error") /\ UNCHANGED world
     \/ Settings.maxUsers > 0 /\ Cardinality(users) >= Settings.maxUsers
        /\ Fault /\ Goto(h, "createUser") /\ UNCHANGED <<job, answer>>
  /\ UNCHANGED <<tables, caldav, history>>

\* Create, where an address is unique among the users, and the query that
\* reads the new account back: when only the latter fails the account stays.
CreateUser(h) ==
  /\ pc[h] = "createUser"
  /\ \/ /\ job[h].first.user \notin users
        /\ users' = users \cup {job[h].first.user}
        /\ \/ Goto(h, "checkRequest") /\ UNCHANGED <<job, answer, world>>
           \/ Answer(h, "error") /\ Fault
     \/ /\ \/ job[h].first.user \in users /\ UNCHANGED world
           \/ job[h].first.user \notin users /\ Fault
        /\ Answer(h, "error")
        /\ UNCHANGED users
  /\ UNCHANGED <<bookings, nextId, caldav, history>>

----------------------------------------------------------------------------
(* checkBookingCreateUpdate and GetConflicts, statement by statement.      *)

Refuse(h) == Answer(h, "refused") /\ UNCHANGED world

\* isValidBookingRequest up to isValidMinHoursBooking.  A failing
\* GetTimeRangeByUser counts no rows.
CheckRequest(h) ==
  LET b == Booking(job[h])
      by == job[h].by
      Accepted(failed) ==
        /\ isValidBookingDuration(b.enter, b.leave, by)
        /\ isValidBookingAdvance(b.enter, b.leave, by, now)
        /\ isValidMaxConcurrentBookingsForUser(by, b, failed)
        /\ isValidMinHoursBooking(b.enter, b.leave, by)
      Pass == /\ Goto(h, IF job[h].op = "update" THEN "checkLocation" ELSE "checkUpcoming")
              /\ UNCHANGED <<job, answer>>
  IN  /\ pc[h] = "checkRequest"
      /\ job[h].op = "series" => InSeries(job[h].first, job[h].made, job[h].until)
      /\ \/ Accepted(FALSE) /\ Pass /\ UNCHANGED world
         \/ ~Accepted(FALSE) /\ Refuse(h)
         \/ ~Accepted(FALSE) /\ Accepted(TRUE) /\ Pass /\ Fault
      /\ UNCHANGED <<tables, caldav, history>>

\* isValidMaxUpcomingBookings, not asked of an update.
CheckUpcoming(h) ==
  LET Pass == Goto(h, "checkLocation") /\ UNCHANGED <<job, answer>>
  IN  /\ pc[h] = "checkUpcoming"
      /\ \/ isValidMaxUpcomingBookings(job[h].by, FALSE) /\ Pass /\ UNCHANGED world
         \/ ~isValidMaxUpcomingBookings(job[h].by, FALSE) /\ Refuse(h)
         \/ /\ ~isValidMaxUpcomingBookings(job[h].by, FALSE)
            /\ isValidMaxUpcomingBookings(job[h].by, TRUE)
            /\ Pass /\ Fault
      /\ UNCHANGED <<tables, caldav, history>>

\* isValidConcurrent; a failing query refuses the request.
CheckLocation(h) ==
  /\ pc[h] = "checkLocation"
  /\ \/ /\ isValidConcurrent(Booking(job[h]))
        /\ Goto(h, "checkConflicts")
        /\ UNCHANGED <<job, answer, world>>
     \/ ~isValidConcurrent(Booking(job[h])) /\ Refuse(h)
     \/ /\ MaxConcurrentBookings[LocationOf[Booking(job[h]).space]] # 0
        /\ Answer(h, "refused") /\ Fault
  /\ UNCHANGED <<tables, caldav, history>>

CheckConflicts(h) ==
  /\ pc[h] = "checkConflicts"
  /\ \/ /\ GetConflicts(Booking(job[h])) = {}
        /\ Goto(h, "write")
        /\ UNCHANGED <<job, answer, world>>
     \/ GetConflicts(Booking(job[h])) # {} /\ Refuse(h)
     \/ Answer(h, "error") /\ Fault
  /\ UNCHANGED <<tables, caldav, history>>

----------------------------------------------------------------------------
(* The writes.                                                             *)

\* UPDATE bookings SET ... WHERE id = row.id: every column, if the row is there.
Stored(row) ==
  IF row.id \in Live THEN [bookings EXCEPT ![row.id] = row] ELSE bookings

WrittenBy(h, i) == late' = IF h \in overtaken THEN late \cup {i} ELSE late \ {i}

\* Create.  A series goes on to its next date, a single booking is done.
Insert(h) ==
  LET row == [Booking(job[h]) EXCEPT !.id = nextId]
  IN  /\ pc[h] = "write" /\ job[h].op \in {"create", "series"}
      /\ nextId \in Ids
      /\ bookings' = [bookings EXCEPT ![nextId] = row]
      /\ nextId' = nextId + 1
      /\ Overtake({h}) /\ WrittenBy(h, nextId)
      /\ IF job[h].op = "series"
         THEN /\ job' = [job EXCEPT ![h].made = @ + 1]
              /\ Goto(h, "checkRequest")
              /\ UNCHANGED <<answer, caldav>>
         ELSE Answer(h, "created") /\ Spawn("created", row)
      /\ UNCHANGED <<users, world>>

\* The loop is over.  The booking of the request itself, which a series never
\* inserts and which has no id, is what the calendar goroutine gets.
FinishSeries(h) ==
  /\ pc[h] = "checkRequest" /\ job[h].op = "series"
  /\ ~InSeries(job[h].first, job[h].made, job[h].until)
  /\ Answer(h, "created") /\ Spawn("created", job[h].first)
  /\ UNCHANGED <<tables, world, history>>

\* Update, with the row as it was read and checked, whatever it is by now.
Update(h) ==
  LET row == job[h].first
  IN  /\ pc[h] = "write" /\ job[h].op = "update"
      /\ bookings' = Stored(row)
      /\ IF row.id \in Live
         THEN Overtake({h}) /\ WrittenBy(h, row.id)
         ELSE overtaken' = overtaken \ {h} /\ UNCHANGED late
      /\ Answer(h, "updated") /\ Spawn("updated", row)
      /\ UNCHANGED <<nextId, users, world>>

\* The INSERT or the UPDATE fails.
FailWrite(h) ==
  /\ pc[h] = "write"
  /\ \/ Fault
     \/ job[h].op # "update" /\ nextId \notin Ids /\ UNCHANGED world
  /\ Answer(h, "error")
  /\ overtaken' = overtaken \ {h}
  /\ UNCHANGED <<tables, caldav, late>>

\* Delete, or its failure.
Delete(h) ==
  /\ pc[h] = "deleteRow"
  /\ \/ /\ bookings' = [bookings EXCEPT ![job[h].first.id] = Blank]
        /\ late' = late \ {job[h].first.id}
        /\ Answer(h, "updated") /\ UNCHANGED world
     \/ Answer(h, "error") /\ Fault /\ UNCHANGED <<bookings, late>>
  /\ UNCHANGED <<nextId, users, caldav, overtaken>>

----------------------------------------------------------------------------
(* onBookingCreated, onBookingUpdated, onBookingDeleted.                   *)

Done(g) == task' = [task EXCEPT ![g] = NoTask]

\* The calendars after a PUT of the event of a booking under id.
WithEvent(row, id) ==
  {e \in calendar : <<e.user, e.id>> # <<row.user, id>>}
    \cup {[user |-> row.user, id |-> id, enter |-> row.enter, leave |-> row.leave]}

\* CreateEvent: a PUT under the event's id, a new id if there is none yet.
\* When it fails the server may have stored the event all the same.
SendEvent(g) ==
  LET row == task[g].row
      id == IF row.calDav = NoId THEN nextEvent ELSE row.calDav
      Put == calendar' = WithEvent(row, id)
  IN  /\ task[g].kind \in {"created", "updated"} /\ task[g].stage = "send"
      /\ IF id > MaxEvents
         THEN Done(g) /\ UNCHANGED <<calendar, nextEvent, world>>
         ELSE /\ nextEvent' = IF row.calDav = NoId THEN nextEvent + 1 ELSE nextEvent
              /\ \/ /\ Put
                    /\ task' = [task EXCEPT ![g] = [kind |-> @.kind, stage |-> "save",
                                                 row |-> [row EXCEPT !.calDav = id]]]
                    /\ UNCHANGED world
                 \/ (Put \/ UNCHANGED calendar) /\ Fault /\ Done(g)
      /\ UNCHANGED <<tables, handlers, history>>

\* GetBookingRepository().Update(e): the whole row as the goroutine knows it.
SaveEvent(g) ==
  LET row == task[g].row
      Place(b) == <<b.space, b.enter, b.leave>>
  IN  /\ task[g].stage = "save"
      /\ \/ /\ bookings' = Stored(row)
            /\ IF row.id \in Live /\ Place(row) # Place(bookings[row.id])
               THEN Overtake({}) /\ late' = late \cup {row.id}
               ELSE UNCHANGED history
            /\ UNCHANGED world
         \/ Fault /\ UNCHANGED <<bookings, history>>
      /\ Done(g)
      /\ UNCHANGED <<nextId, users, handlers, calendar, nextEvent>>

\* DeleteEvent, or its failure.
RemoveEvent(g) ==
  LET row == task[g].row
  IN  /\ task[g].kind = "deleted"
      /\ \/ /\ calendar' = {e \in calendar : <<e.user, e.id>> # <<row.user, row.calDav>>}
            /\ UNCHANGED world
         \/ Fault /\ UNCHANGED calendar
      /\ Done(g)
      /\ UNCHANGED <<tables, handlers, nextEvent, history>>

----------------------------------------------------------------------------
\* The process dies: handlers and goroutines with it, the tables stay.
Crash ==
  /\ Fault
  /\ pc' = [h \in Handlers |-> "idle"]
  /\ job' = [h \in Handlers |-> NoJob]
  /\ answer' = [h \in Handlers |-> "none"]
  /\ task' = [g \in Goroutines |-> NoTask]
  /\ overtaken' = {}
  /\ UNCHANGED <<tables, calendar, nextEvent, late>>

Tick ==
  /\ now < MaxNow
  /\ now' = now + 1
  /\ UNCHANGED <<tables, handlers, caldav, faults, history>>

Init ==
  /\ bookings = [i \in Ids |-> Blank] /\ nextId = 1 /\ users = InitialUsers
  /\ pc = [h \in Handlers |-> "idle"]
  /\ job = [h \in Handlers |-> NoJob]
  /\ answer = [h \in Handlers |-> "none"]
  /\ task = [g \in Goroutines |-> NoTask] /\ calendar = {} /\ nextEvent = 1
  /\ now = 0 /\ faults = 0
  /\ overtaken = {} /\ late = {}

Receive(h) == ReceiveCreate(h) \/ ReceiveUpdate(h) \/ ReceiveDelete(h)
Serve(h) ==
  \/ BookForUser(h) \/ CountUsers(h) \/ CreateUser(h)
  \/ CheckRequest(h) \/ CheckUpcoming(h) \/ CheckLocation(h) \/ CheckConflicts(h)
  \/ Insert(h) \/ FinishSeries(h) \/ Update(h) \/ FailWrite(h) \/ Delete(h)
Mirror(g) == SendEvent(g) \/ SaveEvent(g) \/ RemoveEvent(g)

Next ==
  \/ \E h \in Handlers : Receive(h) \/ Serve(h)
  \/ \E g \in Goroutines : Mirror(g)
  \/ Crash \/ Tick

Spec == Init /\ [][Next]_vars

\* Go runs every goroutine that can run; a statement answers or fails.
FairSpec == Spec /\ \A h \in Handlers : WF_vars(Serve(h))

----------------------------------------------------------------------------
(* Properties.                                                             *)

TypeOK ==
  /\ bookings \in [Ids -> Row \cup {Blank}] /\ nextId \in 1 .. MaxBookings + 1
  /\ users \subseteq Users
  /\ pc \in [Handlers -> Steps]
  /\ job \in [Handlers -> Job \cup {NoJob}]
  /\ answer \in [Handlers -> Answers]
  /\ task \in [Goroutines -> Tasks \cup {NoTask}]
  /\ calendar \subseteq Event /\ nextEvent \in 1 .. MaxEvents + 1
  /\ now \in 0 .. MaxNow /\ faults \in 0 .. MaxFaults
  /\ overtaken \subseteq Handlers /\ late \subseteq Ids

Conflicting(i, k) ==
  /\ i # k
  /\ bookings[i].space = bookings[k].space
  /\ InConflict(bookings[i], bookings[k].enter, bookings[k].leave)

\* What GetConflicts is for: no two bookings of a space overlap.
NoDoubleBooking == \A i, k \in Live : ~Conflicting(i, k)

\* When two bookings of a space do overlap, one of them was written by a
\* handler that another write overtook between its GetConflicts and its own
\* INSERT or UPDATE, or was moved by a calendar write-back: the check itself
\* lets nothing through, for any request, series or update.
DoubleBookingIsARace ==
  \A i, k \in Live : Conflicting(i, k) => i \in late \/ k \in late

\* The bookings of a location that strictly contain minute t.
ActiveAt(loc, t) ==
  {i \in Live : /\ LocationOf[bookings[i].space] = loc
                /\ bookings[i].enter < t /\ t < bookings[i].leave}

\* isValidConcurrent and the write after it are not atomic, but n requests at
\* a time exceed the capacity of a location by n - 1 at most.
CapacityExceededByRacesOnly ==
  \A i \in Live :
    LET loc == LocationOf[bookings[i].space]
    IN  MaxConcurrentBookings[loc] # 0 =>
          \A t \in bookings[i].enter .. bookings[i].leave :
            Cardinality(ActiveAt(loc, t))
              <= MaxConcurrentBookings[loc] + Cardinality(Handlers) - 1

\* A row that was deleted stays deleted, whatever handler or goroutine still
\* holds a copy of it.
NoResurrection ==
  [][\A i \in Ids : i < nextId /\ i \notin Live => bookings'[i] = Blank]_vars

\* The bookings of a user in whose range minute t lies, ends excluded.
HeldAt(user, t) ==
  {i \in Live : /\ bookings[i].user = user
                /\ bookings[i].enter <= t /\ t < bookings[i].leave}

\* Max. concurrent bookings per user: the count and the write after it are not
\* atomic, but n requests at a time exceed the limit by n - 1 at most, where no
\* administrator books for somebody else, no calendar write-back moves a booking
\* back and the queries that count do not fail.
UserConcurrencyExceededByRacesOnly ==
  Settings.maxConcurrentBookingsPerUser # 0 /\ faults = 0 =>
    \A i \in Live :
      Cardinality(HeldAt(bookings[i].user, bookings[i].enter))
        <= Settings.maxConcurrentBookingsPerUser + Cardinality(Handlers) - 1

\* Max. bookings per user: exceeded by n - 1 at most, under the same conditions
\* and while no booking is over.
UpcomingExceededByRacesOnly ==
  faults = 0 => \A user \in Users :
    Cardinality(GetAllByUser(user))
      <= Settings.maxBookingsPerUser + Cardinality(Handlers) - 1

\* Both limits of a user (booking-router.go 638-660): races exceed each of them by
\* the other handlers only.  It is for organizations without administrators of
\* spaces and without calendars, at a time when no booking is over.
UserLimitsExceededByRacesOnly ==
  UserConcurrencyExceededByRacesOnly /\ UpcomingExceededByRacesOnly

\* When a series is answered "created", every one of its dates up to the last
\* has been booked, in the space and for the user asked for.
SeriesComplete ==
  [][\A h \in Handlers :
       job[h].op = "series" /\ answer'[h] = "created" /\ pc'[h] = "idle" =>
         \A t \in job[h].first.enter .. job[h].until + ZoneOffset :
           (t - job[h].first.enter) % Week = 0 =>
             \E i \in Live : /\ bookings[i].user = job[h].first.user
                             /\ bookings[i].space = job[h].first.space
                             /\ bookings[i].enter = t
    ]_vars

\* As long as nothing fails, a row that has an event id has that event on the
\* calendar server, but while its deletion is under way: neither updates nor
\* write-backs of goroutines that overtake each other lose an event.
EventsExist ==
  faults = 0 => \A i \in Live :
    \/ bookings[i].calDav = NoId
    \/ \E e \in calendar : e.id = bookings[i].calDav
    \/ \E h \in Handlers : pc[h] = "deleteRow" /\ job[h].first.id = i

\* Every request that was received is answered.
Answered == \A h \in Handlers : pc[h] # "idle" ~> pc[h] = "idle"

----------------------------------------------------------------------------
(* One request at a time and no calendar: the service keeps the promises   *)
(* of Reservations.                                                        *)

Promise == INSTANCE Reservations WITH
  Capacity <- MaxConcurrentBookings,
  None <- Nil,
  held <- [i \in Ids |->
             IF i \in Live
             THEN [user |-> bookings[i].user, space |-> bookings[i].space,
                   enter |-> bookings[i].enter, leave |-> bookings[i].leave]
             ELSE Nil]

KeepsPromise == Promise!Spec

----------------------------------------------------------------------------
(* What tests say of the service and the code does not do: a run finds it  *)
(* violated, as another does for NoDoubleBooking with two handlers.        *)

\* An update that was answered stays: the write-back of a calendar goroutine
\* changes nothing of a booking but its event id.
WriteBackKeepsBooking ==
  [][\A g \in Goroutines : task[g].stage = "save" /\ task'[g] = NoTask =>
       \A i \in Live : [bookings'[i] EXCEPT !.calDav = bookings[i].calDav] = bookings[i]]_vars
=============================================================================
