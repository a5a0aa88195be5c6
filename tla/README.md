# A verification of the Seatsurfing backend

TLA+ models of the Seatsurfing server (`src/server`, Go on PostgreSQL) and of
its two web clients (`src/booking-ui`, `src/admin-ui` and what they share in
`src/commons/ts`, React), the TLC runs that check them on small instances, and
TLAPS proofs of what matters most for instances of any size.

## The system

| Component | State | Operations | Where it gets hard |
|---|---|---|---|
| **Booking service** (`booking-router.go`, `booking-repository.go`) | table `bookings`; reads `settings`, `spaces`, `locations`, `users` | create (one booking or a weekly series), update, delete, lists, presence report | requests run concurrently, every statement is its own transaction, nothing in the schema excludes two bookings of a space; checks are made long before the write; errors of counting queries are dropped; a series stops half way |
| **CalDAV mirror** (`caldav-client.go`, `onBooking...` in `booking-router.go`) | the user's calendar, `caldav_id` of a booking | PUT and DELETE of an event, write-back of its id | goroutines outlive the request and write back a whole row they read long ago; no timeout; no retry |
| **Time ranges** (SQL of `GetConflicts`, `GetTimeRangeByUser`, `GetConcurrent`, `GetAllInTime`) | none | overlap predicates, sampling by the minute | four sets of open and closed bounds that have to agree |
| **Sessions** (`auth-router.go`, refresh-token, auth-state and auth-attempt repositories) | refresh tokens, auth states, login attempts, `disabled` and `ban_expiry` of users | login, refresh, password reset, verify, ban, expiry by the minute ticker | rotation of a token that two requests use; states used twice; expiry against use; ban against full-row update |
| **Users** (`user-router.go`, `user-repository.go`) | table `users` | create, update, merge, delete, purge of guests | every column written from an old read; deletion and merge statement by statement |
| **Signup, organizations, domains** | `signups`, `organizations`, `organizations_domains` | sign up, confirm, add and verify a domain, delete | several tables changed without a transaction; two organizations claiming a domain |
| **Locations, spaces, attributes** | their tables | CRUD, bulk update of spaces, search by attribute | a bulk update that succeeds in part; rows that refer to what was deleted |
| **Settings, preferences** | key-value tables | validated writes, defaults | a request stores its entries one by one, and stops at the first it refuses |
| **Access control** (`routes.go`) | none | JWT middleware, role checks | which role may do what to which organization |
| **Web clients: credentials** (`Ajax.ts`, `RuntimeConfig.ts`, `_app.tsx`, `NavBar.tsx`, `SideBar.tsx`, the login pages) | tokens in memory, in the session storage of a tab and in the local storage all tabs share | every request, refresh under a mutex, login, logout, verification of a stored token | many requests find the token expired at once; tabs share a token but no mutex; answers that come after a logout |
| **Booking client: search page** (`search.tsx`) | the form, the list of spaces with the times it was asked for, map, dialogs, timers | change of area, dates and filter, selection, booking, buddies | chains of requests overlap and end in one loading flag; timers fire under open dialogs |
| **Booking client: preferences page** (`preferences.tsx`) | five forms, one `submitting` flag | load, save each form, connect and disconnect a calendar | answers for values that have changed meanwhile; one form's answer frees the others |
| **Administration: editors of bookings and areas, settings page** (`bookings/[id].tsx`, `locations/[id].tsx`, `settings/index.tsx`) | the form, what has changed, what is to be deleted, pending requests | load, edit, save in several requests, delete | lists that come out of order; edits during a save; saves that succeed in part; failures nobody catches |
| **Buddies, search, statistics, confluence, subscription, mail, update check, other pages** | small tables or none | CRUD, queries, I/O | little |

Handlers, goroutines and the minute ticker share nothing but the tables.  A
booking handler starts a calendar goroutine at its end (a deletion: just before
its DELETE); the goroutine writes to the bookings table.  Booking for somebody
else may create a user.  The clients reach the server by HTTP requests only,
all of which pass through `Ajax.query`; a page is one React component, whose
callbacks run one at a time, between answers that come in any order.

What makes each component correct: no two bookings of a space overlap, and the
limits of locations, users and accounts hold, as far as the check-then-write
scheme can hold them; deleted things stay deleted; what was answered stays
done; a token or an auth state is good for one use, before it expires; every
row refers to rows that exist; a request is always answered.  A page shows, when
it comes to rest, what belongs to its form; it sends what it shows, once; when
it says that something is stored, it is; its spinner ends.  A tab is not logged
out by its own doing, nor logged in again after a logout.

## Modules

| Module | Models |
|---|---|
| `Intervals` | the range predicates of the SQL queries, clause by clause, the sampling of `GetConcurrent`, and the reference definitions (`Share`, `Overlap`) they are compared with |
| `BookingRules` | the checks of `booking-router.go` that read no booking, as functions of the settings, and the dates of a series |
| `Booking` | handlers, goroutines and tables; composes the two modules above |
| `Reservations` | the abstract specification: atomic reservations that exclude each other and respect capacity |
| `Accounts` | logins, refresh, password reset, login protection and the writes of users: handlers, clean-up goroutine and tables |
| `AjaxClient` | tabs, their requests and credentials, the storages, and as much of the server as hands out and takes back refresh tokens |
| `SearchRules` | what the client computes from dates and preferences, and when it lets the user search; over `BookingRules` |
| `SearchPage` | the search and booking page; over `SearchRules` |
| `Page` | what pages with a form have in common: loading, `submitting`, failures nobody catches, the bounds of a visit |
| `SetAll` | a list of settings or preferences, stored entry by entry |
| `BookingEditor`, `LocationEditor`, `SettingsPage`, `PreferencesPage` | one page each, with what the server keeps of it; over `Page`, `SearchRules` (the first) and `SetAll` (the last two) |
| `Pages` | composes the four: one page is shown, any of them |
| `MCRules`, `MCBooking`, `MCAccounts`, `MCClient`, `MCSearch`, `MCPages` | instances for TLC |
| `Rules_proofs`, `Booking_proofs`, `Accounts_proofs`, `AjaxClient_proofs`, `SearchPage_proofs`, `BookingEditor_proofs`, `PreferencesPage_proofs`, `Pages_proofs` | theorems |

`Booking` and `Accounts` share the table `users` only, of which `Booking` needs
the e-mail addresses; they are not composed.  `AjaxClient` has the rotation of
`Accounts` as one step that keeps the new token's place: what two overlapping
rotations of one token do is a matter of `Accounts` (`OneCredentialPerLogin`).
`MCRules` composes `BookingRules` with `SearchRules`: what the client lets
pass, the server accepts.

### How Booking corresponds to the code

`pc[h]` and `job[h]` are the position and the locals of the request goroutine
`h`; `answer[h]` what its client was told.  One action is one SQL statement on
`bookings` or `users` and the code up to the next:

| Action | Code |
|---|---|
| `ReceiveCreate`, `ReceiveUpdate`, `ReceiveDelete` | the handler up to its first check: roles, the row as read once |
| `BookForUser`, `CountUsers`, `CreateUser` | `bookForUser`: `GetByEmail`, `canCreateUser`, `Create` |
| `CheckRequest`, `CheckUpcoming` | `isValidBookingRequest`: rules and the two counts per user |
| `CheckLocation`, `CheckConflicts` | `isValidConcurrent`, `GetConflicts` |
| `Insert`, `FinishSeries`, `Update`, `Delete`, `FailWrite` | the writes, with the response and the `go` statement |
| `SendEvent`, `SaveEvent`, `RemoveEvent` | the calendar goroutines: PUT, write-back, DELETE |
| `Crash` | the process ends; tables and calendars stay |
| `Tick` | the clock |

A failing statement takes the branch the code takes: refused, error, or, where
the code drops the error, counted as no rows.  Faults are counted and bounded.

Times are wall-clock minutes of the location, as in the `TIMESTAMP` columns;
`Instant` takes the offset away where the code compares instants, and is
missing where the code misses it.  Minutes per hour, hours per day and days per
week are constants, so that instances have short days.

`overtaken` and `late` are history variables, read by no action: a handler
about to write is *overtaken* when another write creates or moves a booking
after its `GetConflicts`; a row is *late* when an overtaken handler wrote it, or
when a write-back moved it.

### How Accounts corresponds to the code

`req[p]` is the position and the locals of the request goroutine `p`: `row` is
its copy of the user, `cred` the token or state it was given.  Tokens and auth
states are one table, `creds`, since only their kinds and lives differ; what a
request inserts has the number of the request as its id.  `root` is the request
a credential goes back to: refreshing a token, or turning the state of a
provider login into the next one and that into a token, keeps it.

| Action | Code |
|---|---|
| `loginPassword`, `login`, `callback`, `verify`, `refreshAccessToken`, `initPasswordReset`, `completePasswordReset` | the handlers of `auth-router.go` up to and with their first read |
| `setPassword`, `update`, `delete`, `create` | those of `user-router.go` |
| `RecordLoginAttempt`, `readLastSuccess`, `checkBanUser` | the three statements of the login protection |
| `getUser`, `findUser`, `admit`, `checkLimit` | the reads of users after that, and what is decided by them |
| `Update`, `Delete`, `Create` | `UserRepository`: every column of the copy is written back |
| `createAuthState`, `createRefreshToken`, `deleteCredential` | the writes of tokens and states |
| `Cleanup` | one table cleaned by the goroutine of `InitializeTimers` |
| `Crash`, `Tick` | the process ends; the clock |

A request the code refuses at its first read changes nothing and has no action.
Errors nobody looks at (of `RecordLoginAttempt`, `Delete`, `Create` in `verify`,
`Update` in `completePasswordReset`) let the handler go on, as in the code.

History, read by no action: `forked` (logins and resets whose credential two
requests held at once, or failed to delete), `spent` (resets that have written a
password), `pardoned` (accounts whose last ban was lifted, undone, or failed; an
account is an address and an id, since an address may be deleted and created
again while a handler still has the old row).

### How AjaxClient corresponds to the code

A tab has its page (`status`, `app`), `Ajax.CREDENTIALS` (`cred`), a session
storage (`session`) and up to `Slots` requests; `local` is the local storage of
all tabs.  `request[t][r].at` says how far a request is: `queued` on the mutex of
`refreshAccessToken`, `posted` (it holds the mutex and its refresh is on its way),
`rotated` or `refused` (the server has answered, the page has not heard it),
`sent` (the request itself).  A token is a number; access and refresh token of
one answer are the same.

| Action | Code |
|---|---|
| `Open`, `Close` | `_app.tsx` and `verifyToken` up to its first request; the tab closes |
| `Query` | `Ajax.query`: with the access token, after a refresh, or on the mutex |
| `Logout` | `NavBar.logOut` |
| `ServerRefresh` | `auth-router.go`, the rotation or the refusal |
| `Refreshed`, `RefreshRefused`, `RefreshLost` | the three ways `refreshAccessToken` ends, with the release of the mutex and who goes on |
| `QueryAnswered`, `QueryFailed`, `RoleRefused` | what pages and `verifyToken` do with answers |
| `LoggedIn` | a login, remembered or not |
| `Expire`, `Forget` | the page's clock; the server's deletion of a token |

`Asked` and `Released` are the mutex; `Stored` and `Drop` what is kept and what
is forgotten.  History, read by no action: which tokens go back to a login that
asked to be remembered, who used a token, which were spoiled, who logged out.
The waiters of a mutex go on in any order.  What one callback does to the
storages is one step: that two tabs write the local storage in the same
millisecond is not modelled.

### How SearchPage and the pages correspond to the code

An action is one callback: of an input, of a timer, or of an answer, with every
`setState` and every request that follows before the next callback.  What was
asked for is kept with what came (the area and dates of a list), so that
"current" can be said.  A *chain* of `SearchPage` is a sequence of requests, each
sent by the callback of the one before (`loadItems`, `changeLocation`,
`applySearch`, `refreshPage`, the change of dates, `onAddBuddy`).

`Pages` starts with any page and any *visit*: a set of inputs the user may make,
how many, and how many requests may fail.  The three groups `Answers`,
`Failures`, `Inputs` of every page keep fairness apart: answers come, users need
not type and nothing need fail.  What the user types is a stamp (the inputs left
of the visit), so that two edits are never equal by accident.

Properties of pages hold but for excuses, each a history variable that is set
where the code gives up the property; a reader may take them as a list of what
these pages do wrong:

| Excuse | Set when | Because |
|---|---|---|
| `uncaught` | a request fails whose promise has no `catch` | the page goes on as if nothing had happened, or waits for ever |
| `overlapped` (search) | a chain starts while another is pending | the older one may overwrite what the newer has loaded |
| `skipped`, `moved`, `failed` (search) | dates do not allow a search; a space is selected while they do not, or a date timer fires under the open confirmation; a load that nobody catches frees the overlay | the list stays as it was, and can be booked from; the dialog shows other dates than were chosen |
| `early`, `reordered` (booking) | a space is chosen from the list of another area; a list overtakes a later one | the drop-down shows another space than is sent |
| `rounded` (booking) | the organization books by days and Save rounds a booking made by the hour | the list is not asked for again |
| `resent` (booking) | Save is pressed while a POST is pending, or its answer is lost | a second booking is created |
| `editedMeanwhile`, `orphaned`, `partly` (area) | spaces are edited during a save; a space just created is edited (the page never learns its id); the server refuses one operation of the bulk update | the page takes all spaces for saved |
| `attributesEdited`, `attributesRaced`, `addedAgain` (area) | attributes are edited after the last save, saved or loaded while their requests are pending, or deleted and added again | their requests are sent together, and nobody waits for them |
| `savedTwice`, `relisted` (settings) | Save while a save is pending; lists of domains overlap | entries of two lists mix; the older list is shown |
| `overlapped`, `listedLate`, `cutShort` (preferences) | a form is sent while another is pending; calendars come for an account that has changed; a list is stored in part | answers free all forms; the calendar chosen belongs to another account |

### Abstractions

- Accounts: an account keeps its e-mail address (`update` may change it in the
  code); users are not merged; the access token, a signed claim of 15 minutes
  with no state on the server, is left out; the provider of a login names any
  user; timestamps of login attempts follow the order of their INSERTs.
- Booking: one organization, whose settings, spaces, locations, calendar preferences and
  administrators do not change and whose reads of them do not fail; one time
  zone offset for all its locations, no day with 23 or 25 hours, times in whole
  minutes.
- `CanSpaceAdminOrg` is a constant set of users.
- Statements on other tables than `bookings` and `users` are not steps.
- A deletion through another component (a user, a space, an organization) is
  not modelled.
- Credentials: the two tokens of an answer are one number; a request is a
  purpose, and its answer matters where the code does something to credentials
  with it; the client's five minutes and the server's fifteen are one `Expire`
  at any time.
- Search page: one kind of criterion for the filter; the map is the area it was
  loaded for; the recurring-booking dialog sends through the same
  `onConfirmBooking`; the clock stands still during a visit.
- Pages: the settings form has two of its settings, the one that changes another
  and the one that is changed; hours and area preferences are one field; a space's
  rectangle and name are one stamp; the user field of a booking, list-view toggles,
  rotation and the table export are left out.  The administrator of the settings
  page is no super administrator, whose domains are active at once.

## Runs

Bounds of `Booking`: `MaxBookings` (rows ever inserted), `MaxEvents`, `MaxNow`,
`MaxFaults`, `Handlers`, `Goroutines`.  An INSERT beyond `MaxBookings` fails, a
goroutine beyond `Goroutines` ends as if it failed to connect, so that no bound
blocks a handler.

| Run | Checks | Shows | Bounds, and why they are enough |
|---|---|---|---|
| `rules` | `AvailableMeansBookable`, `SamplesSeeEveryPeak`, `AcceptedIsWithinBounds`, `OfferedMeansAccepted`, `DeletionStaysClosed` | the predicates agree as far as their comments say; the settings bound what a restricted user books; what the search page lets pass the server accepts | requests and clock over days of eight minutes, in a zone ahead of UTC, rows over five minutes: every order of four endpoints, equal ones included |
| `race` | `DoubleBookingIsARace`, `CapacityExceededByRacesOnly`, `UserLimitsExceededByRacesOnly` | two handlers: the checks let nothing through but what a race lets through, and races exceed the capacity, and each limit of the user, by one | three rows of one user, who may have two bookings ahead and one at a time; two spaces with room for one; nested and touching ranges and one of a minute; one failure: each of the limits is really exceeded, and by two once the check for one at a time is off by one |
| `serial` | `SeriesComplete`, `KeepsPromise`, `Answered` | one request at a time, failures and a crash: complete series, every request answered, refinement of `Reservations` (so no double booking) | three rows, two users, two spaces, two bookings ahead and one at a time, one failure, behind UTC |
| `caldav` | `EventsExist`, `NoResurrection` | a handler with series and two calendar goroutines, failures and crashes | two rows, two events, two users of whom one has a calendar, one failure |
| `sessions` | `OneCredentialPerLogin`, `ResetsOnce`, `ThresholdMeansBan`, `UserLimit`, `BansLast`, `PasswordsAreChosen`, `SessionsNeedAnAccount` | two handlers among logins, refreshes, resets and administration | two to four requests (`Races` names the mixes), one failure or crash: a ban needs two failed logins, a third races them and a fourth sees the ban; a reset three requests; room for one user, and three creations with one failing count make three |
| `session_endings` | `BansEnd`, `ExpiredCredentialsVanish` | with any one statement failing, bans end and expired rows go | up to three requests, then the clock runs |
| `client` | `OneRefreshPerPage`, `NobodyWaitsInVain`, `RefusedForAReason`, `StoredOnRequest`, `RememberedTokenWorks`, `LoggedOutStaysOut`, `VerificationEnds` | the mutex, the storages and the logout, with lost answers and expiry anywhere | two tabs of two requests, three tokens (a login, its rotation by either tab), five inputs: one tab logs in and is opened again next to the other |
| `search` | `SettledPageIsConsistent`, `BookedAsConfirmed`, `LoadingEnds` | the page comes to rest on what its form says, a booking is the one confirmed, the overlay goes away | two areas with a space each, two overlapping chains, visits of up to four inputs or two inputs and a failure |
| `pages` | `ListsAreCurrent`, `SentAsShown`, `CreatedOnce`, `NothingToDiscardIsStored`, `AttributesAreStored`, `AlertsAreTrue`, `CalendarIsOfItsAccount`, `EveryWaitEnds` | lists, what is sent, what is said to be saved, spinners | visits of four or five inputs, or of three or four and a failure: two saves with edits before, between and after them |
| `double_booking` | `NoDoubleBooking` (violated) | the race exists | two handlers, two rows |
| `write_back` | `WriteBackKeepsBooking` (violated) | a stale write-back undoes an answered update | one row |
| `space_links` | `SaveGivesLink` (violated) | the page never learns the ids of spaces it has created | those of `pages`; adding a space and saving is enough |

The bounds of `Accounts` are those of a `Scenario`: kinds of requests, their
number, failures, and how far the clock runs (further while a ban lasts).

The type invariants are not among the runs' properties: those of `Booking`,
`Accounts` and `AjaxClient` are proved, the others are there for the reader.
`EventsExist` is about runs in which nothing fails: a failing PUT loses its event
by design (there is no retry).

`BansEnd` and `ExpiredCredentialsVanish` assume weak fairness of `Cleanup` (the
ticker fires), of `Tick` and of `Serve(p)`; nobody has to send a request, and
failures are finitely many.

`Answered` assumes weak fairness of `Serve(h)`, the steps of a handler: Go runs
every goroutine that can run, and a statement on PostgreSQL answers or fails.
Nothing is assumed of calendar goroutines, whose HTTP client has no timeout, of
clients, of the clock, or of failures.

`VerificationEnds`, `LoadingEnds` and `EveryWaitEnds` assume that a request is
answered or fails (a browser gives up at last), and that timers fire; of users
and of failures nothing.

`client`, `search`, `pages` and `space_links` do not check for deadlock: a visit
really ends, when its inputs are used up.  All other runs do.

### Where the code and its tests or texts disagree

Checked by a run:

- `booking-router.go:457`: conflict check and INSERT are not atomic and nothing
  in the schema excludes overlaps, so two requests are both answered 201
  (`double_booking`).
- `booking-router.go:804`: `onBookingCreated` writes its whole copy of the row,
  undoing an update answered since (`write_back`).
- `Space.ts:120`: `bulkUpdate` hands the envelope of the answer (status and json)
  to `BulkUpdateResponse`, which finds no ids in it; a space that has been saved
  still says "Save area to get a valid link" (`admin.json:112`), and is created a
  second time when it is edited and saved again (`space_links`).

Seen while modelling, present in the model, without a run of their own:

- `booking-router.go:594`: with daily-basis booking `isValidBookingDuration`
  returns before it looks at the sign or the maximum of the duration: a booking
  may end before it starts, or last any number of days.
- `booking-router.go:408`: the leave of a series' occurrence has the date of its
  enter, so that an overnight booking repeats as one that ends before it starts.
- `booking-router.go:471`: a series hands the calendar goroutine the booking it
  never inserted; an event is created that no row refers to.
- `booking-router.go:658`, `645`: limits per user are checked for the user who
  sends the request, not for the one booked for.
- `booking-router.go:675`: an update is not checked against the number of
  upcoming bookings.
- `booking-router.go:718`: the wall-clock time of a row is compared with the UTC
  clock: ahead of UTC, deletion stays possible too long.
- `space-repository.go:201`: deleting a space leaves its bookings behind.
- `auth-router.go:199`: the expiry of a reset mail, as that of every auth state,
  is not looked at: it is usable until the ticker deletes it.
- `auth-router.go:222`: `completePasswordReset` deletes the state and answers as
  if the password had changed when `Update` has failed.
- `auth-router.go:425`: when the provider's answer cannot be read `payload` is
  nil, and the handler ends in a panic instead of a redirect.
- `user-repository.go:340`: `canCreateUser` drops the errors of its queries: a
  count that fails is 0, and the user is created beyond the subscription.
- `auth-attempt-repository.go:98`, `user-router.go:305`: a ban writes back the
  password the login read, undoing a change made in between; saving a user in
  the administration lifts a ban.
- `NavBar.tsx:67`: a refresh that is pending at a logout stores its tokens
  afterwards; a login whose answer comes after it counts as a new login.  The
  server is not told of the logout: its refresh token lives on.
- `Ajax.ts:64`: the mutex is the tab's, the remembered token all tabs': two tabs
  opened from it refresh with the same token, and one of them is refused and
  drops the token the other has just stored.
- `RuntimeConfig.ts:58`: when `getSelf` fails, for whatever reason, the remembered
  token is dropped; when `loadSettings` fails the tab is stuck.
- `JwtDecoder.ts:9`: `getPayload` returns an empty object whatever the token, so
  the check of the role at the administration's login refuses nobody; the side
  bar's request decides.
- `search.tsx:381`: the search page counts days in advance from now, the server
  from midnight in UTC; it offers the day after the last one it may.
- `locations/[id].tsx:199`, `149`: an edit of a space during a save is marked as
  saved; edits of attributes do not count as changes, and Back asks nothing; a
  failure of any of the four requests leaves Save disabled.
- `preferences.tsx:193`: the form of the colours is not disabled while another is
  pending, and every answer enables all of them.

## Proofs

TLAPS checks, for all values of the constants that satisfy the modules'
assumptions (`CalendarAssumption`, `SettingsAssumption`, `BookingAssumption`,
`AccountsAssumption`, `ClientAssumption`, `BoundsAssumption` of `MCRules`, and
those of the pages).  They fix types and little else: handlers are finitely many
and there is one, `Nil` is no reservation, a refresh token's two lifetimes lie
on the two sides of the threshold that tells them apart, as 24 hours and 28 days
lie around 25 hours in the code.  Where the table says "with", the theorem has
that hypothesis.

| Theorem | Statement |
|---|---|
| `TypeCorrect` | `Spec => []TypeOK`, of `Booking`, of `Accounts` and of `AjaxClient` |
| `DoubleBookingsAreRaces` | `Spec => []DoubleBookingIsARace` |
| `NoDoubleBookingOneAtATime` | with one handler and no calendar users, `Spec => []NoDoubleBooking` |
| `ServiceKeepsPromise` | with one handler and no calendar users, `Spec => KeepsPromise`, the refinement of `Reservations` |
| `CapacityExceededByOneLess` | with no calendar users, `Spec => []CapacityExceededByRacesOnly` |
| `UserLimitsExceededByOneLess` | with no administrators of spaces and no calendar users, `Spec /\ []NoneOver => []UserLimitsExceededByRacesOnly` |
| `SeriesAreBooked` | with one handler, `Spec => SeriesComplete` |
| `NoEventIsLost` | `Spec => []EventsExist` |
| `DeletedStaysDeleted` | `Spec => NoResurrection` |
| `UserLimitHolds` | `Spec => []UserLimit`: as many users as the subscription has, and one for each handler but one and for each failure |
| `ResetsWorkOnce` | `Spec => []ResetsOnce` |
| `BansOutlastHandlers` | `Spec => BansLast` |
| `PasswordsAreAskedFor` | `Spec => PasswordsAreChosen` |
| `SessionsHaveAnAccount` | `Spec => SessionsNeedAnAccount` |
| `LoginsHaveOneCredential` | `Spec => []OneCredentialPerLogin` |
| `EnoughFailuresBan` | with a threshold other than 0, `Spec => []ThresholdMeansBan` |
| `LifetimesAreInherited` | `Spec => []LifeIsInherited` |
| `ConflictIsShare`, `UserRangeOverlaps`, `TakenIsConflict` | what the range predicates mean, for all integers |
| `SearchAgreesWithConflicts` | `Spec => []AvailableMeansBookable`, of `MCRules` |
| `SamplingSeesEveryPeak` | sampling whole minutes is enough, for any finite set of rows and any bound |
| `SamplesAreEnough` | `Spec => []SamplesSeeEveryPeak`, of `MCRules` |
| `TooLateStaysTooLate` | `Spec => DeletionStaysClosed`, of `MCRules` |
| `AcceptedAreWithinBounds` | with hourly bookings, `Spec => []AcceptedIsWithinBounds`, of `MCRules` |
| `OffersAreAccepted` | with hourly bookings, `Spec => []OfferedMeansAccepted`, of `MCRules` |
| `RefreshesExclude` | `Spec => []OneRefreshPerPage` |
| `QueueIsServed` | `Spec => []NobodyWaitsInVain` |
| `LogoutsLast` | `Spec => []LoggedOutStaysOut` |
| `StorageIsAskedFor` | `Spec => []StoredOnRequest` |
| `RefusalsHaveAReason` | `Spec => []RefusedForAReason` |
| `RememberedIsCurrent` | `Spec => []RememberedTokenWorks` |
| `BookingIsCreatedOnce` | `BookingSpec => []CreatedOnce` |
| `WhatIsShownIsSent` | `BookingSpec => []SentAsShown` |
| `SpacesFitTheForm` | `BookingSpec => []SpacesAreForTheForm` |
| `CalendarFitsAccount` | `PreferencesSpec => []CalendarIsOfItsAccount` |
| `SavedIsStoredAlways` | `PreferencesSpec => []SavedIsStored` |
| `ListsStayCurrent` | `PagesSpec => []ListsAreCurrent` |
| `AlertsStayTrue` | `PagesSpec => []AlertsAreTrue` |
| `PagesKeepTheirPromises` | `PagesSpec => [](SentAsShown /\ CreatedOnce /\ CalendarIsOfItsAccount)` |
| `DiscardedIsStored` | `PagesSpec => []NothingToDiscardIsStored` |
| `AttributesShownStayStored` | `PagesSpec => []AttributesAreStored` |
| `SettledPageIsConsistentAlways` | `Spec => []SettledPageIsConsistent`, of `SearchPage` |
| `BookedAsConfirmedAlways` | `Spec => []BookedAsConfirmed`, of `SearchPage` |

### Rules

The properties of `MCRules` are about one request at one moment; the module
walks through all of them.  All the proofs need of a behaviour is that its times
are naturals (`Times`), so they hold of every request, clock and user, for
calendars, zones and settings of any size; the instance of TLC has days of eight
minutes.

Go's rounding is the difficulty.  `Quotient`, `QuotientBounds`,
`QuotientMonotone` and `ShiftedQuotient` say of `\div` what the proofs need, with
no product of two variables left to the solver; `TruncatedMonotone` adds that
truncation towards zero keeps the order across the change of sign.
`AheadOfMidnight` is why the page may offer one day too many and no more: what
lies so many days ahead of now lies at most one day more ahead of midnight.

`AcceptedIsWithinBounds` and `OfferedMeansAccepted` speak of hourly bookings: in
daily-basis mode the code looks for whole days and returns before it looks at the
longest duration, so neither holds as stated.  That is what their hypothesis says.

### Booking

`Booking`'s `TypeOK` is not inductive: that the row to be inserted is a row needs that a
busy handler has a job, and that what it inserts has no id yet.  `TypeInv` adds
these (`JobsFit`).  The products of `SeriesEnter` and `SeriesLeave` are treated
in lemmas of their own (`Product`, `DivMod`), with everything else hidden.

`DoubleBookingIsARace` is not inductive either: a handler about to write must
still be free of conflicts unless it is overtaken.  `RaceInv` adds `ChecksHold`,
which says so.  Its proof has three kinds of steps: those that leave bookings
alone (`QuietStep`), the checked writes (`CheckedWrite`: the row conflicts with
none, and every other handler about to write becomes overtaken), and
write-backs, which move a booking (and mark it late) or change its event id
only.  It rests on `ConflictSymmetric`: `InConflict` does not care which of two
ranges is the stored one.

With one handler nobody is overtaken, and without calendar users there is no
write-back (`NothingLate`): no double booking is left.

The limits count rows, but a handler past a check will add one more, or move one
into the range.  A count of rows alone is not inductive; three invariants count
rows and promises together:

- `SeatsInv`, of the capacity of a location: the rows that run at a minute, those
  an update past the check will make run then (`Claimed`), and the insertions past
  the check (`Adding`) are at most capacity plus handlers less one.  Rows and
  updates are counted as one set of ids: an update moves a row that may be counted
  already.  Passing the check needs fewer rows than the capacity, and each of the
  other handlers adds one at most; writing turns a promise into a row.
- `HoldingInv`, the same of a user's bookings at one time, and `AheadInv` of those
  ahead.  They need `UsersInv`: a request is about its own user's bookings.

Their hypotheses are what the limits need.  A write-back of a calendar goroutine
moves a booking with no check.  An administrator of spaces moves bookings from one
user to another, and the code counts those of the administrator.  `NoneOver`, no
booking is over, is the condition the limit on bookings ahead has: an update,
which that limit is not asked of, may bring a booking that is over back.

The refinement: `Held`, the rows without their ids, is what `Reservations` holds.
`HeldInv` puts `NoDoubleBooking` and `SeatsInv`, for one handler, together into
what the abstract module demands of its next state; an insert, an update and a
delete are its three actions, and every other step, a crash included, a stutter
(`PromiseStep`).

`EventsExist` is about rows, but a row is read into handlers and goroutines and
written back from there.  `EventsInv` says of all copies (`Copies`) what the
property says of rows, and that a goroutine removes an event only when the booking
is gone or about to go (`RemovalsFit`).  It rests on `OwnersInv`: no two
bookings ever have the same event, in whatever copy.  A step is treated by showing
that what it copies was there before, with the same event or with none
(`AllDerived`).

`SeriesComplete` needs that the occurrences made so far stay (`SeriesInv`): with
one handler nobody else updates or deletes, and no goroutine yet has a row of the
series in hand, since it gets its task when the series ends.

### Accounts

`Accounts`'s `TypeOK` is inductive.  Every proof about it goes by two facts: an
arrival is a `Begin` with a request of the set `Fresh` (`ArriveBegins`), and a
statement moves its own handler only, to one of a few steps (`ServeKeeps`).

- `UserLimit` counts users, but two handlers may have found the same seat free,
  and `canCreateUser` drops the error of its count, which then reads as 0.
  `SeatInv` counts the handlers that found a seat as if they had taken it: finding
  one needs `GetCount < MaxUsers`, and there are `Cardinality(Handlers)` of them,
  or a failure, which adds one to the bound (`InsertersAppear`, `FaultsAdd`).  The
  bound is as low as it can be: `sessions` reaches `MaxUsers` and two, with two
  handlers and a failure.
- `ResetsOnce` speaks of a mail that has been used.  `ResetInv` says what is true
  of one before and after: its state goes back to a request that is over
  (`ResetsSettled`, so that nobody inserts it again), two handlers holding it have
  forked it (`ResetsAlone`), and once it has been used its state is either gone or
  in the hands of the one handler that is about to delete it (`ResetsUsed`).
- `BansLast` and `PasswordsAreChosen` follow from the types: a row changes by the
  `Update` of a handler or by the end of its ban (`RowsChange`), and `Update`
  writes the handler's copy.
- `SessionsNeedAnAccount` needs that a handler on its way to a token has a copy
  that was enabled and had the password (`SessionInv`).
- `OneCredentialPerLogin` is about credentials at rest.  `LoginInv` follows a login
  from request to request by its `root`: unless it was forked, one handler at most
  works on it (`LoginsAlone`), that handler holds every credential there is
  (`LoginsHeld`), and there are two only while one replaces the other
  (`LoginsReplaced`).  That a new credential takes nobody's place needs that its
  number is free (`Replacements`) and that a login begun now is nobody's
  (`Rooted`).
- `ThresholdMeansBan`: once failures are as many as the threshold (`Overdue`), a
  handler that counts them is on its way until the ban is written (`BanInv`,
  `Banning`).  It counts at least those the property counts: its mark is not after
  the last success (`Marks`), and attempts and the last success only grow.
  Somebody else's write may take the ban back, and then pardons the account.  The
  threshold 0 is excluded since it bans nobody who has not tried to log in; the
  default is 10.
- `LifeIsInherited` is checked by no run.  The server keeps no flag: it takes a
  token to be a long one when it lives longer than the threshold.  `LifeInv` says
  that this recognizes what the login asked for (`Lives`), and that a refresh has
  read it from a token nobody inserts again and writes it into the next
  (`Inherits`, `Settled`).

The attempt to prove `ThresholdMeansBan` with a history of pardoned e-mail
addresses failed, for a good reason.  A handler that still has the row of a
deleted account fails once more, after another account with the same address was
banned and pardoned: its attempt belongs to the old account, but ended the pardon
of the new one.  The runs had too few requests to reach this.  The history is one
of accounts now, and `KnownIds` says what that rests on: no id in a table or a
hand will be given to an account yet to be created.

### AjaxClient

The proofs come in layers, each of which uses the ones before.

- Types, and that only a request with a refresh token waits or refreshes.
- The mutex: `OneRefreshPerPage` and `NobodyWaitsInVain` are inductive together.
  What the two operators do is said once, in lemmas about any requests (`Asked`,
  `Released`), so that an action only has to say which requests are left.
- Logout (`LogoutIsFinal`): a tab that has logged out with nothing pending has no
  request that holds a refresh token; nothing that comes later can store one.
  Storage: the two parts of `StoredOnRequest` are inductive given the types.
- Tokens (`TokensInv`).  `RefusedForAReason` speaks of the moment of a refusal;
  the invariant speaks of all tokens a tab may still send (`Excused`): each is good,
  spoiled, used by another tab, or being exchanged by this very tab.  For that,
  the successor of a token must be known to nobody while it is on its way
  (`Secret`), and no token before it is issued (`Bounded`).  Most steps hand no
  token on and need only that (`Calm`).

### Search page

A property of a page at rest says nothing of the many states in which chains of
requests are on their way.  While no two overlap there is at most one; the
invariant says of every point of every chain what it has still to ask for, or has
asked for already (`OnItsWay`), so that the page it leaves behind is the form's
(`Settled`).  One lemma per answer shows that its chain goes on or ends so; inputs
start a chain when there is none, or leave the form alone.  `BookedAsConfirmed`
adds that, under an open confirmation, what is selected stays what was offered
(`ItemOffered`): whatever might change area or dates is covered by the dialog, or
sets an excuse (`Asked`).

The proof attempts found two states that the runs, with the bounds they had, had
not reached: a load nobody catches frees the overlay over the old list (`failed`),
and a space can be selected from the old list while the dates do not allow a
search (`moved`).  They are excuses now, and within the bounds of `search`.

### Pages

- `CreatedOnce` needs that at most one POST is pending and, once a booking has
  been made, the page knows its id or that POST is the one (`SavesInv`).
- `SentAsShown` goes by the numbers of the requests for lists: unless one has
  failed or was overtaken, the list with the highest number is there or on its
  way, and is for the area of the form (`Listed`); the space chosen is one of that
  area (`Chosen`).  The attempt to prove it without the excuse of a failed list
  failed at a state the runs do not reach with one failure and fewer inputs: a
  list that never comes leaves the form with the space of another area.
- `CalendarIsOfItsAccount` is about two entries the server stores one after the
  other; the invariant says, of every moment in between, that with the rest of
  the list account and calendar will agree (`Fits`), and that the form offers
  calendars of the account it shows (`Offered`).
- `SpacesAreForTheForm` needs, besides, that every change of the dates asks for a
  new list, and that those the page makes while it loads come before any was
  asked for (`TimesInv`).  Its proof found the one change that does not, the
  rounding at Save, which the runs reached only once a booking by the hour in a
  daily organization was among their openings (`rounded`).
- `DomainsShownAreStored` goes by the numbers of the lists, too: the domains have
  not changed since the highest was asked for (`DomainsInv`).
- `NothingToDiscardIsStored`, of the area editor, relates the spaces drawn to those
  of the server, which the page knows by id only if it has loaded them.
  `SpacesInv` says how they fit (`Fit`) at every moment: what is drawn with an id is
  on the server under that id and nowhere else, what was created by a save and has
  no id on the page is there under an id nobody has (`Created`), what is on the
  server and not drawn is to be deleted, and contents agree where nothing is
  changed.  The bulk update, which carries out three kinds of operations at once,
  is the step that makes all of it true again.
- `AttributesAreStored` is about requests sent all at once and answered in any
  order.  `AttributesInv` says of the pending ones that each carries the value
  shown, and of the attributes without one that they agree.
- `AlertIsTrue` and `SavedIsStored` say of every moment of a save how much of the
  list is left and what the server has by then (`Sending`, `Left`).

The invariants of the pages are carried over to `Pages` (`PagesInv`): the page
that is visited keeps its own, the others rest as they were mounted, and no step
changes the page (`SamePage`).

### Model-checked only

Every invariant and every action property of a passing run is proved, most for
all instances, the others under the hypotheses above, which are those of the run
that checks them or weaker.  What is left to TLC:

- Liveness: `Answered`, `BansEnd`, `ExpiredCredentialsVanish`, `VerificationEnds`,
  `LoadingEnds` and `EveryWaitEnds`.  It depends on fairness, which is out of the
  prover's reach.
- The three violated properties, which are about single behaviours.

`SamplesSeeEveryPeak` has two rows and limits up to three, as a property a run can
evaluate; `SamplingSeesEveryPeak` is for any.

## Not modelled

The components marked `not_modelled` in `PROJECT.json`, for the reasons given
there: access control, a stateless check of a signed token; buddies, search and
statistics, single statements over one table; Confluence logins and the merge of
guests, which need bookings and accounts in one model; the subscription; mail,
the update check and the UI proxy, which are I/O; and the other pages, which load
one record and save it, or render what they read.

Of the parts that are modelled, left out: the read-only handlers of the booking
component; sign-up and its confirmation, and the deletion of organizations and
users table by table (each statement stands alone, and only what is orphaned
could be said of it); the deletion of areas and spaces that leaves bookings
behind; the merge of two users; two organizations verifying one domain;
suggestions of users in the booking editor; the list of auth providers on the
settings page and `manageSubscription`, which nothing there calls.

## Plan

Done, in this order: `Booking`, `Accounts`, `AjaxClient`, `SearchPage`, the pages with
forms.  Left, by what it would add:

1. Proofs: the limits of a user where administrators book for others but move no
   booking from one user to another.
2. **Organizations**: sign-up and confirmation, domains of two organizations and
   their verification, deletion table by table, with failures and crashes.
   Properties: a verified domain belongs to one organization; an organization
   always has an administrator; a retry after a failure completes.
3. **Catalog**: deletion of users and purge of guests; spaces and locations and the
   bookings that refer to them; composed with Booking's table.
4. An abstract session, open until it expires or is given up, that `AjaxClient`
   and `Accounts` together implement.
