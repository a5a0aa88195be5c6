-------------------------- MODULE PreferencesPage ---------------------------
(***************************************************************************)
(* The page on which a user sets preferences, colours, a password and the  *)
(* calendar bookings are mirrored to (booking-ui/src/pages/preferences.tsx *)
(* ), and the preferences the server keeps.                                *)
(*                                                                         *)
(* The working hours and the preferred area are one value, the colours     *)
(* another; what is typed is a stamp, the inputs left of the visit.  The   *)
(* address, user and password of a calendar server are one account; a      *)
(* calendar is named by the account it was listed for.  The tabs only hide *)
(* forms the user is one click away from.                                  *)
(***************************************************************************)
EXTENDS Page, Sequences

CONSTANTS
  Accounts,
  NoAccount,     \* the empty address, user and password; or no calendar
  EmptyField     \* a number field the user has emptied

ASSUME PreferencesAssumption == NoAccount \notin Accounts /\ EmptyField \notin Nat

VARIABLES
  preferenceLoads, \* the requests of componentDidMount, by what became of them
  hours, colours, password,
  caldavAccount, caldavCalendar, caldavCalendars, caldavCalendarsLoaded, caldavError,
  listings,      \* pending requests of connectCalDav
  preferenceSaves, \* pending lists of preferences
  passwordSaves, \* pending passwords
  sentEntries,   \* the list sent last
  \* The server.
  serverPreferences, serverPassword,
  \* History variables.
  overlapped,    \* a form was sent while a request of another was pending
  listedLate,    \* calendars came after the account they are of had been changed
  cutShort       \* the server stored a part of a list only

typedFields == <<hours, colours, password>>
calendar == <<caldavAccount, caldavCalendar, caldavCalendars, caldavCalendarsLoaded>>
pendingForms == <<listings, preferenceSaves, passwordSaves>>
stores == <<serverPreferences, serverPassword, cutShort>>
preferencesPage ==
  <<preferenceLoads, typedFields, calendar, caldavError, pendingForms, sentEntries, stores,
    overlapped, listedLate>>
preferencesVars == <<shell, preferencesPage>>

PutAll == INSTANCE SetAll WITH stored <- serverPreferences, requests <- preferenceSaves,
                               Refused <- {EmptyField}

Pending == listings # {} \/ preferenceSaves # {} \/ passwordSaves # {}
Entry(name, value) == [name |-> name, value |-> value]

----------------------------------------------------------------------------
PreferencesInit ==
  /\ preferenceLoads = [l \in {"preferences", "locations"} |-> "pending"]
  /\ hours = 0 /\ colours = 0 /\ password = 0
  /\ caldavAccount = NoAccount /\ caldavCalendar = NoAccount
  /\ caldavCalendars = NoAccount /\ caldavCalendarsLoaded = FALSE /\ caldavError = FALSE
  /\ listings = {} /\ preferenceSaves = {} /\ passwordSaves = {} /\ sentEntries = <<>>
  /\ \E account \in Accounts \cup {NoAccount} :
       serverPreferences =
         [hours |-> 0, colours |-> 0, caldav_account |-> account, caldav_path |-> account]
  /\ serverPassword = 0
  /\ overlapped = FALSE /\ listedLate = FALSE /\ cutShort = FALSE

----------------------------------------------------------------------------
(* Mutants.                                                                *)

StillLoaded == caldavCalendarsLoaded

----------------------------------------------------------------------------
(* componentDidMount.                                                      *)

PreferencesLoaded(l) ==
  /\ preferenceLoads[l] = "pending" /\ preferenceLoads' = [preferenceLoads EXCEPT ![l] = "done"]
  /\ loading' = \E other \in DOMAIN preferenceLoads : preferenceLoads'[other] # "done"
  /\ IF l = "preferences"
       THEN /\ hours' = serverPreferences.hours /\ colours' = serverPreferences.colours
            /\ caldavAccount' = serverPreferences.caldav_account
            /\ caldavCalendar' = serverPreferences.caldav_path
       ELSE UNCHANGED <<hours, colours, caldavAccount, caldavCalendar>>
  /\ UNCHANGED <<visit, submitting, saved, error, goBack, uncaught, password, caldavCalendars,
                 caldavCalendarsLoaded, caldavError, pendingForms, sentEntries, stores,
                 overlapped, listedLate>>

PreferencesNotLoaded(l) ==
  /\ Failure /\ Unheard
  /\ preferenceLoads[l] = "pending"
  /\ preferenceLoads' = [preferenceLoads EXCEPT ![l] = "failed"]
  /\ UNCHANGED <<typedFields, calendar, caldavError, pendingForms, sentEntries, stores,
                 overlapped, listedLate>>

----------------------------------------------------------------------------
(* The fields.                                                             *)

TypeHours(value) ==
  /\ Shown /\ Input("hours") /\ hours' = value
  /\ UNCHANGED <<display, preferenceLoads, colours, password, calendar, caldavError, pendingForms,
                 sentEntries, stores, overlapped, listedLate>>

\* A colour is chosen, or all of them are reset.
ChooseColours ==
  /\ Shown /\ Input("colours") /\ colours' = visit.count
  /\ UNCHANGED <<display, preferenceLoads, hours, password, calendar, caldavError, pendingForms,
                 sentEntries, stores, overlapped, listedLate>>

TypePassword ==
  /\ Shown /\ Input("password") /\ password' = visit.count
  /\ UNCHANGED <<display, preferenceLoads, hours, colours, calendar, caldavError, pendingForms,
                 sentEntries, stores, overlapped, listedLate>>

\* A change of the account asks for a new list of its calendars.
LoadedAfterEdit == FALSE

TypeAccount(account) ==
  /\ Shown /\ Input("account") /\ account # caldavAccount
  /\ caldavAccount' = account /\ caldavCalendarsLoaded' = LoadedAfterEdit
  /\ UNCHANGED <<display, preferenceLoads, typedFields, caldavCalendar, caldavCalendars,
                 caldavError, pendingForms, sentEntries, stores, overlapped, listedLate>>

----------------------------------------------------------------------------
(* The forms.  All but that of the colours are disabled while one of them  *)
(* is submitting; but the first answer ends the submission of all.         *)

Submit(kind) ==
  /\ Shown /\ Input(kind)
  /\ submitting' = TRUE /\ saved' = FALSE /\ error' = FALSE /\ caldavError' = FALSE
  /\ overlapped' = (overlapped \/ Pending)
  /\ UNCHANGED <<loading, goBack, uncaught, preferenceLoads, typedFields, caldavAccount,
                 caldavCalendar, caldavCalendars, stores, listedLate>>

SendEntries(from, entries) ==
  /\ PutAll!Send(visit.count, from, entries) /\ sentEntries' = entries
  /\ UNCHANGED <<listings, passwordSaves>>

onSubmit ==
  /\ ~submitting /\ Submit("save")
  /\ SendEntries("onSubmit", <<Entry("hours", hours)>>) /\ UNCHANGED caldavCalendarsLoaded

onSubmitColors ==
  /\ Submit("saveColours")
  /\ SendEntries("onSubmitColors", <<Entry("colours", colours)>>)
  /\ UNCHANGED caldavCalendarsLoaded

\* Only when the password is to be changed, and to one that is long enough.
onSubmitSecurity ==
  /\ ~submitting /\ password # 0 /\ Submit("savePassword")
  /\ passwordSaves' = passwordSaves \cup {[n |-> visit.count, value |-> password]}
  /\ sentEntries' = <<>>
  /\ UNCHANGED <<listings, preferenceSaves, caldavCalendarsLoaded>>

connectCalDav ==
  /\ ~submitting /\ caldavAccount # NoAccount /\ Submit("connect")
  /\ caldavCalendarsLoaded' = FALSE
  /\ listings' = listings \cup {[n |-> visit.count, account |-> caldavAccount]}
  /\ UNCHANGED <<preferenceSaves, passwordSaves, sentEntries>>

Disconnected == <<Entry("caldav_account", NoAccount), Entry("caldav_path", NoAccount)>>

disconnectCalDav ==
  /\ ~submitting /\ caldavAccount # NoAccount /\ caldavCalendar # NoAccount
  /\ Submit("disconnect") /\ caldavCalendarsLoaded' = FALSE
  /\ SendEntries("disconnectCalDav", Disconnected)

saveCaldavSettings ==
  /\ ~submitting /\ caldavCalendarsLoaded /\ caldavCalendar # NoAccount /\ Submit("saveCalendar")
  /\ SendEntries("saveCaldavSettings", <<Entry("caldav_account", caldavAccount),
                                         Entry("caldav_path", caldavCalendar)>>)
  /\ UNCHANGED caldavCalendarsLoaded

----------------------------------------------------------------------------
(* Their answers.                                                          *)

answerless == <<visit, loading, goBack, uncaught, preferenceLoads, typedFields, overlapped>>

\* The calendars of the account as it was when they were asked for: the first
\* one is chosen, if there is one.
CalendarsListed(r) ==
  /\ r \in listings /\ listings' = listings \ {r} /\ submitting' = FALSE
  /\ caldavCalendarsLoaded' = TRUE /\ caldavCalendars' \in {r.account, NoAccount}
  /\ caldavCalendar' = caldavCalendars'
  /\ listedLate' = (listedLate \/ r.account # caldavAccount)
  /\ UNCHANGED <<answerless, saved, error, caldavAccount, caldavError, preferenceSaves,
                 passwordSaves, sentEntries, stores>>

CalendarsNotListed(r) ==
  /\ Failure /\ r \in listings /\ listings' = listings \ {r}
  /\ submitting' = FALSE /\ caldavError' = TRUE
  /\ UNCHANGED <<loading, goBack, uncaught, preferenceLoads, typedFields, overlapped, saved, error,
                 calendar, preferenceSaves, passwordSaves, sentEntries, stores, listedLate>>

EntryStored(r) ==
  /\ PutAll!Stored(r)
  /\ UNCHANGED <<shell, preferenceLoads, typedFields, calendar, caldavError, listings,
                 passwordSaves, sentEntries, serverPassword, cutShort, overlapped, listedLate>>

\* An empty field is no number; or the database fails.
EntryRefused(r) ==
  /\ PutAll!NotStored(r) /\ Head(r.left).value = EmptyField
  /\ UNCHANGED <<shell, preferenceLoads, typedFields, calendar, caldavError, listings,
                 passwordSaves, sentEntries, serverPassword, cutShort, overlapped, listedLate>>

EntryNotStored(r) ==
  /\ Failure /\ PutAll!NotStored(r) /\ cutShort' = TRUE
  /\ UNCHANGED <<display, preferenceLoads, typedFields, calendar, caldavError, listings,
                 passwordSaves, sentEntries, serverPassword, overlapped, listedLate>>

\* Disconnecting empties the fields, whatever the user has typed meanwhile.
EntriesAnswered(r) ==
  /\ PutAll!Answered(r) /\ submitting' = FALSE
  /\ saved' = (saved \/ r.ok) /\ error' = (error \/ ~r.ok)
  /\ IF r.from = "disconnectCalDav" /\ r.ok
       THEN /\ caldavAccount' = NoAccount /\ caldavCalendar' = NoAccount
            /\ caldavCalendars' = NoAccount
       ELSE UNCHANGED <<caldavAccount, caldavCalendar, caldavCalendars>>
  /\ UNCHANGED <<answerless, caldavCalendarsLoaded, caldavError, listings, passwordSaves,
                 sentEntries, serverPassword, cutShort, listedLate>>

PasswordSet(r) ==
  /\ r \in passwordSaves /\ passwordSaves' = passwordSaves \ {r}
  /\ serverPassword' = r.value /\ submitting' = FALSE /\ saved' = TRUE
  /\ UNCHANGED <<answerless, error, calendar, caldavError, listings, preferenceSaves, sentEntries,
                 serverPreferences, cutShort, listedLate>>

\* Nobody catches it: the forms stay disabled.
PasswordNotSet(r) ==
  /\ Failure /\ Unheard /\ r \in passwordSaves /\ passwordSaves' = passwordSaves \ {r}
  /\ UNCHANGED <<preferenceLoads, typedFields, calendar, caldavError, listings, preferenceSaves,
                 sentEntries, stores, overlapped, listedLate>>

----------------------------------------------------------------------------
PreferencesAnswers ==
  \/ \E l \in DOMAIN preferenceLoads : PreferencesLoaded(l)
  \/ \E r \in listings : CalendarsListed(r)
  \/ \E r \in preferenceSaves : EntryStored(r) \/ EntryRefused(r) \/ EntriesAnswered(r)
  \/ \E r \in passwordSaves : PasswordSet(r)

PreferencesFailures ==
  \/ \E l \in DOMAIN preferenceLoads : PreferencesNotLoaded(l)
  \/ \E r \in listings : CalendarsNotListed(r)
  \/ \E r \in preferenceSaves : EntryNotStored(r)
  \/ \E r \in passwordSaves : PasswordNotSet(r)

PreferencesInputs ==
  \/ \E value \in {visit.count, EmptyField} : TypeHours(value)
  \/ ChooseColours \/ TypePassword
  \/ \E account \in Accounts \cup {NoAccount} : TypeAccount(account)
  \/ onSubmit \/ onSubmitColors \/ onSubmitSecurity
  \/ connectCalDav \/ disconnectCalDav \/ saveCaldavSettings

PreferencesNext == PreferencesAnswers \/ PreferencesFailures \/ PreferencesInputs
PreferencesSpec ==
  VisitInit /\ ShellInit /\ PreferencesInit /\ [][PreferencesNext]_preferencesVars

----------------------------------------------------------------------------
PreferencesTypeOK ==
  /\ preferenceLoads \in [{"preferences", "locations"} -> {"pending", "done", "failed"}]
  /\ hours \in Nat \cup {EmptyField} /\ colours \in Nat /\ password \in Nat
  /\ {caldavAccount, caldavCalendar, caldavCalendars} \subseteq Accounts \cup {NoAccount}
  /\ {caldavCalendarsLoaded, caldavError, overlapped, listedLate, cutShort} \subseteq BOOLEAN
  /\ listings \subseteq [n : Nat, account : Accounts]
  /\ passwordSaves \subseteq [n : Nat, value : Nat]
  /\ serverPassword \in Nat
  /\ DOMAIN serverPreferences = {"hours", "colours", "caldav_account", "caldav_path"}

\* The calendar stored, to which the server mirrors the user's bookings, is one
\* of the account stored with it; unless the account was changed while its
\* calendars were on their way, another form was sent while one was pending
\* (that of the colours can be, and frees the others), or a list was stored in
\* part only.
CalendarIsOfItsAccount ==
  (preferenceSaves = {} /\ ~listedLate /\ ~overlapped /\ ~cutShort)
    => serverPreferences.caldav_path = serverPreferences.caldav_account

\* When the page says "Entry updated." the server has all entries of the form
\* sent last, or the password; unless a form was sent while another was pending.
SavedIsStored ==
  (saved /\ ~Pending /\ ~overlapped) =>
    \A i \in DOMAIN sentEntries : serverPreferences[sentEntries[i].name] = sentEntries[i].value
=============================================================================
