------------------------ MODULE PreferencesPage_proofs ------------------------
(***************************************************************************)
(* Proofs about the preferences page, for any accounts, inputs and         *)
(* failures: the calendar that is stored is one of the account stored with *)
(* it, and what is said to be saved is stored.  The entries of a list are  *)
(* stored one after the other; so the invariants say, of every moment in   *)
(* between, what the rest of the list will make of it (Fits, Left), and    *)
(* that the form only offers calendars of the account it shows (Offered).  *)
(***************************************************************************)
EXTENDS PreferencesPage, TLAPS

\* What the excuses of the property have in common.
Orderly == ~listedLate /\ ~overlapped /\ ~cutShort

Names == {"hours", "colours", "caldav_account", "caldav_path"}
Agree == serverPreferences["caldav_path"] = serverPreferences["caldav_account"]
CalendarEntries(account) == <<Entry("caldav_account", account), Entry("caldav_path", account)>>

\* With the rest of a list stored account and calendar will agree.
Fits(left) ==
  \/ left = <<>> /\ Agree
  \/ Agree /\ \E name \in {"hours", "colours"} : \E value : left = <<Entry(name, value)>>
  \/ Agree /\ \E account : left = CalendarEntries(account)
  \/ /\ left = <<Entry("caldav_path", serverPreferences["caldav_account"])>>
     /\ serverPreferences["caldav_account"] # EmptyField

ServerFits ==
  /\ DOMAIN serverPreferences = Names
  /\ Orderly =>
       /\ \A r1, r2 \in preferenceSaves : r1 = r2
       /\ preferenceSaves = {} => Agree
       /\ \A r \in preferenceSaves : "left" \in DOMAIN r /\ Fits(r.left)

\* A form that has a list of calendars has chosen one of its account, or none;
\* before the preferences are loaded there is no list.
Offered ==
  /\ Orderly /\ caldavCalendarsLoaded => caldavCalendar \in {caldavAccount, NoAccount}
  /\ preferenceLoads["preferences"] = "pending"
       => loading /\ ~caldavCalendarsLoaded /\ listings = {}
  /\ preferenceLoads \in [{"preferences", "locations"} -> {"pending", "done", "failed"}]

CalendarInv == ServerFits /\ Offered
----------------------------------------------------------------------------
LEMMA Lists ==
  ASSUME NEW x, NEW y
  PROVE  /\ <<x>> # <<>> /\ Head(<<x>>) = x /\ Tail(<<x>>) = <<>>
         /\ <<x, y>> # <<>> /\ Head(<<x, y>>) = x /\ Tail(<<x, y>>) = <<y>>
OBVIOUS

LEMMA EntryParts ==
  ASSUME NEW name, NEW value
  PROVE  Entry(name, value).name = name /\ Entry(name, value).value = value
BY DEF Entry

\* Storing the first entry of a list that fits leaves a list that fits.
LEMMA FitsStep ==
  ASSUME NEW left, Fits(left), left # <<>>, DOMAIN serverPreferences = Names,
         Head(left).value # EmptyField,
         serverPreferences' = [serverPreferences EXCEPT ![Head(left).name] = Head(left).value]
  PROVE  Fits(Tail(left))'
<1>1. CASE Agree /\ \E name \in {"hours", "colours"} : \E value : left = <<Entry(name, value)>>
  <2>1. PICK name \in {"hours", "colours"} : \E value : left = <<Entry(name, value)>>
    BY <1>1
  <2>2. Head(left).name = name /\ Tail(left) = <<>>
    BY <2>1, Lists, EntryParts
  <2>3. /\ serverPreferences'["caldav_path"] = serverPreferences["caldav_path"]
        /\ serverPreferences'["caldav_account"] = serverPreferences["caldav_account"]
    BY <2>1, <2>2 DEF Names
  <2>4. QED
    BY <1>1, <2>2, <2>3 DEF Fits, Agree
<1>2. CASE Agree /\ \E account : left = CalendarEntries(account)
  <2>1. PICK account : left = CalendarEntries(account)
    BY <1>2
  <2>2. /\ Head(left).name = "caldav_account" /\ Head(left).value = account
        /\ Tail(left) = <<Entry("caldav_path", account)>>
    BY <2>1, Lists, EntryParts DEF CalendarEntries
  <2>3. serverPreferences'["caldav_account"] = account
    BY <2>2 DEF Names
  <2>4. QED
    BY <2>2, <2>3 DEF Fits
<1>3. CASE left = <<Entry("caldav_path", serverPreferences["caldav_account"])>>
  <2>1. /\ Head(left).name = "caldav_path" /\ Tail(left) = <<>>
        /\ Head(left).value = serverPreferences["caldav_account"]
    BY <1>3, Lists, EntryParts
  <2>2. /\ serverPreferences'["caldav_path"] = serverPreferences["caldav_account"]
        /\ serverPreferences'["caldav_account"] = serverPreferences["caldav_account"]
    BY <2>1 DEF Names
  <2>3. QED
    BY <2>1, <2>2 DEF Fits, Agree
<1>4. QED
  BY <1>1, <1>2, <1>3 DEF Fits

\* A list one of whose entries is no number leaves the account alone.
LEMMA FitsRefused ==
  ASSUME NEW left, Fits(left), left # <<>>, Head(left).value = EmptyField
  PROVE  Agree
<1>1. left # <<Entry("caldav_path", serverPreferences["caldav_account"])>>
        \/ serverPreferences["caldav_account"] = EmptyField
  BY Lists, EntryParts
<1>2. QED
  BY <1>1 DEF Fits

\* Steps that send no list and store nothing.
LEMMA SameServer ==
  ASSUME ServerFits, Orderly' => Orderly, UNCHANGED <<serverPreferences, preferenceSaves>>
  PROVE  ServerFits'
BY DEF ServerFits, Fits, Agree

\* A list is sent.
LEMMA SendFits ==
  ASSUME ServerFits, NEW kind, NEW from, NEW entries, Submit(kind), SendEntries(from, entries),
         Orderly' /\ Agree => Fits(entries)
  PROVE  ServerFits'
<1> DEFINE new == [n |-> visit.count, from |-> from, left |-> entries, ok |-> TRUE]
<1>1. preferenceSaves' = preferenceSaves \cup {new} /\ UNCHANGED serverPreferences
  BY DEF SendEntries, PutAll!Send, Submit, stores
<1>2. new.left = entries /\ "left" \in DOMAIN new
  OBVIOUS
<1> HIDE DEF new
<1>3. Orderly' => Orderly /\ preferenceSaves = {}
  BY DEF Orderly, Submit, Pending, stores
<1>4. Orderly' => Agree /\ Fits(entries)
  BY <1>3 DEF ServerFits
<1>5. Orderly' => Fits(entries)'
  BY <1>1, <1>4 DEF Fits, Agree
<1>6. QED
  BY <1>1, <1>2, <1>3, <1>5 DEF ServerFits

\* The steps of a list: an entry is stored or refused, or all are answered.
LEMMA StoredFits ==
  ASSUME ServerFits, NEW r \in preferenceSaves, EntryStored(r)
  PROVE  ServerFits'
<1> DEFINE rest == [r EXCEPT !.left = Tail(@)]
<1>1. /\ r.left # <<>> /\ Head(r.left).value # EmptyField
      /\ serverPreferences' = [serverPreferences EXCEPT ![Head(r.left).name] = Head(r.left).value]
      /\ preferenceSaves' = (preferenceSaves \ {r}) \cup {rest}
      /\ Orderly' = Orderly
  BY DEF EntryStored, PutAll!Stored, Orderly
<1>2. (DOMAIN serverPreferences = Names)'
  BY <1>1 DEF ServerFits
<1>3. ASSUME Orderly
      PROVE  preferenceSaves' = {rest} /\ "left" \in DOMAIN rest /\ Fits(rest.left)'
  <2>1. preferenceSaves = {r} /\ "left" \in DOMAIN r /\ Fits(r.left)
    BY <1>3 DEF ServerFits
  <2>2. rest.left = Tail(r.left) /\ "left" \in DOMAIN rest
    BY <2>1
  <2>3. Fits(Tail(r.left))'
    BY <1>1, <2>1, FitsStep DEF ServerFits
  <2>4. preferenceSaves' = {rest}
    BY <1>1, <2>1
  <2>5. Fits(rest.left)'
    BY <2>2, <2>3 DEF Fits, Agree
  <2>6. QED
    BY <2>2, <2>4, <2>5
<1> HIDE DEF rest
<1>4. QED
  BY <1>1, <1>2, <1>3 DEF ServerFits

LEMMA RefusedFits ==
  ASSUME ServerFits, NEW r \in preferenceSaves, EntryRefused(r)
  PROVE  ServerFits'
<1> DEFINE rest == [r EXCEPT !.left = <<>>, !.ok = FALSE]
<1>1. /\ r.left # <<>> /\ Head(r.left).value = EmptyField
      /\ serverPreferences' = serverPreferences
      /\ preferenceSaves' = (preferenceSaves \ {r}) \cup {rest}
      /\ Orderly' = Orderly
  BY DEF EntryRefused, PutAll!NotStored, Orderly
<1>2. ASSUME Orderly
      PROVE  preferenceSaves' = {rest} /\ "left" \in DOMAIN rest /\ rest.left = <<>> /\ Agree
  <2>1. preferenceSaves = {r} /\ "left" \in DOMAIN r /\ Fits(r.left)
    BY <1>2 DEF ServerFits
  <2>2. Agree
    BY <1>1, <2>1, FitsRefused
  <2>3. QED
    BY <1>1, <2>1, <2>2
<1> HIDE DEF rest
<1>3. ASSUME Orderly  PROVE Agree' /\ Fits(rest.left)'
  BY <1>1, <1>2, <1>3 DEF Fits, Agree
<1>4. QED
  BY <1>1, <1>2, <1>3 DEF ServerFits

LEMMA AnsweredFits ==
  ASSUME ServerFits, NEW r \in preferenceSaves, EntriesAnswered(r)
  PROVE  ServerFits'
<1>1. /\ r.left = <<>> /\ serverPreferences' = serverPreferences
      /\ preferenceSaves' = preferenceSaves \ {r} /\ Orderly' = Orderly
  BY DEF EntriesAnswered, PutAll!Answered, Orderly, answerless
<1>2. ASSUME Orderly  PROVE preferenceSaves' = {} /\ Agree
  <2>1. preferenceSaves = {r} /\ Fits(r.left)
    BY <1>2 DEF ServerFits
  <2>2. \A x, y : <<>> # <<x>> /\ <<>> # <<x, y>>
    BY Lists
  <2>3. Agree
    BY <1>1, <2>1, <2>2 DEF Fits, CalendarEntries
  <2>4. QED
    BY <1>1, <2>1, <2>3
<1>3. Agree => Agree'
  BY <1>1 DEF Agree
<1>4. QED
  BY <1>1, <1>2, <1>3 DEF ServerFits

\* When only a part of a list is stored the property is excused.
LEMMA NotStoredFits ==
  ASSUME ServerFits, NEW r \in preferenceSaves, EntryNotStored(r)
  PROVE  ServerFits'
<1>1. ~Orderly' /\ serverPreferences' = serverPreferences
  BY DEF EntryNotStored, PutAll!NotStored, Orderly
<1>2. QED
  BY <1>1 DEF ServerFits
----------------------------------------------------------------------------
LEMMA StepServer == CalendarInv /\ [PreferencesNext]_preferencesVars => ServerFits'
<1> SUFFICES ASSUME CalendarInv, [PreferencesNext]_preferencesVars
             PROVE  ServerFits'
  OBVIOUS
<1>0. ServerFits
  BY DEF CalendarInv
<1>1. ASSUME NEW l \in DOMAIN preferenceLoads, PreferencesLoaded(l)
      PROVE  ServerFits'
  BY <1>0, <1>1, SameServer DEF PreferencesLoaded, Orderly, pendingForms, stores
<1>2. ASSUME NEW l \in DOMAIN preferenceLoads, PreferencesNotLoaded(l)
      PROVE  ServerFits'
  BY <1>0, <1>2, SameServer DEF PreferencesNotLoaded, Orderly, pendingForms, stores
<1>3. ASSUME NEW r \in listings, CalendarsListed(r)
      PROVE  ServerFits'
  BY <1>0, <1>3, SameServer DEF CalendarsListed, Orderly, answerless, stores
<1>4. ASSUME NEW r \in listings, CalendarsNotListed(r)
      PROVE  ServerFits'
  BY <1>0, <1>4, SameServer DEF CalendarsNotListed, Orderly, stores
<1>5. ASSUME NEW r \in preferenceSaves,
             EntryStored(r) \/ EntryRefused(r) \/ EntriesAnswered(r) \/ EntryNotStored(r)
      PROVE  ServerFits'
  BY <1>0, <1>5, StoredFits, RefusedFits, AnsweredFits, NotStoredFits
<1>6. ASSUME NEW r \in passwordSaves, PasswordSet(r) \/ PasswordNotSet(r)
      PROVE  ServerFits'
  BY <1>0, <1>6, SameServer DEF PasswordSet, PasswordNotSet, Orderly, answerless, stores
<1>7. ASSUME NEW value, TypeHours(value)
      PROVE  ServerFits'
  BY <1>0, <1>7, SameServer DEF TypeHours, Orderly, pendingForms, stores
<1>8. ASSUME ChooseColours \/ TypePassword
      PROVE  ServerFits'
  BY <1>0, <1>8, SameServer DEF ChooseColours, TypePassword, Orderly, pendingForms, stores
<1>9. ASSUME NEW account, TypeAccount(account)
      PROVE  ServerFits'
  BY <1>0, <1>9, SameServer DEF TypeAccount, Orderly, pendingForms, stores
<1>10. CASE onSubmit
  <2>1. Agree => Fits(<<Entry("hours", hours)>>)
    BY DEF Fits
  <2>2. QED
    BY <1>0, <1>10, <2>1, SendFits DEF onSubmit
<1>11. CASE onSubmitColors
  <2>1. Agree => Fits(<<Entry("colours", colours)>>)
    BY DEF Fits
  <2>2. QED
    BY <1>0, <1>11, <2>1, SendFits DEF onSubmitColors
<1>12. CASE onSubmitSecurity \/ connectCalDav
  <2>1. PICK kind : Submit(kind)
    BY <1>12 DEF onSubmitSecurity, connectCalDav
  <2>2. (Orderly' => Orderly) /\ UNCHANGED serverPreferences
    BY <2>1 DEF Submit, stores, Orderly
  <2>3. UNCHANGED preferenceSaves
    BY <1>12 DEF onSubmitSecurity, connectCalDav
  <2>4. QED
    BY <1>0, <2>2, <2>3, SameServer
<1>13. CASE disconnectCalDav
  <2>1. Agree => Fits(Disconnected)
    BY DEF Fits, Disconnected, CalendarEntries
  <2>2. QED
    BY <1>0, <1>13, <2>1, SendFits DEF disconnectCalDav
<1>14. CASE saveCaldavSettings
  <2> DEFINE entries == <<Entry("caldav_account", caldavAccount),
                          Entry("caldav_path", caldavCalendar)>>
  <2>1. Submit("saveCalendar") /\ SendEntries("saveCaldavSettings", entries)
    BY <1>14 DEF saveCaldavSettings
  <2>2. Orderly' => Orderly
    BY <2>1 DEF Orderly, Submit, stores
  <2>3. Orderly' => entries = CalendarEntries(caldavAccount)
    BY <1>14, <2>2 DEF CalendarInv, Offered, saveCaldavSettings, CalendarEntries
  <2>4. Orderly' /\ Agree => Fits(entries)
    BY <2>3 DEF Fits
  <2> HIDE DEF entries
  <2>5. QED
    BY <1>0, <2>1, <2>4, SendFits
<1>15. CASE UNCHANGED preferencesVars
  BY <1>0, <1>15, SameServer
     DEF preferencesVars, preferencesPage, pendingForms, stores, Orderly
<1>16. QED
  BY <1>1, <1>2, <1>3, <1>4, <1>5, <1>6, <1>7, <1>8, <1>9, <1>10, <1>11, <1>12, <1>13, <1>14,
     <1>15
     DEF PreferencesNext, PreferencesAnswers, PreferencesFailures, PreferencesInputs
----------------------------------------------------------------------------
\* Steps that leave the calendar fields and what is listed or loaded alone.
Untouched ==
  Orderly' = Orderly /\ UNCHANGED <<calendar, loading, preferenceLoads, listings>>

LEMMA SameOffer ==
  ASSUME Offered, Orderly' => Orderly, UNCHANGED <<calendar, loading, preferenceLoads, listings>>
  PROVE  Offered'
BY DEF Offered, calendar

\* A form is only sent from a page that has loaded.
LEMMA SubmitLoaded ==
  ASSUME Offered, NEW kind, Submit(kind)
  PROVE  /\ preferenceLoads["preferences"] # "pending" /\ UNCHANGED preferenceLoads
         /\ UNCHANGED <<loading, caldavAccount, caldavCalendar>>
         /\ Orderly' => Orderly
BY DEF Offered, Submit, Shown, Orderly, stores

LEMMA StepOffered == CalendarInv /\ [PreferencesNext]_preferencesVars => Offered'
<1> SUFFICES ASSUME CalendarInv, [PreferencesNext]_preferencesVars
             PROVE  Offered'
  OBVIOUS
<1>0. Offered
  BY DEF CalendarInv
<1>1. ASSUME NEW l \in DOMAIN preferenceLoads, PreferencesLoaded(l)
      PROVE  Offered'
  <2>1. /\ preferenceLoads[l] = "pending"
        /\ preferenceLoads' = [preferenceLoads EXCEPT ![l] = "done"]
        /\ loading' = \E other \in DOMAIN preferenceLoads : preferenceLoads'[other] # "done"
        /\ l # "preferences" => UNCHANGED <<caldavAccount, caldavCalendar>>
        /\ UNCHANGED <<caldavCalendarsLoaded, listings>> /\ Orderly' = Orderly
    BY <1>1 DEF PreferencesLoaded, pendingForms, stores, Orderly
  <2>2. DOMAIN preferenceLoads = {"preferences", "locations"}
    BY <1>0 DEF Offered
  <2>3. preferenceLoads' \in [{"preferences", "locations"} -> {"pending", "done", "failed"}]
    BY <1>0, <2>1 DEF Offered
  <2>4. CASE l = "preferences"
    <3>1. preferenceLoads'["preferences"] = "done" /\ ~caldavCalendarsLoaded'
      BY <1>0, <2>1, <2>2, <2>4 DEF Offered
    <3>2. QED
      BY <2>3, <3>1 DEF Offered
  <2>5. CASE l # "preferences"
    <3>1. preferenceLoads'["preferences"] = preferenceLoads["preferences"]
      BY <2>1, <2>2, <2>5
    <3>2. preferenceLoads'["preferences"] = "pending" => loading'
      BY <2>1, <2>2, <3>1
    <3>3. QED
      BY <1>0, <2>1, <2>3, <2>5, <3>1, <3>2 DEF Offered
  <2>6. QED
    BY <2>4, <2>5
<1>2. ASSUME NEW l \in DOMAIN preferenceLoads, PreferencesNotLoaded(l)
      PROVE  Offered'
  <2>1. /\ preferenceLoads' = [preferenceLoads EXCEPT ![l] = "failed"]
        /\ UNCHANGED <<calendar, loading, listings>> /\ Orderly' = Orderly
    BY <1>2 DEF PreferencesNotLoaded, Unheard, pendingForms, stores, Orderly
  <2>2. /\ preferenceLoads' \in [{"preferences", "locations"} -> {"pending", "done", "failed"}]
        /\ preferenceLoads'["preferences"] = "pending" => preferenceLoads["preferences"] = "pending"
    BY <1>0, <2>1 DEF Offered
  <2>3. QED
    BY <1>0, <2>1, <2>2 DEF Offered, calendar
<1>3. ASSUME NEW r \in listings, CalendarsListed(r)
      PROVE  Offered'
  <2>1. /\ caldavCalendar' \in {r.account, NoAccount} /\ UNCHANGED caldavAccount
        /\ listedLate' = (listedLate \/ r.account # caldavAccount)
        /\ UNCHANGED <<preferenceLoads, loading, overlapped, cutShort>>
    BY <1>3 DEF CalendarsListed, answerless, stores
  <2>2. Orderly' => r.account = caldavAccount
    BY <2>1 DEF Orderly
  <2>3. preferenceLoads["preferences"] # "pending"
    BY <1>0 DEF Offered
  <2>4. QED
    BY <1>0, <2>1, <2>2, <2>3 DEF Offered
<1>4. ASSUME NEW r \in listings, CalendarsNotListed(r)
      PROVE  Offered'
  <2>1. preferenceLoads["preferences"] # "pending"
    BY <1>0 DEF Offered
  <2>2. UNCHANGED <<calendar, loading, preferenceLoads>> /\ Orderly' = Orderly
    BY <1>4 DEF CalendarsNotListed, stores, Orderly
  <2>3. QED
    BY <1>0, <2>1, <2>2 DEF Offered, calendar
<1>5. ASSUME NEW r \in preferenceSaves, EntryStored(r) \/ EntryRefused(r) \/ EntryNotStored(r)
      PROVE  Offered'
  <2>1. EntryStored(r) => Untouched
    BY DEF Untouched, EntryStored, shell, display, waits, Orderly
  <2>2. EntryRefused(r) => Untouched
    BY DEF Untouched, EntryRefused, shell, display, waits, Orderly
  <2>3. EntryNotStored(r) => UNCHANGED <<calendar, loading, preferenceLoads, listings>> /\ ~Orderly'
    BY DEF EntryNotStored, display, waits, Orderly
  <2>4. QED
    BY <1>0, <1>5, <2>1, <2>2, <2>3, SameOffer DEF Untouched
<1>6. ASSUME NEW r \in preferenceSaves, EntriesAnswered(r)
      PROVE  Offered'
  <2>1. /\ UNCHANGED <<loading, preferenceLoads, listings, caldavCalendarsLoaded>>
        /\ Orderly' = Orderly
        /\ \/ caldavAccount' = NoAccount /\ caldavCalendar' = NoAccount
           \/ UNCHANGED <<caldavAccount, caldavCalendar>>
    BY <1>6 DEF EntriesAnswered, answerless, Orderly
  <2>2. QED
    BY <1>0, <2>1 DEF Offered
<1>7. ASSUME NEW r \in passwordSaves, PasswordSet(r) \/ PasswordNotSet(r)
      PROVE  Offered'
  <2>1. PasswordSet(r) => Untouched
    BY DEF Untouched, PasswordSet, answerless, Orderly
  <2>2. PasswordNotSet(r) => Untouched
    BY DEF Untouched, PasswordNotSet, Unheard, Orderly, stores
  <2>3. QED
    BY <1>0, <1>7, <2>1, <2>2, SameOffer DEF Untouched
<1>8. ASSUME NEW value, TypeHours(value)
      PROVE  Offered'
  <2>1. Untouched
    BY <1>8 DEF Untouched, TypeHours, display, waits, Orderly, pendingForms, stores
  <2>2. QED
    BY <1>0, <2>1, SameOffer DEF Untouched
<1>9. CASE ChooseColours \/ TypePassword
  <2>1. Untouched
    BY <1>9
       DEF Untouched, ChooseColours, TypePassword, display, waits, Orderly, pendingForms, stores
  <2>2. QED
    BY <1>0, <2>1, SameOffer DEF Untouched
<1>10. ASSUME NEW account, TypeAccount(account)
       PROVE  Offered'
  <2>1. /\ ~caldavCalendarsLoaded' /\ ~loading
        /\ UNCHANGED <<loading, preferenceLoads, listings>>
    BY <1>10 DEF TypeAccount, LoadedAfterEdit, Shown, display, waits, pendingForms
  <2>2. QED
    BY <1>0, <2>1 DEF Offered
<1>11. CASE connectCalDav \/ disconnectCalDav
  <2>1. ~caldavCalendarsLoaded' /\ \E kind : Submit(kind)
    BY <1>11 DEF connectCalDav, disconnectCalDav
  <2>2. QED
    BY <1>0, <2>1, SubmitLoaded DEF Offered
<1>12. CASE onSubmit \/ onSubmitColors \/ onSubmitSecurity \/ saveCaldavSettings
  <2>1. UNCHANGED <<caldavCalendarsLoaded, listings>> /\ \E kind : Submit(kind)
    BY <1>12 DEF onSubmit, onSubmitColors, onSubmitSecurity, saveCaldavSettings, SendEntries
  <2>2. QED
    BY <1>0, <2>1, SubmitLoaded DEF Offered
<1>13. CASE UNCHANGED preferencesVars
  BY <1>0, <1>13, SameOffer
     DEF preferencesVars, preferencesPage, pendingForms, stores, Orderly, shell, display, waits
<1>14. QED
  BY <1>1, <1>2, <1>3, <1>4, <1>5, <1>6, <1>7, <1>8, <1>9, <1>10, <1>11, <1>12, <1>13
     DEF PreferencesNext, PreferencesAnswers, PreferencesFailures, PreferencesInputs
----------------------------------------------------------------------------
LEMMA InitCalendar == VisitInit /\ ShellInit /\ PreferencesInit => CalendarInv
<1> SUFFICES ASSUME ShellInit, PreferencesInit  PROVE CalendarInv
  OBVIOUS
<1>1. ServerFits
  BY DEF PreferencesInit, ServerFits, Names, Agree
<1>2. Offered
  BY DEF PreferencesInit, ShellInit, Offered
<1>3. QED
  BY <1>1, <1>2 DEF CalendarInv

\* The calendar stored, to which the server mirrors the user's bookings, is one
\* of the account stored with it: whatever the user types and sends in whatever
\* order, while calendars come before their account is changed, forms are sent
\* one at a time, and no list is stored in part only.
THEOREM CalendarFitsAccount == PreferencesSpec => []CalendarIsOfItsAccount
<1>1. CalendarInv /\ [PreferencesNext]_preferencesVars => CalendarInv'
  BY StepServer, StepOffered DEF CalendarInv
<1>2. CalendarInv => CalendarIsOfItsAccount
  BY DEF CalendarInv, ServerFits, Orderly, CalendarIsOfItsAccount, Agree
<1>3. QED
  BY InitCalendar, <1>1, <1>2, PTL DEF PreferencesSpec
----------------------------------------------------------------------------
(* What is saved.                                                          *)

Pair(a, p) == <<Entry("caldav_account", a), Entry("caldav_path", p)>>
OneName == {"hours", "colours"}

\* The lists the forms send.
Sent ==
  \/ sentEntries = <<>>
  \/ \E name \in OneName : \E value : sentEntries = <<Entry(name, value)>>
  \/ \E a : \E p : sentEntries = Pair(a, p)

AllStored ==
  \A i \in DOMAIN sentEntries : serverPreferences[sentEntries[i].name] = sentEntries[i].value

\* What is left of the list that is pending: the rest of it is stored.
Left(left) ==
  \/ left = sentEntries
  \/ \E a : \E p : /\ sentEntries = Pair(a, p) /\ left = <<Entry("caldav_path", p)>>
                   /\ serverPreferences["caldav_account"] = a
  \/ left = <<>> /\ AllStored

SavedInv ==
  /\ DOMAIN serverPreferences = Names
  /\ Sent
  /\ ~overlapped =>
       /\ Pending => ~saved
       /\ saved => AllStored
       /\ preferenceSaves # {} => listings = {} /\ passwordSaves = {}
       /\ \A r1, r2 \in preferenceSaves : r1 = r2
       /\ \A r \in preferenceSaves : {"left", "ok"} \subseteq DOMAIN r /\ (r.ok => Left(r.left))
       /\ passwordSaves # {} => sentEntries = <<>> /\ listings = {}
       /\ \A r1, r2 \in passwordSaves : r1 = r2

LEMMA SavedIsAsStored ==
  ASSUME SavedInv
  PROVE  SavedIsStored
BY DEF SavedInv, SavedIsStored, AllStored

LEMMA SameSaved ==
  ASSUME SavedInv, overlapped' = overlapped, saved' = saved, listings' \subseteq listings,
         passwordSaves' \subseteq passwordSaves,
         UNCHANGED <<serverPreferences, sentEntries, preferenceSaves>>
  PROVE  SavedInv'
<1>1. Pending' => Pending
  BY DEF Pending
<1>2. Sent' /\ (AllStored => AllStored')
  BY DEF SavedInv, Sent, AllStored
<1>3. \A r \in preferenceSaves : Left(r.left) => Left(r.left)'
  BY DEF Left, AllStored
<1>4. ASSUME ~overlapped
      PROVE  /\ preferenceSaves' # {} => listings' = {} /\ passwordSaves' = {}
             /\ passwordSaves' # {} => sentEntries' = <<>> /\ listings' = {}
             /\ \A r1, r2 \in passwordSaves' : r1 = r2
  BY <1>4 DEF SavedInv
<1>5. ASSUME ~overlapped
      PROVE  \A r \in preferenceSaves' :
               {"left", "ok"} \subseteq DOMAIN r /\ (r.ok => Left(r.left)')
  BY <1>3, <1>5 DEF SavedInv
<1>6. QED
  BY <1>1, <1>2, <1>4, <1>5 DEF SavedInv

\* The parts of a pair.
LEMMA PairParts ==
  ASSUME NEW a, NEW p
  PROVE  /\ Pair(a, p) # <<>> /\ Tail(Pair(a, p)) = <<Entry("caldav_path", p)>>
         /\ Head(Pair(a, p)) = Entry("caldav_account", a)
         /\ DOMAIN Pair(a, p) = 1 .. 2
         /\ Pair(a, p)[1] = Entry("caldav_account", a) /\ Pair(a, p)[2] = Entry("caldav_path", p)
<1>1. \A x, y : /\ <<x, y>> # <<>> /\ Head(<<x, y>>) = x /\ Tail(<<x, y>>) = <<y>>
                /\ DOMAIN <<x, y>> = 1 .. 2 /\ <<x, y>>[1] = x /\ <<x, y>>[2] = y
  OBVIOUS
<1>2. QED
  BY <1>1 DEF Pair

LEMMA OneParts ==
  ASSUME NEW x
  PROVE  /\ <<x>> # <<>> /\ Tail(<<x>>) = <<>> /\ Head(<<x>>) = x /\ DOMAIN <<x>> = {1}
         /\ <<x>>[1] = x
OBVIOUS

\* An entry is stored.
LEMMA LeftStored ==
  ASSUME NEW left, Left(left), Sent, left # <<>>, DOMAIN serverPreferences = Names,
         serverPreferences' = [serverPreferences EXCEPT ![Head(left).name] = Head(left).value],
         UNCHANGED sentEntries
  PROVE  Left(Tail(left))'
<1>1. CASE /\ left = sentEntries
           /\ \E name \in OneName : \E value : sentEntries = <<Entry(name, value)>>
  <2>1. PICK name \in OneName : \E value : sentEntries = <<Entry(name, value)>>
    BY <1>1
  <2>2. PICK value : sentEntries = <<Entry(name, value)>>
    BY <2>1
  <2>3. Tail(left) = <<>> /\ Head(left).name = name /\ Head(left).value = value
    BY <1>1, <2>2, OneParts, EntryParts
  <2>4. serverPreferences'[name] = value
    BY <2>3 DEF Names, OneName
  <2>5. DOMAIN sentEntries = {1} /\ sentEntries[1].name = name /\ sentEntries[1].value = value
    BY <2>2, OneParts, EntryParts
  <2>6. AllStored'
    BY <2>4, <2>5 DEF AllStored
  <2>7. QED
    BY <2>3, <2>6 DEF Left
<1>2. CASE left = sentEntries /\ \E a : \E p : sentEntries = Pair(a, p)
  <2>1. PICK a : \E p : sentEntries = Pair(a, p)
    BY <1>2
  <2>2. PICK p : sentEntries = Pair(a, p)
    BY <2>1
  <2>3. /\ Tail(left) = <<Entry("caldav_path", p)>> /\ Head(left).name = "caldav_account"
        /\ Head(left).value = a
    BY <1>2, <2>2, PairParts, EntryParts
  <2>4. serverPreferences'["caldav_account"] = a
    BY <2>3 DEF Names
  <2>5. QED
    BY <2>2, <2>3, <2>4 DEF Left
<1>3. ASSUME NEW a, NEW p, sentEntries = Pair(a, p), left = <<Entry("caldav_path", p)>>,
             serverPreferences["caldav_account"] = a
      PROVE  Left(Tail(left))'
  <2>1. Tail(left) = <<>> /\ Head(left).name = "caldav_path" /\ Head(left).value = p
    BY <1>3, OneParts, EntryParts
  <2>2. serverPreferences'["caldav_path"] = p /\ serverPreferences'["caldav_account"] = a
    BY <1>3, <2>1 DEF Names
  <2>3. /\ DOMAIN sentEntries = 1 .. 2
        /\ sentEntries[1].name = "caldav_account" /\ sentEntries[1].value = a
        /\ sentEntries[2].name = "caldav_path" /\ sentEntries[2].value = p
    BY <1>3, PairParts, EntryParts
  <2>4. \A i \in DOMAIN sentEntries : i = 1 \/ i = 2
    BY <2>3
  <2>5. AllStored'
    BY <2>2, <2>3, <2>4 DEF AllStored
  <2>6. QED
    BY <2>1, <2>5 DEF Left
<1>4. QED
  BY <1>1, <1>2, <1>3 DEF Left, Sent

LEMMA StoredSaved ==
  ASSUME SavedInv, NEW r \in preferenceSaves, EntryStored(r)
  PROVE  SavedInv'
<1>1. PICK rest : rest = [r EXCEPT !.left = Tail(@)]
  OBVIOUS
<1>2. /\ r.left # <<>> /\ preferenceSaves' = (preferenceSaves \ {r}) \cup {rest}
      /\ serverPreferences' = [serverPreferences EXCEPT ![Head(r.left).name] = Head(r.left).value]
      /\ UNCHANGED <<saved, listings, passwordSaves, sentEntries, overlapped>>
  BY <1>1 DEF EntryStored, PutAll!Stored, shell, display
<1>3. DOMAIN serverPreferences' = Names /\ Sent'
  BY <1>2 DEF SavedInv, Sent
<1>4. ASSUME ~overlapped
      PROVE  /\ preferenceSaves' = {rest} /\ ~saved /\ listings = {} /\ passwordSaves = {}
             /\ {"left", "ok"} \subseteq DOMAIN rest /\ (rest.ok => Left(rest.left)')
  <2>1. /\ preferenceSaves' = {rest} /\ ~saved /\ listings = {} /\ passwordSaves = {}
        /\ {"left", "ok"} \subseteq DOMAIN r /\ (r.ok => Left(r.left))
    BY <1>2, <1>4 DEF SavedInv, Pending
  <2>2. rest.left = Tail(r.left) /\ rest.ok = r.ok /\ DOMAIN rest = DOMAIN r
    BY <1>1, <2>1
  <2>3. Left(r.left) => Left(Tail(r.left))'
    BY <1>2, LeftStored DEF SavedInv
  <2>4. rest.ok => Left(rest.left)'
    BY <2>1, <2>2, <2>3 DEF Left, AllStored
  <2>5. QED
    BY <2>1, <2>2, <2>4
<1>5. QED
  BY <1>2, <1>3, <1>4 DEF SavedInv

\* The rest of a list is given up.
LEMMA RefusedSaved ==
  ASSUME SavedInv, NEW r \in preferenceSaves, EntryRefused(r) \/ EntryNotStored(r)
  PROVE  SavedInv'
<1>1. PICK rest : rest = [r EXCEPT !.left = <<>>, !.ok = FALSE]
  OBVIOUS
<1>2. /\ preferenceSaves' = (preferenceSaves \ {r}) \cup {rest}
      /\ UNCHANGED <<saved, listings, passwordSaves, sentEntries, overlapped, serverPreferences>>
  BY <1>1 DEF EntryRefused, EntryNotStored, PutAll!NotStored, shell, display
<1>3. DOMAIN serverPreferences' = Names /\ Sent'
  BY <1>2 DEF SavedInv, Sent
<1>4. ASSUME ~overlapped
      PROVE  /\ preferenceSaves' = {rest} /\ ~saved /\ listings = {} /\ passwordSaves = {}
             /\ {"left", "ok"} \subseteq DOMAIN rest /\ ~rest.ok
  <2>1. /\ preferenceSaves' = {rest} /\ ~saved /\ listings = {} /\ passwordSaves = {}
        /\ {"left", "ok"} \subseteq DOMAIN r
    BY <1>2, <1>4 DEF SavedInv, Pending
  <2>2. QED
    BY <1>1, <2>1
<1>5. QED
  BY <1>2, <1>3, <1>4 DEF SavedInv

LEMMA AnsweredSaved ==
  ASSUME SavedInv, NEW r \in preferenceSaves, EntriesAnswered(r)
  PROVE  SavedInv'
<1>1. /\ r.left = <<>> /\ preferenceSaves' = preferenceSaves \ {r}
      /\ saved' = (saved \/ r.ok)
      /\ UNCHANGED <<listings, passwordSaves, sentEntries, overlapped, serverPreferences>>
  BY DEF EntriesAnswered, PutAll!Answered, answerless
<1>2. Sent' /\ (AllStored => AllStored')
  BY <1>1 DEF SavedInv, Sent, AllStored
<1>3. ASSUME ~overlapped
      PROVE  /\ preferenceSaves' = {} /\ listings = {} /\ passwordSaves = {}
             /\ saved' => AllStored
  <2>1. /\ preferenceSaves' = {} /\ ~saved /\ listings = {} /\ passwordSaves = {}
        /\ (r.ok => Left(<<>>))
    BY <1>1, <1>3 DEF SavedInv, Pending
  <2>2. saved' => r.ok
    BY <1>1, <2>1
  <2>3. Left(<<>>) => AllStored
    <3>1. sentEntries = <<>> => AllStored
      BY DEF AllStored
    <3>2. QED
      BY <3>1, OneParts DEF Left
  <2>4. QED
    BY <2>1, <2>2, <2>3
<1>4. QED
  BY <1>1, <1>2, <1>3 DEF SavedInv, Pending

LEMMA PasswordSaved ==
  ASSUME SavedInv, NEW r \in passwordSaves, PasswordSet(r)
  PROVE  SavedInv'
<1>1. /\ passwordSaves' = passwordSaves \ {r}
      /\ UNCHANGED <<listings, preferenceSaves, sentEntries, overlapped, serverPreferences>>
  BY DEF PasswordSet, answerless
<1>2. Sent'
  BY <1>1 DEF SavedInv, Sent
<1>3. ASSUME ~overlapped
      PROVE  passwordSaves' = {} /\ listings = {} /\ preferenceSaves = {} /\ sentEntries = <<>>
  BY <1>1, <1>3 DEF SavedInv
<1>4. ~overlapped => AllStored'
  BY <1>1, <1>3 DEF AllStored
<1>5. QED
  BY <1>1, <1>2, <1>3, <1>4 DEF SavedInv, Pending

\* A form is sent; with a list, with a password, or to see the calendars.
LEMMA SubmitSaved ==
  ASSUME SavedInv, NEW kind, Submit(kind)
  PROVE  /\ ~saved' /\ UNCHANGED serverPreferences
         /\ ~overlapped' => ~overlapped /\ listings = {} /\ preferenceSaves = {}
                            /\ passwordSaves = {}
BY DEF Submit, Pending, stores

LEMMA SendSaved ==
  ASSUME SavedInv, NEW kind, NEW from, NEW entries, Submit(kind), SendEntries(from, entries),
         \/ \E name \in OneName : \E value : entries = <<Entry(name, value)>>
         \/ \E a : \E p : entries = Pair(a, p)
  PROVE  SavedInv'
<1>1. PICK new : new = [n |-> visit.count, from |-> from, left |-> entries, ok |-> TRUE]
  OBVIOUS
<1>2. /\ preferenceSaves' = preferenceSaves \cup {new} /\ sentEntries' = entries
      /\ UNCHANGED <<listings, passwordSaves>>
  BY <1>1 DEF SendEntries, PutAll!Send
<1>3. {"left", "ok"} \subseteq DOMAIN new /\ new.left = sentEntries'
  BY <1>1, <1>2
<1>4. Left(new.left)'
  BY <1>3 DEF Left
<1>5. Sent'
  BY <1>2 DEF Sent
<1>6. QED
  BY <1>2, <1>3, <1>4, <1>5, SubmitSaved DEF SavedInv

LEMMA OthersSaved ==
  ASSUME SavedInv, onSubmitSecurity \/ connectCalDav
  PROVE  SavedInv'
<1>1. PICK kind : Submit(kind)
  BY DEF onSubmitSecurity, connectCalDav
<1>2. ~saved' /\ UNCHANGED <<serverPreferences, preferenceSaves>>
  BY <1>1, SubmitSaved DEF onSubmitSecurity, connectCalDav
<1>3. ~overlapped' => ~overlapped /\ listings = {} /\ preferenceSaves = {} /\ passwordSaves = {}
  BY <1>1, SubmitSaved
<1>4. CASE onSubmitSecurity
  <2>1. PICK new : passwordSaves' = passwordSaves \cup {new}
    BY <1>4 DEF onSubmitSecurity
  <2>2. sentEntries' = <<>> /\ UNCHANGED listings
    BY <1>4 DEF onSubmitSecurity
  <2>3. Sent'
    BY <2>2 DEF Sent
  <2>4. QED
    BY <1>2, <1>3, <2>1, <2>2, <2>3 DEF SavedInv
<1>5. CASE connectCalDav
  <2>1. UNCHANGED <<passwordSaves, sentEntries>>
    BY <1>5 DEF connectCalDav
  <2>2. Sent'
    BY <2>1 DEF Sent, SavedInv
  <2>3. QED
    BY <1>2, <1>3, <2>1, <2>2 DEF SavedInv
<1>6. QED
  BY <1>4, <1>5

LEMMA StepSaved ==
  ASSUME SavedInv, [PreferencesNext]_preferencesVars
  PROVE  SavedInv'
<1> USE DEF shell, display, pendingForms, stores, answerless
<1>1. ASSUME NEW l \in DOMAIN preferenceLoads, PreferencesLoaded(l) \/ PreferencesNotLoaded(l)
      PROVE  SavedInv'
  BY <1>1, SameSaved DEF PreferencesLoaded, PreferencesNotLoaded, Unheard
<1>2. ASSUME NEW r \in listings, CalendarsListed(r) \/ CalendarsNotListed(r) PROVE SavedInv'
  BY <1>2, SameSaved DEF CalendarsListed, CalendarsNotListed
<1>3. ASSUME NEW r \in passwordSaves, PasswordNotSet(r) PROVE SavedInv'
  BY <1>3, SameSaved DEF PasswordNotSet, Unheard
<1>4. ASSUME NEW value, NEW account,
             TypeHours(value) \/ ChooseColours \/ TypePassword \/ TypeAccount(account)
      PROVE  SavedInv'
  BY <1>4, SameSaved DEF TypeHours, ChooseColours, TypePassword, TypeAccount
<1>5. CASE onSubmit
  BY <1>5, SendSaved DEF onSubmit, OneName
<1>6. CASE onSubmitColors
  BY <1>6, SendSaved DEF onSubmitColors, OneName
<1>7. CASE disconnectCalDav
  <2>1. Disconnected = Pair(NoAccount, NoAccount)
    BY DEF Disconnected, Pair
  <2>2. QED
    BY <1>7, <2>1, SendSaved DEF disconnectCalDav
<1>8. CASE saveCaldavSettings
  <2>1. /\ Submit("saveCalendar")
        /\ SendEntries("saveCaldavSettings", Pair(caldavAccount, caldavCalendar))
    BY <1>8 DEF saveCaldavSettings, Pair
  <2>2. QED
    BY <2>1, SendSaved
<1>9. CASE UNCHANGED preferencesVars
  BY <1>9, SameSaved DEF preferencesVars, preferencesPage
<1>10. QED
  BY <1>1, <1>2, <1>3, <1>4, <1>5, <1>6, <1>7, <1>8, <1>9, StoredSaved, RefusedSaved,
     AnsweredSaved, PasswordSaved, OthersSaved
  DEF PreferencesNext, PreferencesAnswers, PreferencesFailures, PreferencesInputs

LEMMA InitSaved == ShellInit /\ PreferencesInit => SavedInv
BY DEF ShellInit, PreferencesInit, SavedInv, Sent, Names, Pending

\* When the page says "Entry updated." the server has all entries of the form
\* sent last, or the password, unless forms were sent one over the other.
THEOREM SavedIsStoredAlways == PreferencesSpec => []SavedIsStored
<1>1. SavedInv /\ [PreferencesNext]_preferencesVars => SavedInv'
  BY StepSaved
<1>2. VisitInit /\ ShellInit /\ PreferencesInit => SavedInv
  BY InitSaved
<1>3. SavedInv => SavedIsStored
  BY SavedIsAsStored
<1>4. QED
  BY <1>1, <1>2, <1>3, PTL DEF PreferencesSpec
=============================================================================
