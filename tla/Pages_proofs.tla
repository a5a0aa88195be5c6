----------------------------- MODULE Pages_proofs -----------------------------
(***************************************************************************)
(* Proofs about the pages together, for any visits: their lists are        *)
(* current, their alerts are true, and an area that is not to be saved is  *)
(* the server's.  The invariants of the pages' modules are carried over: a *)
(* page that is not the one visited stays as it was mounted.  Those of the *)
(* settings page and of the area editor are here.                          *)
(***************************************************************************)
EXTENDS Pages, BookingEditor_proofs, PreferencesPage_proofs, FiniteSetTheorems

----------------------------------------------------------------------------
(* The settings page: the list of domains.                                 *)

\* Unless one has failed or was overtaken, the list with the highest number is
\* shown or on its way; and since it was asked for the domains are the same.
DomainsInv ==
  /\ settingsLoads \in [{"settings", "items", "authProviders", "timezones"}
                          -> {"pending", "done", "failed"}]
  /\ lists \in Nat /\ listShown \in 0 .. lists
  /\ \A l \in domainLists : {"n", "read"} \subseteq DOMAIN l /\ l.n \in 1 .. lists
  /\ ~relisted /\ ~uncaught => listShown = lists \/ \E l \in domainLists : l.n = lists
  /\ \A l \in domainLists : l.read.known /\ l.n = lists => l.read.domains = serverDomains
  /\ listShown = lists /\ settingsLoads["items"] = "done" => domains = serverDomains

\* Steps that leave the domains and their lists alone.
LEMMA SameDomains ==
  ASSUME DomainsInv, ~uncaught' => ~uncaught,
         UNCHANGED <<settingsLoads, lists, listShown, domainLists, relisted, serverDomains,
                     domains>>
  PROVE  DomainsInv'
<1>1. ~relisted' /\ ~uncaught' => listShown' = lists' \/ \E l \in domainLists' : l.n = lists'
  BY DEF DomainsInv
<1>2. QED
  BY <1>1 DEF DomainsInv

LEMMA LoadsDomains ==
  ASSUME DomainsInv, NEW l \in DOMAIN settingsLoads, SettingsLoaded(l) \/ SettingsNotLoaded(l)
  PROVE  DomainsInv'
<1>1. /\ UNCHANGED <<lists, listShown, domainLists, relisted, serverDomains>>
      /\ ~uncaught' => ~uncaught
      /\ \/ /\ settingsLoads' = [settingsLoads EXCEPT ![l] = "done"]
            /\ domains' = IF l = "items" THEN serverDomains ELSE domains
         \/ settingsLoads' = [settingsLoads EXCEPT ![l] = "failed"] /\ UNCHANGED domains
  <2>1. CASE SettingsLoaded(l)
    BY <2>1 DEF SettingsLoaded
  <2>2. CASE SettingsNotLoaded(l)
    BY <2>2 DEF SettingsNotLoaded, Unheard, domainForm, domainList
  <2>3. QED
    BY <2>1, <2>2
<1>2. settingsLoads' \in [{"settings", "items", "authProviders", "timezones"}
                            -> {"pending", "done", "failed"}]
  BY <1>1 DEF DomainsInv
<1>3. settingsLoads'["items"] = "done" =>
        \/ domains' = serverDomains
        \/ settingsLoads["items"] = "done" /\ UNCHANGED domains
  <2>1. CASE l = "items"
    <3>1. DOMAIN settingsLoads = {"settings", "items", "authProviders", "timezones"}
      BY DEF DomainsInv
    <3>2. settingsLoads'["items"] = "done" => domains' = serverDomains
      BY <1>1, <2>1, <3>1
    <3>3. QED
      BY <3>2
  <2>2. CASE l # "items"
    <3>1. settingsLoads'["items"] = settingsLoads["items"] /\ UNCHANGED domains
      BY <1>1, <2>2 DEF DomainsInv
    <3>2. QED
      BY <3>1
  <2>3. QED
    BY <2>1, <2>2
<1>4. ~relisted' /\ ~uncaught' => listShown' = lists' \/ \E s \in domainLists' : s.n = lists'
  BY <1>1 DEF DomainsInv
<1>5. \A s \in domainLists' : s.read.known /\ s.n = lists' => s.read.domains = serverDomains'
  BY <1>1 DEF DomainsInv
<1>6. QED
  BY <1>1, <1>2, <1>3, <1>4, <1>5 DEF DomainsInv

\* A list is asked for after the change, and read after it.
LEMMA ChangesDomains ==
  ASSUME DomainsInv, NEW r \in domainRequests, DomainChanged(r)
  PROVE  DomainsInv'
<1>1. PICK new : new = [n |-> lists', read |-> NotRead]
  OBVIOUS
<1>2. /\ lists' = lists + 1 /\ domainLists' = domainLists \cup {new}
      /\ UNCHANGED <<settingsLoads, listShown, domains, relisted>>
  BY <1>1 DEF DomainChanged
<1>3. new.n = lists' /\ {"n", "read"} \subseteq DOMAIN new /\ ~new.read.known
  BY <1>1 DEF NotRead
<1>4. lists \in Nat /\ listShown \in 0 .. lists /\ \A l \in domainLists : l.n \in 1 .. lists
  BY DEF DomainsInv
<1>5. /\ lists' \in Nat /\ listShown' \in 0 .. lists' /\ listShown' # lists'
      /\ new.n \in 1 .. lists' /\ \A l \in domainLists : l.n \in 1 .. lists' /\ l.n # lists'
  BY <1>2, <1>3, <1>4
<1>6. QED
  BY <1>2, <1>3, <1>5 DEF DomainsInv

LEMMA ReadsDomains ==
  ASSUME DomainsInv, NEW l \in domainLists, DomainsRead(l)
  PROVE  DomainsInv'
<1>1. PICK new : new = [l EXCEPT !.read = [known |-> TRUE, domains |-> serverDomains]]
  OBVIOUS
<1>2. /\ domainLists' = (domainLists \ {l}) \cup {new}
      /\ UNCHANGED <<settingsLoads, lists, listShown, domains, relisted, serverDomains, uncaught>>
  BY <1>1 DEF DomainsRead, shell, display
<1>3. new.n = l.n /\ DOMAIN new = DOMAIN l /\ new.read.domains = serverDomains
  BY <1>1 DEF DomainsInv
<1>4. ~relisted' /\ ~uncaught' => listShown' = lists' \/ \E s \in domainLists' : s.n = lists'
  BY <1>2, <1>3 DEF DomainsInv
<1>5. \A s \in domainLists' : s = new \/ s \in domainLists
  BY <1>2
<1>6. QED
  BY <1>2, <1>3, <1>4, <1>5 DEF DomainsInv

LEMMA ListsDomains ==
  ASSUME DomainsInv, NEW l \in domainLists, DomainsListed(l) \/ DomainsNotListed(l)
  PROVE  DomainsInv'
<1>1. UNCHANGED <<settingsLoads, lists, serverDomains>> /\ domainLists' = domainLists \ {l}
  BY DEF DomainsListed, DomainsNotListed
<1>2. CASE DomainsListed(l)
  <2>1. /\ l.read.known /\ domains' = l.read.domains /\ listShown' = l.n /\ UNCHANGED uncaught
        /\ relisted' = (relisted \/ l.n < listShown)
    BY <1>2 DEF DomainsListed, shell, display
  <2>2. ~relisted' => ~relisted /\ ~(l.n < listShown)
    BY <2>1
  <2>3. ~relisted' /\ ~uncaught' => listShown' = lists' \/ \E s \in domainLists' : s.n = lists'
    <3>1. l.n \in 1 .. lists /\ listShown \in 0 .. lists /\ lists \in Nat
      BY DEF DomainsInv
    <3>2. ~relisted' /\ ~uncaught' => listShown = lists \/ \E s \in domainLists : s.n = lists
      BY <2>1, <2>2 DEF DomainsInv
    <3>3. ~relisted' /\ listShown = lists => l.n = lists
      BY <2>2, <3>1
    <3>4. QED
      BY <1>1, <2>1, <3>2, <3>3
  <2>4. listShown' = lists' => domains' = serverDomains'
    BY <1>1, <2>1 DEF DomainsInv
  <2>5. QED
    BY <1>1, <2>1, <2>3, <2>4 DEF DomainsInv
<1>3. CASE DomainsNotListed(l)
  <2>1. uncaught' /\ UNCHANGED <<listShown, domains>>
    BY <1>3 DEF DomainsNotListed, Unheard
  <2>2. QED
    BY <1>1, <2>1 DEF DomainsInv
<1>4. QED
  BY <1>2, <1>3

LEMMA StepDomains ==
  ASSUME DomainsInv, [SettingsNext]_settingsVars
  PROVE  DomainsInv'
<1> USE DEF shell, display, domainForm, domainList
<1>1. ASSUME NEW r \in settingsSaves,
             \/ SettingStored(r) \/ SettingRefused(r) \/ SettingsAnswered(r)
             \/ SettingNotStored(r)
      PROVE  DomainsInv'
  <2>1. UNCHANGED <<uncaught, settingsLoads, domainForm>>
    BY <1>1 DEF SettingStored, SettingRefused, SettingsAnswered, SettingNotStored
  <2>2. QED
    BY <2>1, SameDomains
<1>2. ASSUME NEW r \in domainRequests, DomainRefused(r) PROVE DomainsInv'
  BY <1>2, SameDomains DEF DomainRefused
<1>3. CASE DeleteOrg \/ OrgDeleted \/ OrgNotDeleted
  <2>1. UNCHANGED <<settingsLoads, domainForm>> /\ (~uncaught' => ~uncaught)
    BY <1>3 DEF DeleteOrg, OrgDeleted, OrgNotDeleted, Unheard
  <2>2. QED
    BY <2>1, SameDomains
<1>4. ASSUME NEW enabled, NEW h, SwitchDaily(enabled) \/ TypeDuration(h) PROVE DomainsInv'
  BY <1>4, SameDomains DEF SwitchDaily, TypeDuration
<1>5. ASSUME NEW d, NEW kind, TypeDomain(d) \/ ChangeDomain(kind, d) PROVE DomainsInv'
  <2>1. UNCHANGED <<uncaught, settingsLoads, domainList, serverDomains>>
    BY <1>5 DEF TypeDomain, ChangeDomain
  <2>2. QED
    BY <2>1, SameDomains
<1>6. CASE SaveSettings
  BY <1>6, SameDomains DEF SaveSettings
<1>7. CASE UNCHANGED settingsVars
  BY <1>7, SameDomains DEF settingsVars, settingsPage
<1>8. QED
  BY <1>1, <1>2, <1>3, <1>4, <1>5, <1>6, <1>7, LoadsDomains, ChangesDomains, ReadsDomains,
     ListsDomains
  DEF SettingsNext, SettingsAnswers, SettingsFailures, SettingsInputs

LEMMA DomainsAreShown ==
  ASSUME DomainsInv
  PROVE  DomainsShownAreStored
BY DEF DomainsInv, DomainsShownAreStored

LEMMA InitDomains == SettingsInit => DomainsInv
BY DEF SettingsInit, DomainsInv
----------------------------------------------------------------------------
(* The settings page: the alerts.                                          *)

IsSettings(s) == s = [daily |-> s.daily, max |-> s.max]
Half == [sentSettings.over EXCEPT !.daily = sentSettings.form.daily]
Rest(s) == <<[name |-> "max", value |-> s.max]>>

\* While the one save is pending the server has stored what is no longer left.
Sending(r) ==
  /\ {"left", "ok"} \subseteq DOMAIN r
  /\ \/ r.left = Entries(sentSettings.form) /\ r.ok /\ serverSettings = sentSettings.over
     \/ r.left = Rest(sentSettings.form) /\ r.ok /\ serverSettings = Half
     \/ r.left = <<>> /\ r.ok /\ serverSettings = sentSettings.form
     \/ r.left = <<>> /\ ~r.ok /\ serverSettings \in {sentSettings.over, Half}

AlertInv ==
  /\ {saved, error} \subseteq BOOLEAN
  /\ IsSettings(typed) /\ IsSettings(serverSettings)
  /\ IsSettings(sentSettings.form) /\ IsSettings(sentSettings.over)
  /\ ~savedTwice =>
       /\ \A r1, r2 \in settingsSaves : r1 = r2
       /\ \A r \in settingsSaves : Sending(r)
       /\ settingsSaves # {} => ~saved /\ ~error
       /\ ~saved \/ ~error
       /\ saved => serverSettings = sentSettings.form
       /\ error => serverSettings \in {sentSettings.over, Half}

LEMMA AlertIsAsStored ==
  ASSUME AlertInv
  PROVE  AlertIsTrue
<1>1. SUFFICES ASSUME ~savedTwice, saved \/ error
               PROVE  /\ saved # error
                      /\ saved => serverSettings = sentSettings.form
                      /\ error => serverSettings \in {sentSettings.over, Half}
  BY DEF AlertIsTrue, Half
<1>2. saved # error
  BY <1>1 DEF AlertInv
<1>3. QED
  BY <1>1, <1>2 DEF AlertInv

LEMMA SameAlerts ==
  ASSUME AlertInv, IsSettings(typed)', savedTwice' = savedTwice,
         UNCHANGED <<saved, error, settingsSaves, sentSettings, serverSettings>>
  PROVE  AlertInv'
BY DEF AlertInv, Sending, Half, IsSettings

LEMMA EntriesOf ==
  ASSUME NEW s
  PROVE  /\ Entries(s) # <<>> /\ Rest(s) # <<>>
         /\ Head(Entries(s)).name = "daily" /\ Head(Entries(s)).value = s.daily
         /\ Tail(Entries(s)) = Rest(s)
         /\ Head(Rest(s)).name = "max" /\ Head(Rest(s)).value = s.max /\ Tail(Rest(s)) = <<>>
<1> DEFINE daily == [name |-> "daily", value |-> s.daily]
           max == [name |-> "max", value |-> s.max]
<1>1. Entries(s) = <<daily, max>> /\ Rest(s) = <<max>>
  BY DEF Entries, Rest
<1>2. daily.name = "daily" /\ daily.value = s.daily /\ max.name = "max" /\ max.value = s.max
  OBVIOUS
<1> HIDE DEF daily, max
<1>3. \A x, y : /\ <<x, y>> # <<>> /\ Head(<<x, y>>) = x /\ Tail(<<x, y>>) = <<y>>
                /\ <<x>> # <<>> /\ Head(<<x>>) = x /\ Tail(<<x>>) = <<>>
  OBVIOUS
<1>4. QED
  BY <1>1, <1>2, <1>3

LEMMA StoredAlerts ==
  ASSUME AlertInv, NEW r \in settingsSaves, SettingStored(r)
  PROVE  AlertInv'
<1>1. PICK rest : rest = [r EXCEPT !.left = Tail(@)]
  OBVIOUS
<1>2. /\ r.left # <<>> /\ settingsSaves' = (settingsSaves \ {r}) \cup {rest}
      /\ serverSettings' = [serverSettings EXCEPT ![Head(r.left).name] = Head(r.left).value]
      /\ UNCHANGED <<saved, error, typed, sentSettings, savedTwice>>
  BY <1>1 DEF SettingStored, Put!Stored, shell, display
<1>3. IsSettings(serverSettings)'
  BY <1>2 DEF AlertInv, IsSettings
<1>4. ASSUME ~savedTwice
      PROVE  settingsSaves' = {rest} /\ Sending(rest)' /\ ~saved /\ ~error
  <2>1. /\ settingsSaves' = {rest} /\ {"left", "ok"} \subseteq DOMAIN r /\ Sending(r)
        /\ ~saved /\ ~error
    BY <1>2, <1>4 DEF AlertInv, Sending
  <2>2. rest.left = Tail(r.left) /\ rest.ok = r.ok /\ DOMAIN rest = DOMAIN r
    BY <1>1, <2>1
  <2>3. CASE r.left = Entries(sentSettings.form) /\ r.ok /\ serverSettings = sentSettings.over
    <3>1. rest.left = Rest(sentSettings.form) /\ serverSettings' = Half
      BY <1>2, <2>2, <2>3, EntriesOf DEF Half
    <3>2. Half' = Half
      BY <1>2 DEF Half
    <3>3. QED
      BY <1>2, <2>1, <2>2, <2>3, <3>1, <3>2 DEF Sending
  <2>4. CASE r.left = Rest(sentSettings.form) /\ r.ok /\ serverSettings = Half
    <3>1. rest.left = <<>> /\ serverSettings' = [Half EXCEPT !.max = sentSettings.form.max]
      BY <1>2, <2>2, <2>4, EntriesOf
    <3>2. serverSettings' = sentSettings.form
      BY <3>1 DEF AlertInv, IsSettings, Half
    <3>3. QED
      BY <1>2, <2>1, <2>2, <2>4, <3>1, <3>2 DEF Sending
  <2>5. QED
    BY <1>2, <2>1, <2>3, <2>4 DEF Sending
<1>5. QED
  BY <1>2, <1>3, <1>4 DEF AlertInv

LEMMA RefusedAlerts ==
  ASSUME AlertInv, NEW r \in settingsSaves, SettingRefused(r) \/ SettingNotStored(r)
  PROVE  AlertInv'
<1>1. PICK rest : rest = [r EXCEPT !.left = <<>>, !.ok = FALSE]
  OBVIOUS
<1>2. /\ r.left # <<>> /\ settingsSaves' = (settingsSaves \ {r}) \cup {rest}
      /\ UNCHANGED <<saved, error, typed, sentSettings, savedTwice, serverSettings>>
  BY <1>1 DEF SettingRefused, SettingNotStored, Put!NotStored, shell, display
<1>3. ASSUME ~savedTwice
      PROVE  settingsSaves' = {rest} /\ Sending(rest)' /\ ~saved /\ ~error
  <2>1. settingsSaves' = {rest} /\ Sending(r) /\ ~saved /\ ~error
    BY <1>2, <1>3 DEF AlertInv
  <2>2. rest.left = <<>> /\ ~rest.ok /\ {"left", "ok"} \subseteq DOMAIN rest
    BY <1>1, <2>1 DEF Sending
  <2>3. serverSettings \in {sentSettings.over, Half}
    BY <1>2, <2>1 DEF Sending
  <2>4. QED
    BY <1>2, <2>1, <2>2, <2>3 DEF Sending, Half
<1>4. QED
  BY <1>2, <1>3 DEF AlertInv, IsSettings

LEMMA AnsweredAlerts ==
  ASSUME AlertInv, NEW r \in settingsSaves, SettingsAnswered(r)
  PROVE  AlertInv'
<1>1. /\ r.left = <<>> /\ settingsSaves' = settingsSaves \ {r}
      /\ saved' = (saved \/ r.ok) /\ error' = (error \/ ~r.ok)
      /\ UNCHANGED <<typed, sentSettings, savedTwice, serverSettings>>
  BY DEF SettingsAnswered, Put!Answered
<1>2. {saved', error'} \subseteq BOOLEAN
  BY <1>1
<1>3. ASSUME ~savedTwice
      PROVE  /\ settingsSaves' = {} /\ (~saved' \/ ~error')
             /\ saved' => serverSettings = sentSettings.form
             /\ error' => serverSettings \in {sentSettings.over, Half}
  <2>1. settingsSaves' = {} /\ Sending(r) /\ ~saved /\ ~error
    BY <1>1, <1>3 DEF AlertInv
  <2>2. (saved' => r.ok) /\ (error' => ~r.ok)
    BY <1>1, <2>1
  <2>3. r.ok => serverSettings = sentSettings.form
    BY <1>1, <2>1, EntriesOf DEF Sending
  <2>4. ~r.ok => serverSettings \in {sentSettings.over, Half}
    BY <1>1, <2>1 DEF Sending
  <2>5. QED
    BY <2>1, <2>2, <2>3, <2>4
<1>4. QED
  BY <1>1, <1>2, <1>3 DEF AlertInv, IsSettings, Half

LEMMA SavesAlerts ==
  ASSUME AlertInv, SaveSettings
  PROVE  AlertInv'
<1>1. PICK new :
        new = [n |-> visit.count, from |-> "onSubmit", left |-> Entries(typed), ok |-> TRUE]
  OBVIOUS
<1>2. /\ settingsSaves' = settingsSaves \cup {new} /\ saved' = FALSE /\ error' = FALSE
      /\ sentSettings' = [form |-> typed, over |-> serverSettings]
      /\ savedTwice' = (savedTwice \/ settingsSaves # {})
      /\ UNCHANGED <<typed, serverSettings>>
  BY <1>1 DEF SaveSettings, Put!Send
<1>3. ~savedTwice' => settingsSaves = {}
  BY <1>2
<1>4. sentSettings'.form = typed' /\ sentSettings'.over = serverSettings'
  BY <1>2
<1>5. {"left", "ok"} \subseteq DOMAIN new /\ new.left = Entries(typed) /\ new.ok
  BY <1>1
<1>6. new.left = Entries(sentSettings'.form)
  BY <1>2, <1>4, <1>5
<1>7. Sending(new)'
  BY <1>4, <1>5, <1>6 DEF Sending
<1>8. IsSettings(typed)' /\ IsSettings(serverSettings)'
  BY <1>2 DEF AlertInv, IsSettings
<1>9. IsSettings(sentSettings.form)' /\ IsSettings(sentSettings.over)'
  BY <1>4, <1>8 DEF IsSettings
<1>10. QED
  BY <1>2, <1>3, <1>7, <1>8, <1>9 DEF AlertInv

LEMMA StepAlerts ==
  ASSUME AlertInv, [SettingsNext]_settingsVars
  PROVE  AlertInv'
<1> USE DEF shell, display, settingsForm
<1>1. ASSUME NEW l \in DOMAIN settingsLoads, SettingsLoaded(l) \/ SettingsNotLoaded(l)
      PROVE  AlertInv'
  <2>1. /\ UNCHANGED <<saved, error, settingsSaves, sentSettings, serverSettings, savedTwice>>
        /\ typed' \in {typed, Rounded(serverSettings)}
    BY <1>1 DEF SettingsLoaded, SettingsNotLoaded, Unheard
  <2>2. IsSettings(Rounded(serverSettings))
    BY DEF AlertInv, IsSettings, Rounded
  <2>3. IsSettings(typed')
    BY <2>1, <2>2 DEF AlertInv
  <2>4. QED
    BY <2>1, <2>3, SameAlerts DEF IsSettings
<1>2. ASSUME NEW enabled, SwitchDaily(enabled) PROVE AlertInv'
  <2>1. /\ UNCHANGED <<saved, error, settingsSaves, sentSettings, serverSettings, savedTwice>>
        /\ \E d, m : typed' = [daily |-> d, max |-> m]
    BY <1>2 DEF SwitchDaily
  <2>2. IsSettings(typed)'
    BY <2>1 DEF IsSettings
  <2>3. QED
    BY <2>1, <2>2, SameAlerts
<1>3. ASSUME NEW h, TypeDuration(h) PROVE AlertInv'
  <2>1. /\ UNCHANGED <<saved, error, settingsSaves, sentSettings, serverSettings, savedTwice>>
        /\ typed' = [typed EXCEPT !.max = h]
    BY <1>3 DEF TypeDuration
  <2>2. IsSettings(typed)'
    BY <2>1 DEF IsSettings, AlertInv
  <2>3. QED
    BY <2>1, <2>2, SameAlerts
<1>4. ASSUME NEW r \in domainRequests, DomainChanged(r) \/ DomainRefused(r) PROVE AlertInv'
  BY <1>4, SameAlerts DEF DomainChanged, DomainRefused, AlertInv, IsSettings
<1>5. ASSUME NEW l \in domainLists, DomainsRead(l) \/ DomainsListed(l) \/ DomainsNotListed(l)
      PROVE  AlertInv'
  BY <1>5, SameAlerts
  DEF DomainsRead, DomainsListed, DomainsNotListed, Unheard, AlertInv, IsSettings
<1>6. ASSUME NEW d, NEW kind, TypeDomain(d) \/ ChangeDomain(kind, d) PROVE AlertInv'
  <2>1. UNCHANGED <<saved, error, settingsForm>>
    BY <1>6 DEF TypeDomain, ChangeDomain
  <2>2. QED
    BY <2>1, SameAlerts DEF AlertInv, IsSettings
<1>7. CASE DeleteOrg \/ OrgDeleted \/ OrgNotDeleted
  BY <1>7, SameAlerts DEF DeleteOrg, OrgDeleted, OrgNotDeleted, Unheard, AlertInv, IsSettings
<1>8. CASE UNCHANGED settingsVars
  BY <1>8, SameAlerts DEF settingsVars, settingsPage, AlertInv, IsSettings
<1>9. QED
  BY <1>1, <1>2, <1>3, <1>4, <1>5, <1>6, <1>7, <1>8, StoredAlerts, RefusedAlerts, AnsweredAlerts,
     SavesAlerts
  DEF SettingsNext, SettingsAnswers, SettingsFailures, SettingsInputs

LEMMA InitAlerts == ShellInit /\ SettingsInit => AlertInv
<1> SUFFICES ASSUME ShellInit, SettingsInit PROVE AlertInv
  OBVIOUS
<1>1. serverSettings = [daily |-> serverSettings.daily, max |-> serverSettings.max]
  BY DEF SettingsInit, SettingsRecords
<1>2. QED
  BY <1>1 DEF SettingsInit, ShellInit, AlertInv, IsSettings
----------------------------------------------------------------------------
(* The area editor: its attributes.                                        *)

VisitTyped == visit \in [page : STRING, inputs : SUBSET STRING, count : Nat, failures : Nat]
DataLoaded == loadsOfArea["data"] = "done"

\* What a request for attribute a sends once the page has nothing else to send.
Wanted(a) == IF a \in DOMAIN attributeValues THEN attributeValues[a] ELSE NoValue
SameAttribute(a) ==
  /\ a \in DOMAIN attributeValues <=> a \in DOMAIN serverAttributes
  /\ a \in DOMAIN attributeValues => attributeValues[a] = serverAttributes[a]

\* A value is a stamp and never stands for its absence.
Values(f) == f = [a \in DOMAIN f |-> f[a]] /\ \A a \in DOMAIN f : f[a] # NoValue

\* Nothing is read while a save is being answered.  When no request is pending, the
\* server has no attribute the page has not, but for those deleted; and if none
\* was edited, they have the same.  While requests are pending, those
\* of one save, the server has already what none of them is about.
Attributed ==
  /\ reloads # {} => attributeRequests = {}
  /\ \A r \in reloads : r.at = "valuesRead" => r.values = serverAttributes
  /\ \A r, q \in attributeRequests : r.n = q.n
  /\ deletedAttributeIds \cap DOMAIN attributeValues = {}
  /\ ~DataLoaded => /\ ~attributesEdited /\ attributeRequests = {}
                    /\ deletedAttributeIds = {} /\ saveStep = "none"
  /\ DataLoaded /\ attributeRequests = {} =>
       /\ DOMAIN serverAttributes \ deletedAttributeIds \subseteq DOMAIN attributeValues
       /\ ~attributesEdited => attributeValues = serverAttributes /\ deletedAttributeIds = {}
  /\ attributeRequests # {} /\ ~attributesEdited =>
       /\ \A r \in attributeRequests : r.value = Wanted(r.id)
       /\ \A a : (\A r \in attributeRequests : r.id # a) => SameAttribute(a)

AttributesInv ==
  /\ VisitTyped /\ DOMAIN loadsOfArea = {"data", "timezones"}
  /\ ~loading => DataLoaded
  /\ Values(attributeValues) /\ Values(serverAttributes)
  /\ \A r \in reloads : r.at = "valuesRead" => Values(r.values)
  /\ ~attributesRaced /\ ~addedAgain /\ ~uncaught => Attributed

LEMMA VisitStaysTyped ==
  ASSUME VisitTyped, UNCHANGED visit \/ Failure \/ \E kind : Input(kind)
  PROVE  VisitTyped'
BY DEF VisitTyped, Failure, Input

\* Steps that leave the attributes alone, or start a reading when nothing is pending.
LEMMA SameAttributes ==
  ASSUME AttributesInv, VisitTyped',
         UNCHANGED <<attributeValues, deletedAttributeIds, attributesEdited, addedAgain,
                     attributeRequests, serverAttributes>>,
         DOMAIN loadsOfArea' = DOMAIN loadsOfArea, loadsOfArea'["data"] = loadsOfArea["data"],
         ~loading' => DataLoaded, ~uncaught' => ~uncaught, ~attributesRaced' => ~attributesRaced,
         saveStep' = "none" \/ saveStep # "none" \/ DataLoaded,
         \A r \in reloads' : r \in reloads \/ r.at # "valuesRead",
         reloads' # {} => reloads # {} \/ attributeRequests = {} \/ attributesRaced'
  PROVE  AttributesInv'
<1>1. /\ DOMAIN loadsOfArea' = {"data", "timezones"} /\ (DataLoaded' <=> DataLoaded)
      /\ ~loading' => DataLoaded'
      /\ Values(attributeValues)' /\ Values(serverAttributes)'
  BY DEF AttributesInv, DataLoaded, Values
<1>2. ASSUME NEW r \in reloads', r.at = "valuesRead" PROVE Values(r.values)'
  BY <1>2 DEF AttributesInv, Values
<1>3. ASSUME ~attributesRaced', ~addedAgain', ~uncaught' PROVE Attributed'
  <2>1. Attributed
    BY <1>3 DEF AttributesInv
  <2>2. reloads' # {} => attributeRequests' = {}
    BY <1>3, <2>1 DEF Attributed
  <2>3. \A r \in reloads' : r.at = "valuesRead" => r.values = serverAttributes'
    BY <2>1 DEF Attributed
  <2>4. ~DataLoaded' => /\ ~attributesEdited' /\ attributeRequests' = {}
                        /\ deletedAttributeIds' = {} /\ saveStep' = "none"
    BY <1>1, <2>1 DEF Attributed
  <2>5. QED
    BY <1>1, <2>1, <2>2, <2>3, <2>4 DEF Attributed, SameAttribute, Wanted
<1>4. \A r \in reloads' : r.at = "valuesRead" => Values(r.values)'
  BY <1>2
<1>5. QED
  BY <1>1, <1>3, <1>4 DEF AttributesInv

LEMMA ReloadReadAttributes ==
  ASSUME AttributesInv, NEW r \in reloads, ReloadRead(r)
  PROVE  AttributesInv'
<1>1. PICK new : new = IF r.at = "spaces"
                         THEN [n |-> r.n, at |-> "spacesRead", spaces |-> serverSpaces]
                         ELSE [n |-> r.n, at |-> "valuesRead", values |-> serverAttributes]
  OBVIOUS
<1>2. /\ reloads' = (reloads \ {r}) \cup {new}
      /\ attributesRaced' = (attributesRaced \/ attributeRequests # {})
      /\ UNCHANGED <<visit, loading, uncaught, loadsOfArea, attributeValues, deletedAttributeIds,
                     attributesEdited, addedAgain, attributeRequests, saveStep, serverAttributes>>
  BY <1>1 DEF ReloadRead, shell, display, waits, attributes, server, saveProgress
<1>3. new.at = "valuesRead" => new.values = serverAttributes
  BY <1>1
<1>4. \A s \in reloads' : s.at = "valuesRead" => Values(s.values)'
  BY <1>2, <1>3 DEF AttributesInv, Values
<1>5. ASSUME ~attributesRaced', ~addedAgain', ~uncaught' PROVE Attributed'
  <2>1. Attributed /\ attributeRequests = {}
    BY <1>2, <1>5 DEF AttributesInv
  <2>2. \A s \in reloads' : s.at = "valuesRead" => s.values = serverAttributes'
    BY <1>2, <1>3, <2>1 DEF Attributed
  <2>3. QED
    BY <1>2, <2>1, <2>2 DEF Attributed, DataLoaded
<1>6. QED
  BY <1>2, <1>4, <1>5 DEF AttributesInv, DataLoaded, Values, VisitTyped

LEMMA ValuesLoadedAttributes ==
  ASSUME AttributesInv, NEW r \in reloads, ValuesLoaded(r)
  PROVE  AttributesInv'
<1>1. /\ r.at = "valuesRead" /\ reloads' = reloads \ {r} /\ attributeValues' = r.values
      /\ loadsOfArea' = [loadsOfArea EXCEPT !["data"] = "done"]
      /\ attributesRaced' = (attributesRaced \/ attributesEdited)
      /\ UNCHANGED <<visit, uncaught, deletedAttributeIds, attributesEdited, addedAgain,
                     attributeRequests, saveStep, serverAttributes>>
  BY DEF ValuesLoaded, saveProgress, server
<1>2. DOMAIN loadsOfArea' = {"data", "timezones"} /\ DataLoaded'
  BY <1>1 DEF AttributesInv, DataLoaded
<1>3. Values(attributeValues)' /\ Values(serverAttributes)'
  BY <1>1 DEF AttributesInv, Values
<1>4. ASSUME ~attributesRaced', ~addedAgain', ~uncaught' PROVE Attributed'
  <2>1. Attributed /\ ~attributesEdited /\ attributeRequests = {}
    BY <1>1, <1>4 DEF AttributesInv, Attributed
  <2>2. deletedAttributeIds = {} /\ r.values = serverAttributes
    BY <1>1, <2>1 DEF Attributed
  <2>3. QED
    BY <1>1, <1>2, <2>1, <2>2 DEF Attributed
<1>5. \A s \in reloads' : s.at = "valuesRead" => Values(s.values)'
  BY <1>1 DEF AttributesInv, Values
<1>6. VisitTyped'
  BY <1>1 DEF AttributesInv, VisitTyped
<1>7. QED
  BY <1>2, <1>3, <1>4, <1>5, <1>6 DEF AttributesInv

LEMMA EditsAttributes ==
  ASSUME AttributesInv, NEW a, setAttribute(a) \/ deleteAttribute(a)
  PROVE  AttributesInv'
<1>1. /\ DataLoaded /\ attributesEdited' = TRUE
      /\ attributesRaced' = (attributesRaced \/ reloads # {})
      /\ \E kind : Input(kind)
      /\ UNCHANGED <<loading, uncaught, loadsOfArea, attributeRequests, reloads, saveStep,
                     serverAttributes>>
  BY DEF setAttribute, deleteAttribute, AttributeEdit, AttributesInv, Shown, display, waits,
     saveProgress, server
<1>2. VisitTyped' /\ Stamp \in Nat
  BY <1>1, VisitStaysTyped DEF AttributesInv, VisitTyped, Stamp
<1>3. Stamp # NoValue
  BY <1>2 DEF NoValue
<1>4. Values(attributeValues)'
  <2>1. CASE setAttribute(a)
    <3>1. attributeValues' = [b \in DOMAIN attributeValues \cup {a} |->
                                IF b = a THEN Stamp ELSE attributeValues[b]]
      BY <2>1 DEF setAttribute
    <3>2. QED
      BY <3>1, <1>3 DEF AttributesInv, Values
  <2>2. CASE deleteAttribute(a)
    <3>1. attributeValues' = [b \in DOMAIN attributeValues \ {a} |-> attributeValues[b]]
      BY <2>2 DEF deleteAttribute
    <3>2. QED
      BY <3>1 DEF AttributesInv, Values
  <2>3. QED
    BY <2>1, <2>2
<1>5. ASSUME ~attributesRaced', ~addedAgain', ~uncaught' PROVE Attributed'
  <2>1. Attributed /\ reloads = {}
    BY <1>1, <1>5 DEF AttributesInv, setAttribute, deleteAttribute
  <2>2. /\ deletedAttributeIds' \cap DOMAIN attributeValues' = {}
        /\ DOMAIN attributeValues \ deletedAttributeIds'
             \subseteq DOMAIN attributeValues' \ deletedAttributeIds
        /\ deletedAttributeIds \subseteq deletedAttributeIds'
    BY <1>5, <2>1 DEF setAttribute, deleteAttribute, NoteDeletion, Attributed
  <2>3. attributeRequests = {} =>
          DOMAIN serverAttributes \ deletedAttributeIds' \subseteq DOMAIN attributeValues'
    BY <1>1, <2>1, <2>2 DEF Attributed
  <2>4. DataLoaded'
    BY <1>1 DEF DataLoaded
  <2>5. QED
    BY <1>1, <2>1, <2>2, <2>3, <2>4 DEF Attributed
<1>6. \A r \in reloads' : r.at = "valuesRead" => Values(r.values)'
  BY <1>1 DEF AttributesInv, Values
<1>7. QED
  BY <1>1, <1>2, <1>4, <1>5, <1>6 DEF AttributesInv, DataLoaded, Values

\* A save sends what is wanted, for every attribute the server does not have so.
LEMMA SaveSendsAttributes ==
  ASSUME AttributesInv, AreaSaved
  PROVE  AttributesInv'
<1>1. /\ saveStep = "area" /\ attributesEdited' = FALSE
      /\ attributeRequests' = attributeRequests \cup AttributeRequests
      /\ attributesRaced' = (attributesRaced \/ attributeRequests # {} \/ reloads # {})
      /\ UNCHANGED <<visit, loading, uncaught, loadsOfArea, attributeValues, deletedAttributeIds,
                     addedAgain, reloads, serverAttributes>>
  BY DEF AreaSaved, server
<1>2. ASSUME ~attributesRaced', ~addedAgain', ~uncaught' PROVE Attributed'
  <2>1. Attributed /\ attributeRequests = {} /\ reloads = {} /\ DataLoaded
    BY <1>1, <1>2 DEF AttributesInv, Attributed
  <2>2. attributeRequests' = AttributeRequests
    BY <1>1, <2>1
  <2>3. ASSUME NEW r \in AttributeRequests
        PROVE  /\ r.n = Stamp /\ r.value = Wanted(r.id)
               /\ r.id \in DOMAIN attributeValues \cup deletedAttributeIds
    <3>1. CASE \E a \in DOMAIN attributeValues :
                 r = [n |-> Stamp, id |-> a, value |-> attributeValues[a]]
      BY <3>1 DEF Wanted
    <3>2. CASE \E a \in deletedAttributeIds : r = [n |-> Stamp, id |-> a, value |-> NoValue]
      BY <3>2, <2>1 DEF Wanted, Attributed
    <3>3. QED
      BY <3>1, <3>2 DEF AttributeRequests
  <2>4. ASSUME NEW a, \A r \in AttributeRequests : r.id # a
        PROVE  a \notin DOMAIN attributeValues /\ a \notin deletedAttributeIds
    <3>1. a \in DOMAIN attributeValues =>
            [n |-> Stamp, id |-> a, value |-> attributeValues[a]] \in AttributeRequests
      BY DEF AttributeRequests
    <3>2. a \in deletedAttributeIds =>
            [n |-> Stamp, id |-> a, value |-> NoValue] \in AttributeRequests
      BY DEF AttributeRequests
    <3>3. QED
      BY <2>4, <3>1, <3>2
  <2>5. /\ \A r, q \in attributeRequests' : r.n = q.n
        /\ \A r \in attributeRequests' : r.value = Wanted(r.id)'
    BY <1>1, <2>2, <2>3 DEF Wanted
  <2>6. \A a : (\A r \in attributeRequests' : r.id # a) => SameAttribute(a)'
    BY <1>1, <2>1, <2>2, <2>4 DEF SameAttribute, Attributed
  <2>7. attributeRequests' = {} =>
          attributeValues = serverAttributes /\ deletedAttributeIds = {}
    <3>1. attributeRequests' = {} => DOMAIN attributeValues = {} /\ deletedAttributeIds = {}
      BY <2>2, <2>4
    <3>2. attributeRequests' = {} => DOMAIN serverAttributes = {}
      BY <2>1, <3>1 DEF Attributed
    <3>3. QED
      BY <3>1, <3>2 DEF AttributesInv, Values
  <2>8. DataLoaded'
    BY <1>1, <2>1 DEF DataLoaded
  <2>9. QED
    BY <1>1, <2>1, <2>5, <2>6, <2>7, <2>8 DEF Attributed
<1>3. QED
  BY <1>1, <1>2 DEF AttributesInv, DataLoaded, Values, VisitTyped

LEMMA AnswersAttributes ==
  ASSUME AttributesInv, NEW r \in attributeRequests, AttributeAnswered(r)
  PROVE  AttributesInv'
<1>1. /\ attributeRequests' = attributeRequests \ {r}
      /\ serverAttributes' =
           IF r.value = NoValue
             THEN [a \in DOMAIN serverAttributes \ {r.id} |-> serverAttributes[a]]
             ELSE [a \in DOMAIN serverAttributes \cup {r.id} |->
                     IF a = r.id THEN r.value ELSE serverAttributes[a]]
      /\ deletedAttributeIds' =
           IF \A other \in attributeRequests' : other.n # r.n THEN {} ELSE deletedAttributeIds
      /\ attributesRaced' = (attributesRaced \/ attributesEdited)
      /\ UNCHANGED <<visit, loading, uncaught, loadsOfArea, attributeValues, attributesEdited,
                     addedAgain, reloads, saveStep>>
  BY DEF AttributeAnswered, shell, display, waits, saveProgress
<1>2. Values(serverAttributes)'
  <2>1. CASE r.value = NoValue
    BY <1>1, <2>1 DEF AttributesInv, Values
  <2>2. CASE r.value # NoValue
    BY <1>1, <2>2 DEF AttributesInv, Values
  <2>3. QED
    BY <2>1, <2>2
<1>3. ASSUME ~attributesRaced', ~addedAgain', ~uncaught' PROVE Attributed'
  <2>1. Attributed /\ ~attributesEdited /\ reloads = {} /\ DataLoaded
    BY <1>1, <1>3 DEF AttributesInv, Attributed
  <2>2. r.value = Wanted(r.id)
    BY <2>1 DEF Attributed
  <2>3. ASSUME NEW a, SameAttribute(a) \/ a = r.id PROVE SameAttribute(a)'
    <3>1. a \in DOMAIN attributeValues => attributeValues[a] # NoValue
      BY DEF AttributesInv, Values
    <3>2. CASE a = r.id /\ a \in DOMAIN attributeValues
      BY <1>1, <2>2, <3>1, <3>2 DEF SameAttribute, Wanted
    <3>3. CASE a = r.id /\ a \notin DOMAIN attributeValues
      BY <1>1, <2>2, <3>3 DEF SameAttribute, Wanted
    <3>4. CASE a # r.id
      <4>1. SameAttribute(a)
        BY <2>3, <3>4
      <4>2. QED
        BY <1>1, <3>4, <4>1 DEF SameAttribute
    <3>5. QED
      BY <3>2, <3>3, <3>4
  <2>4. \A a : (\A q \in attributeRequests' : q.id # a) => SameAttribute(a)'
    <3>1. SUFFICES ASSUME NEW a, \A q \in attributeRequests' : q.id # a PROVE SameAttribute(a)'
      OBVIOUS
    <3>2. a = r.id \/ \A q \in attributeRequests : q.id # a
      BY <1>1, <3>1
    <3>3. QED
      BY <2>1, <2>3, <3>2 DEF Attributed
  <2>5. attributeRequests' = {} =>
          attributeValues' = serverAttributes' /\ deletedAttributeIds' = {}
    <3>1. attributeRequests' = {} => \A a : SameAttribute(a)'
      BY <2>4
    <3>2. Values(attributeValues)'
      BY <1>1 DEF AttributesInv, Values
    <3>3. (\A a : SameAttribute(a)') => attributeValues' = serverAttributes'
      BY <1>2, <3>2 DEF SameAttribute, Values
    <3>4. QED
      BY <1>1, <3>1, <3>3
  <2>6. deletedAttributeIds' \subseteq deletedAttributeIds /\ DataLoaded'
    BY <1>1, <2>1 DEF DataLoaded
  <2>7. /\ \A s, q \in attributeRequests' : s.n = q.n
        /\ \A s \in attributeRequests' : s.value = Wanted(s.id)'
    BY <1>1, <2>1 DEF Attributed, Wanted
  <2>8. deletedAttributeIds' \cap DOMAIN attributeValues' = {}
    BY <1>1, <2>1, <2>6 DEF Attributed
  <2>9. QED
    BY <1>1, <2>1, <2>4, <2>5, <2>6, <2>7, <2>8 DEF Attributed
<1>4. QED
  BY <1>1, <1>2, <1>3 DEF AttributesInv, DataLoaded, Values, VisitTyped

LEMMA StepAttributes ==
  ASSUME AttributesInv, [AreaNext]_areaVars
  PROVE  AttributesInv'
<1> USE DEF shell, display, waits, attributes, server, saveProgress
<1>1. CASE TimezonesLoaded \/ TimezonesFailed
  <2>1. /\ loadsOfArea'["data"] = loadsOfArea["data"] /\ DOMAIN loadsOfArea' = DOMAIN loadsOfArea
        /\ UNCHANGED visit \/ Failure
        /\ ~loading' => ~loading \/ loadsOfArea["data"] = "done"
        /\ ~uncaught' => ~uncaught
        /\ UNCHANGED <<attributes, attributeRequests, reloads, serverAttributes, saveStep,
                       attributesRaced>>
    <3>1. CASE TimezonesLoaded
      <4>1. /\ loadsOfArea' = [loadsOfArea EXCEPT !["timezones"] = "done"]
            /\ loading' = (loadsOfArea["data"] # "done")
            /\ UNCHANGED <<visit, uncaught, attributes, attributeRequests, reloads,
                           serverAttributes, saveStep, attributesRaced>>
        BY <3>1 DEF TimezonesLoaded
      <4>2. QED
        BY <4>1 DEF AttributesInv
    <3>2. CASE TimezonesFailed
      <4>1. /\ loadsOfArea' = [loadsOfArea EXCEPT !["timezones"] = "failed"]
            /\ Failure /\ uncaught' = TRUE
            /\ UNCHANGED <<loading, attributes, attributeRequests, reloads, serverAttributes,
                           saveStep, attributesRaced>>
        BY <3>2 DEF TimezonesFailed, Unheard
      <4>2. QED
        BY <4>1 DEF AttributesInv
    <3>3. QED
      BY <1>1, <3>1, <3>2
  <2>2. VisitTyped' /\ (~loading' => DataLoaded)
    BY <2>1, VisitStaysTyped DEF AttributesInv, DataLoaded
  <2>3. QED
    BY <2>1, <2>2, SameAttributes
<1>2. ASSUME NEW r \in reloads, SpacesLoaded(r) \/ ReloadFailed(r) PROVE AttributesInv'
  <2>1. /\ UNCHANGED <<loadsOfArea, attributes, attributeRequests, serverAttributes, saveStep,
                       attributesRaced, loading>>
        /\ UNCHANGED visit \/ Failure
        /\ ~uncaught' => ~uncaught
        /\ \A s \in reloads' : s \in reloads \/ s.at # "valuesRead"
    BY <1>2 DEF SpacesLoaded, ReloadFailed, Unheard
  <2>2. VisitTyped' /\ (~loading' => DataLoaded)
    BY <2>1, VisitStaysTyped DEF AttributesInv
  <2>3. QED
    BY <2>1, <2>2, SameAttributes
<1>3. CASE addRect \/ copySpace \/ deleteSpace
           \/ (\E i \in DOMAIN rects, dragged \in BOOLEAN : SetSpace(i, dragged)) \/ ChooseFile
           \/ DeleteArea
  <2>1. /\ UNCHANGED <<loadsOfArea, attributes, attributeRequests, reloads, serverAttributes,
                       saveStep, attributesRaced, loading, uncaught>>
        /\ \E kind : Input(kind)
    BY <1>3 DEF addRect, copySpace, deleteSpace, SetSpace, PlanEdit, ChooseFile, DeleteArea
  <2>2. VisitTyped' /\ (~loading' => DataLoaded)
    BY <2>1, VisitStaysTyped DEF AttributesInv
  <2>3. QED
    BY <2>1, <2>2, SameAttributes
<1>4. CASE SaveArea
  <2>1. /\ UNCHANGED <<loadsOfArea, attributes, attributeRequests, reloads, serverAttributes,
                       attributesRaced, loading, uncaught>>
        /\ \E kind : Input(kind) /\ ~loading
    BY <1>4 DEF SaveArea, Shown
  <2>2. VisitTyped' /\ DataLoaded
    BY <2>1, VisitStaysTyped DEF AttributesInv
  <2>3. QED
    BY <2>1, <2>2, SameAttributes
<1>5. CASE BulkUpdated \/ FileUploaded
  <2>1. /\ UNCHANGED <<visit, loadsOfArea, attributes, attributeRequests, serverAttributes, loading,
                       uncaught>>
        /\ saveStep # "none" /\ (~attributesRaced' => ~attributesRaced)
        /\ \A s \in reloads' : s \in reloads \/ s.at # "valuesRead"
        /\ reloads' # {} => reloads # {} \/ attributeRequests = {} \/ attributesRaced'
    <3>1. CASE BulkUpdated
      BY <3>1 DEF BulkUpdated
    <3>2. CASE FileUploaded
      <4>1. PICK new : new = [n |-> Stamp, at |-> "spaces"]
        OBVIOUS
      <4>2. /\ reloads' = reloads \cup {new} /\ saveStep # "none"
            /\ attributesRaced' = (attributesRaced \/ attributeRequests # {})
            /\ UNCHANGED <<visit, loadsOfArea, attributes, attributeRequests, serverAttributes,
                           loading, uncaught>>
        BY <3>2, <4>1 DEF FileUploaded
      <4>3. \A s \in reloads' : s \in reloads \/ s.at # "valuesRead"
        BY <4>1, <4>2
      <4>4. (~attributesRaced' => ~attributesRaced) /\ (attributeRequests = {} \/ attributesRaced')
        BY <4>2
      <4>5. QED
        BY <4>2, <4>3, <4>4
    <3>3. QED
      BY <1>5, <3>1, <3>2
  <2>2. VisitTyped' /\ (~loading' => DataLoaded)
    BY <2>1, VisitStaysTyped DEF AttributesInv
  <2>3. QED
    BY <2>1, <2>2, SameAttributes
<1>6. CASE SaveFailed
  <2>1. /\ UNCHANGED <<loadsOfArea, attributes, attributeRequests, reloads, serverAttributes,
                       attributesRaced, loading>>
        /\ Failure /\ saveStep # "none" /\ uncaught' = TRUE
    BY <1>6 DEF SaveFailed, Unheard
  <2>2. VisitTyped' /\ (~loading' => DataLoaded)
    BY <2>1, VisitStaysTyped DEF AttributesInv
  <2>3. QED
    BY <2>1, <2>2, SameAttributes
<1>7. ASSUME NEW r \in attributeRequests, AttributeRefused(r) PROVE AttributesInv'
  <2>1. /\ UNCHANGED <<loadsOfArea, attributeValues, reloads, serverAttributes, loading>>
        /\ Failure /\ uncaught' = TRUE
    BY <1>7 DEF AttributeRefused, Unheard
  <2>2. VisitTyped'
    BY <2>1, VisitStaysTyped DEF AttributesInv
  <2>3. QED
    BY <2>1, <2>2 DEF AttributesInv, DataLoaded, Values
<1>8. CASE UNCHANGED areaVars
  <2>1. UNCHANGED <<visit, loadsOfArea, attributes, attributeRequests, reloads, serverAttributes,
                    saveStep, attributesRaced, loading, uncaught>>
    BY <1>8 DEF areaVars, areaPage
  <2>2. VisitTyped' /\ (~loading' => DataLoaded)
    BY <2>1, VisitStaysTyped DEF AttributesInv
  <2>3. QED
    BY <2>1, <2>2, SameAttributes
<1>9. QED
  BY <1>1, <1>2, <1>3, <1>4, <1>5, <1>6, <1>7, <1>8, ReloadReadAttributes, ValuesLoadedAttributes,
     EditsAttributes, SaveSendsAttributes, AnswersAttributes
  DEF AreaNext, AreaAnswers, AreaFailures, AreaInputs

LEMMA AttributesShownAreStored ==
  ASSUME AttributesInv
  PROVE  AttributesAreStored
BY DEF AttributesInv, Attributed, AttributesAreStored, Shown

LEMMA InitAttributes == VisitInit /\ ShellInit /\ AreaInit => AttributesInv
<1> SUFFICES ASSUME VisitInit, ShellInit, AreaInit PROVE AttributesInv
  OBVIOUS
<1>1. VisitTyped
  BY VisitsAssumption DEF VisitInit, VisitTyped
<1>2. DOMAIN loadsOfArea = {"data", "timezones"} /\ (DataLoaded <=> ~areaHasId)
  BY DEF AreaInit, DataLoaded
<1>3. attributeValues = <<>> /\ Values(attributeValues) /\ DOMAIN attributeValues = {}
  <2>1. attributeValues = <<>>
    BY DEF AreaInit
  <2>2. QED
    BY <2>1 DEF Values
<1>4. IF areaHasId THEN serverAttributes = [a \in SpaceAttributes |-> 0]
      ELSE serverAttributes = <<>>
  BY DEF AreaInit
<1>5. Values(serverAttributes)
  <2>1. CASE areaHasId
    BY <1>4, <2>1 DEF Values, NoValue
  <2>2. CASE ~areaHasId
    BY <1>3, <1>4, <2>2
  <2>3. QED
    BY <2>1, <2>2
<1>6. \A r \in reloads : r.at = "spaces"
  BY DEF AreaInit
<1>7. Attributed
  <2>1. /\ attributeRequests = {} /\ deletedAttributeIds = {} /\ ~attributesEdited
        /\ saveStep = "none"
    BY DEF AreaInit
  <2>2. DataLoaded => attributeValues = serverAttributes
    BY <1>2, <1>3, <1>4
  <2>3. QED
    BY <1>6, <2>1, <2>2 DEF Attributed
<1>8. QED
  BY <1>1, <1>2, <1>3, <1>5, <1>6, <1>7 DEF AttributesInv, ShellInit
----------------------------------------------------------------------------
(* The area editor: its spaces.                                            *)

Undisturbed == ~editedMeanwhile /\ ~orphaned /\ ~partly /\ ~uncaught
Rects == [id : Nat, content : Nat, changed : BOOLEAN]
StoredSpaces == [id : Nat, content : Nat]

\* There is nothing to save.
Clean == deleteIds = {} /\ \A i \in DOMAIN rects : ~rects[i].changed

\* Space s of the server is the one the i-th of the page created, which has not
\* learnt its id, and none that another has or that is to be deleted.
Created(i, s) ==
  /\ rects[i].id = NoId /\ ~rects[i].changed /\ s.content = rects[i].content
  /\ s.id \notin deleteIds /\ \A j \in DOMAIN rects : rects[j].id # s.id

\* The page and the server fit together, but for what is still to be saved.
Fit ==
  /\ \A i \in DOMAIN rects : rects[i].id # NoId =>
       /\ rects[i].id \notin deleteIds
       /\ \E s \in serverSpaces : s.id = rects[i].id
       /\ \A j \in DOMAIN rects : rects[j].id = rects[i].id => i = j
  /\ \A i \in DOMAIN rects : ~rects[i].changed =>
       \E s \in serverSpaces : /\ s.content = rects[i].content
                               /\ Created(i, s) \/ s.id = rects[i].id
  /\ \A s \in serverSpaces :
       \/ s.id \in deleteIds
       \/ \E i \in DOMAIN rects :
            \/ Created(i, s)
            \/ rects[i].id = s.id /\ (~rects[i].changed => rects[i].content = s.content)

\* The spaces have been on the page.
SpacesShown == DataLoaded \/ \E r \in reloads : r.at \in {"values", "valuesRead"}

Spaced ==
  /\ rects \in Seq(Rects) /\ deleteIds \subseteq Nat
  /\ serverSpaces \subseteq StoredSpaces /\ IsFiniteSet(serverSpaces)
  /\ nextId \in Nat \ {0} /\ \A s \in serverSpaces : s.id \in 1 .. nextId - 1
  /\ ~changed \/ saveStep = "file" \/ reloads # {} => Clean
  /\ saveStep = "spaces" => bulk = BulkUpdate /\ reloads = {}
  /\ \A r \in reloads : r.at = "spacesRead" => r.spaces = serverSpaces
  /\ SpacesShown => Fit

SpacesInv ==
  /\ VisitTyped /\ DOMAIN loadsOfArea = {"data", "timezones"}
  /\ ~loading => DataLoaded
  /\ Undisturbed => Spaced

\* Steps that leave the spaces alone, on the page and on the server.
LEMMA SameSpaces ==
  ASSUME SpacesInv, VisitTyped', UNCHANGED <<rects, deleteIds, bulk, serverSpaces, nextId>>,
         DOMAIN loadsOfArea' = DOMAIN loadsOfArea, loadsOfArea'["data"] = loadsOfArea["data"],
         ~loading' => DataLoaded, Undisturbed' => Undisturbed,
         Undisturbed' /\ (~changed' \/ saveStep' = "file" \/ reloads' # {}) => Clean,
         saveStep' = "spaces" => saveStep = "spaces" /\ (reloads = {} => reloads' = {}),
         \A r \in reloads' : \/ r \in reloads \/ r.at = "spaces"
                             \/ r.at = "spacesRead" /\ r.spaces = serverSpaces
                             \/ r.at = "valuesRead" /\ (Undisturbed' => SpacesShown)
  PROVE  SpacesInv'
<1>1. /\ DOMAIN loadsOfArea' = {"data", "timezones"} /\ (DataLoaded' <=> DataLoaded)
      /\ ~loading' => DataLoaded'
  BY DEF SpacesInv, DataLoaded
<1>2. ASSUME Undisturbed' PROVE Spaced'
  <2>1. Spaced
    BY <1>2 DEF SpacesInv
  <2>2. (~changed \/ saveStep = "file" \/ reloads # {} => Clean)'
    BY <1>2 DEF Clean
  <2>3. saveStep' = "spaces" => bulk' = BulkUpdate' /\ reloads' = {}
    BY <2>1 DEF Spaced, BulkUpdate
  <2>4. \A r \in reloads' : r.at = "spacesRead" => r.spaces = serverSpaces'
    BY <2>1 DEF Spaced
  <2>5. SpacesShown' => SpacesShown
    BY <1>1, <1>2 DEF SpacesShown
  <2>6. SpacesShown' => Fit'
    BY <2>1, <2>5 DEF Spaced, Fit, Created
  <2>7. QED
    BY <2>1, <2>2, <2>3, <2>4, <2>6 DEF Spaced
<1>3. QED
  BY <1>1, <1>2 DEF SpacesInv

\* A new space is one still to be saved.
LEMMA AddingFits ==
  ASSUME rects \in Seq(Rects), Fit, NEW new \in Rects, new.id = NoId, new.changed,
         rects' = Append(rects, new), UNCHANGED <<deleteIds, serverSpaces>>
  PROVE  Fit' /\ rects' \in Seq(Rects)
<1>1. /\ rects' \in Seq(Rects) /\ DOMAIN rects = 1 .. Len(rects) /\ Len(rects) \in Nat
      /\ DOMAIN rects' = 1 .. Len(rects) + 1 /\ rects'[Len(rects) + 1] = new
      /\ \A i \in DOMAIN rects : rects'[i] = rects[i]
  OBVIOUS
<1>2. /\ DOMAIN rects' = DOMAIN rects \cup {Len(rects) + 1} /\ Len(rects) + 1 \notin DOMAIN rects
      /\ DOMAIN rects \subseteq DOMAIN rects'
  BY <1>1
<1>3. \A s \in serverSpaces, i \in DOMAIN rects : Created(i, s) => Created(i, s)' \/ s.id = NoId
  BY <1>1, <1>2 DEF Created
<1>4. QED
  BY <1>1, <1>2, <1>3 DEF Fit, Created

\* A space that is edited keeps its id, and is no longer as it was saved.
LEMMA EditingFits ==
  ASSUME rects \in Seq(Rects), Fit, NEW i \in DOMAIN rects, ~Orphan(rects[i]),
         NEW new \in Rects, new.id = rects[i].id, new.changed,
         rects' = [rects EXCEPT ![i] = new], UNCHANGED <<deleteIds, serverSpaces>>
  PROVE  Fit' /\ rects' \in Seq(Rects)
<1>1. /\ rects' \in Seq(Rects) /\ DOMAIN rects' = DOMAIN rects /\ rects'[i] = new
      /\ \A j \in DOMAIN rects : j # i => rects'[j] = rects[j]
      /\ \A j \in DOMAIN rects : rects'[j].id = rects[j].id
  OBVIOUS
<1>2. \A s \in serverSpaces, j \in DOMAIN rects : Created(j, s) => Created(j, s)'
  BY <1>1 DEF Created, Orphan
<1>3. \A j \in DOMAIN rects : rects'[j].id # NoId =>
        /\ rects'[j].id \notin deleteIds'
        /\ \E s \in serverSpaces' : s.id = rects'[j].id
        /\ \A k \in DOMAIN rects' : rects'[k].id = rects'[j].id => j = k
  BY <1>1 DEF Fit
<1>4. \A j \in DOMAIN rects : ~rects'[j].changed =>
        \E s \in serverSpaces : s.content = rects'[j].content
                                /\ (Created(j, s)' \/ s.id = rects'[j].id)
  BY <1>1, <1>2 DEF Fit
<1>5. \A s \in serverSpaces :
        \/ s.id \in deleteIds
        \/ \E j \in DOMAIN rects :
             \/ Created(j, s)'
             \/ rects'[j].id = s.id /\ (~rects'[j].changed => rects'[j].content = s.content)
  BY <1>1, <1>2 DEF Fit
<1>6. QED
  BY <1>1, <1>3, <1>4, <1>5 DEF Fit

LEMMA Joined ==
  ASSUME NEW S, NEW a \in Seq(S), NEW b \in Seq(S)
  PROVE  /\ a \o b \in Seq(S) /\ Len(a \o b) = Len(a) + Len(b)
         /\ DOMAIN (a \o b) = 1 .. Len(a) + Len(b)
         /\ \A j \in 1 .. Len(a) : (a \o b)[j] = a[j]
         /\ \A j \in Len(a) + 1 .. Len(a) + Len(b) : (a \o b)[j] = b[j - Len(a)]
OBVIOUS

\* What is left of a sequence without its i-th element.
Without(q, i, p) ==
  \E at \in [DOMAIN p -> DOMAIN q] :
    /\ \A j \in DOMAIN p : p[j] = q[at[j]] /\ at[j] # i
    /\ \A j, k \in DOMAIN p : at[j] = at[k] => j = k
    /\ \A m \in DOMAIN q \ {i} : \E j \in DOMAIN p : at[j] = m

LEMMA WithoutOne ==
  ASSUME NEW S, NEW q \in Seq(S), NEW i \in DOMAIN q, NEW p,
         p = SubSeq(q, 1, i - 1) \o SubSeq(q, i + 1, Len(q))
  PROVE  p \in Seq(S) /\ Without(q, i, p)
<1>1. /\ Len(q) \in Nat /\ DOMAIN q = 1 .. Len(q) /\ i \in 1 .. Len(q)
  OBVIOUS
<1> DEFINE a == SubSeq(q, 1, i - 1)
           b == SubSeq(q, i + 1, Len(q))
<1>2. a \in Seq(S) /\ Len(a) = i - 1 /\ \A j \in 1 .. i - 1 : a[j] = q[j]
  BY <1>1
<1>3. b \in Seq(S) /\ Len(b) = Len(q) - i /\ \A j \in 1 .. Len(q) - i : b[j] = q[i + j]
  BY <1>1
<1> HIDE DEF a, b
<1>4. p = a \o b
  BY DEF a, b
<1>5. /\ p \in Seq(S) /\ Len(p) = Len(a) + Len(b) /\ DOMAIN p = 1 .. Len(a) + Len(b)
      /\ \A j \in 1 .. Len(a) : p[j] = a[j]
      /\ \A j \in Len(a) + 1 .. Len(a) + Len(b) : p[j] = b[j - Len(a)]
  <2>1. a \in Seq(S) /\ b \in Seq(S)
    BY <1>2, <1>3
  <2>2. /\ a \o b \in Seq(S) /\ Len(a \o b) = Len(a) + Len(b)
        /\ DOMAIN (a \o b) = 1 .. Len(a) + Len(b)
        /\ \A j \in 1 .. Len(a) : (a \o b)[j] = a[j]
        /\ \A j \in Len(a) + 1 .. Len(a) + Len(b) : (a \o b)[j] = b[j - Len(a)]
    BY <2>1, Joined, Zenon
  <2>3. QED
    BY <1>4, <2>2
<1>6. Len(p) = Len(q) - 1 /\ DOMAIN p = 1 .. Len(q) - 1
  <2>1. Len(a) + Len(b) = Len(q) - 1
    BY <1>1, <1>2, <1>3
  <2>2. QED
    BY <1>5, <2>1
<1>7. \A j \in 1 .. Len(q) - 1 : p[j] = IF j < i THEN q[j] ELSE q[j + 1]
  <2>1. SUFFICES ASSUME NEW j \in 1 .. Len(q) - 1 PROVE p[j] = IF j < i THEN q[j] ELSE q[j + 1]
    OBVIOUS
  <2>2. CASE j < i
    <3>1. j \in 1 .. Len(a)
      BY <1>1, <1>2, <2>2
    <3>2. QED
      BY <1>2, <1>5, <2>2, <3>1
  <2>3. CASE ~(j < i)
    <3>1. j \in Len(a) + 1 .. Len(a) + Len(b) /\ j - Len(a) = j - i + 1
      BY <1>1, <1>2, <1>3, <2>3
    <3>2. j - i + 1 \in 1 .. Len(q) - i /\ i + (j - i + 1) = j + 1
      BY <1>1, <2>3
    <3>3. QED
      BY <1>3, <1>5, <2>3, <3>1, <3>2
  <2>4. QED
    BY <2>2, <2>3
<1>8. PICK at : at = [j \in 1 .. Len(q) - 1 |-> IF j < i THEN j ELSE j + 1]
  OBVIOUS
<1>9. /\ at \in [1 .. Len(q) - 1 -> 1 .. Len(q)]
      /\ \A j \in 1 .. Len(q) - 1 : at[j] = IF j < i THEN j ELSE j + 1
  BY <1>1, <1>8
<1>10. /\ at \in [DOMAIN p -> DOMAIN q]
       /\ \A j \in DOMAIN p : p[j] = q[at[j]] /\ at[j] # i
  <2>1. \A j \in 1 .. Len(q) - 1 : p[j] = q[at[j]]
    BY <1>7, <1>9
  <2>2. \A j \in 1 .. Len(q) - 1 : at[j] # i
    BY <1>1, <1>9
  <2>3. QED
    BY <1>1, <1>6, <1>9, <2>1, <2>2
<1>11. ASSUME NEW j \in DOMAIN p, NEW k \in DOMAIN p, at[j] = at[k] PROVE j = k
  <2>1. j \in 1 .. Len(q) - 1 /\ k \in 1 .. Len(q) - 1
    BY <1>6
  <2>2. at[j] = (IF j < i THEN j ELSE j + 1) /\ at[k] = (IF k < i THEN k ELSE k + 1)
    BY <1>9, <2>1
  <2>3. (IF j < i THEN j ELSE j + 1) = (IF k < i THEN k ELSE k + 1)
    BY <1>11, <2>2
  <2>4. CASE j < i /\ k < i
    BY <2>3, <2>4
  <2>5. CASE j < i /\ ~(k < i)
    BY <1>1, <2>1, <2>3, <2>5
  <2>6. CASE ~(j < i) /\ k < i
    BY <1>1, <2>1, <2>3, <2>6
  <2>7. CASE ~(j < i) /\ ~(k < i)
    BY <1>1, <2>1, <2>3, <2>7
  <2>8. QED
    BY <2>4, <2>5, <2>6, <2>7
<1>12. ASSUME NEW m \in DOMAIN q, m # i PROVE \E j \in DOMAIN p : at[j] = m
  <2>1. m \in 1 .. Len(q)
    BY <1>1
  <2>2. CASE m < i
    <3>1. m \in DOMAIN p /\ at[m] = m
      BY <1>1, <1>6, <1>9, <2>1, <2>2
    <3>2. QED
      BY <3>1
  <2>3. CASE ~(m < i)
    <3>1. m - 1 \in DOMAIN p /\ at[m - 1] = m
      BY <1>1, <1>6, <1>9, <1>12, <2>1, <2>3
    <3>2. QED
      BY <3>1
  <2>4. QED
    BY <2>2, <2>3
<1>13. QED
  BY <1>5, <1>10, <1>11, <1>12 DEF Without

\* A space that is removed is to be deleted, if the server knows it.
LEMMA RemovingFits ==
  ASSUME rects \in Seq(Rects), Fit, NEW i \in DOMAIN rects, ~Orphan(rects[i]),
         rects' = SubSeq(rects, 1, i - 1) \o SubSeq(rects, i + 1, Len(rects)),
         deleteIds' = IF rects[i].id = NoId THEN deleteIds ELSE ToDelete(rects[i].id),
         UNCHANGED serverSpaces, \A s \in serverSpaces : s.id # NoId
  PROVE  Fit' /\ rects' \in Seq(Rects)
<1>1. rects' \in Seq(Rects) /\ Without(rects, i, rects')
  BY WithoutOne
<1>2. PICK at \in [DOMAIN rects' -> DOMAIN rects] :
        /\ \A j \in DOMAIN rects' : rects'[j] = rects[at[j]] /\ at[j] # i
        /\ \A j, k \in DOMAIN rects' : at[j] = at[k] => j = k
        /\ \A m \in DOMAIN rects \ {i} : \E j \in DOMAIN rects' : at[j] = m
  BY <1>1 DEF Without
<1>3. /\ deleteIds \subseteq deleteIds'
      /\ \A d \in deleteIds' : d \in deleteIds \/ (d = rects[i].id /\ d # NoId)
      /\ rects[i].id # NoId => rects[i].id \in deleteIds'
  <2>1. CASE rects[i].id = NoId
    BY <2>1
  <2>2. CASE rects[i].id # NoId
    BY <2>2 DEF ToDelete
  <2>3. QED
    BY <2>1, <2>2
<1>4. \A j \in DOMAIN rects' :
        at[j] \in DOMAIN rects /\ at[j] # i /\ rects'[j] = rects[at[j]]
  BY <1>2
<1>5. ASSUME NEW s \in serverSpaces, NEW j \in DOMAIN rects', Created(at[j], s)
      PROVE  Created(j, s)'
  <2>1. /\ rects[at[j]].id = NoId /\ ~rects[at[j]].changed /\ s.content = rects[at[j]].content
        /\ s.id \notin deleteIds /\ \A k \in DOMAIN rects : rects[k].id # s.id
    BY <1>5 DEF Created
  <2>2. s.id \notin deleteIds'
    BY <1>3, <2>1
  <2>3. \A k \in DOMAIN rects' : rects'[k].id # s.id
    BY <1>4, <2>1
  <2>4. QED
    BY <1>4, <2>1, <2>2, <2>3 DEF Created
<1>6. ASSUME NEW j \in DOMAIN rects', rects'[j].id # NoId
      PROVE  /\ rects'[j].id \notin deleteIds'
             /\ \E s \in serverSpaces' : s.id = rects'[j].id
             /\ \A k \in DOMAIN rects' : rects'[k].id = rects'[j].id => j = k
  <2>1. /\ rects[at[j]].id \notin deleteIds
        /\ \E s \in serverSpaces : s.id = rects[at[j]].id
        /\ \A k \in DOMAIN rects : rects[k].id = rects[at[j]].id => at[j] = k
    BY <1>4, <1>6 DEF Fit
  <2>2. rects[i].id # rects[at[j]].id
    BY <1>4, <2>1
  <2>3. ASSUME NEW k \in DOMAIN rects', rects'[k].id = rects'[j].id PROVE j = k
    <3>1. at[j] = at[k]
      BY <1>4, <2>1, <2>3
    <3>2. QED
      BY <1>2, <3>1
  <2>4. QED
    BY <1>3, <1>4, <2>1, <2>2, <2>3
<1>7. ASSUME NEW j \in DOMAIN rects', ~rects'[j].changed
      PROVE  \E s \in serverSpaces' : /\ s.content = rects'[j].content
                                      /\ Created(j, s)' \/ s.id = rects'[j].id
  <2>1. PICK s \in serverSpaces : /\ s.content = rects[at[j]].content
                                  /\ Created(at[j], s) \/ s.id = rects[at[j]].id
    BY <1>4, <1>7 DEF Fit
  <2>2. QED
    BY <1>4, <1>5, <2>1
<1>8. ASSUME NEW s \in serverSpaces, s.id \notin deleteIds'
      PROVE  \E j \in DOMAIN rects' :
               \/ Created(j, s)'
               \/ rects'[j].id = s.id /\ (~rects'[j].changed => rects'[j].content = s.content)
  <2>1. PICK m \in DOMAIN rects :
          \/ Created(m, s)
          \/ rects[m].id = s.id /\ (~rects[m].changed => rects[m].content = s.content)
    BY <1>3, <1>8 DEF Fit
  <2>2. m # i
    BY <1>3, <1>8, <2>1 DEF Created, Orphan
  <2>3. PICK j \in DOMAIN rects' : at[j] = m
    BY <1>2, <2>2
  <2>4. QED
    BY <1>2, <1>5, <2>1, <2>3
<1>9. \A s \in serverSpaces' :
        \/ s.id \in deleteIds'
        \/ \E j \in DOMAIN rects' :
             \/ Created(j, s)'
             \/ rects'[j].id = s.id /\ (~rects'[j].changed => rects'[j].content = s.content)
  BY <1>8
<1>10. Fit'
  BY <1>6, <1>7, <1>9 DEF Fit
<1>11. QED
  BY <1>1, <1>10

\* What a save sends, and how the page then counts its spaces as saved.
LEMMA SavedRects ==
  ASSUME rects \in Seq(Rects), rects' = WithIds
  PROVE  /\ rects' \in Seq(Rects) /\ DOMAIN rects' = DOMAIN rects
         /\ \A i \in DOMAIN rects : /\ rects'[i].id = rects[i].id
                                    /\ rects'[i].content = rects[i].content
                                    /\ ~rects'[i].changed
<1>1. DOMAIN DeserializedIds = {}
  BY DEF DeserializedIds
<1>2. rects' = [i \in DOMAIN rects |-> [rects[i] EXCEPT !.changed = FALSE, !.id = @]]
  BY <1>1 DEF WithIds
<1>3. DOMAIN rects = 1 .. Len(rects) /\ Len(rects) \in Nat
  OBVIOUS
<1>4. ASSUME NEW i \in DOMAIN rects
      PROVE  /\ rects'[i] = [id |-> rects[i].id, content |-> rects[i].content, changed |-> FALSE]
             /\ rects'[i] \in Rects
  <2>1. rects[i] \in Rects
    BY <1>3
  <2>2. rects'[i] = [rects[i] EXCEPT !.changed = FALSE, !.id = @]
    BY <1>2
  <2>3. QED
    BY <2>1, <2>2 DEF Rects
<1>5. rects' \in [1 .. Len(rects) -> Rects]
  BY <1>2, <1>3, <1>4
<1>6. rects' \in Seq(Rects) /\ DOMAIN rects' = DOMAIN rects
  BY <1>3, <1>5
<1>7. QED
  BY <1>4, <1>6

IsNew(i) == rects[i].changed /\ rects[i].id = NoId
IsOld(i) == rects[i].changed /\ rects[i].id # NoId
Before(i) == {j \in {j \in DOMAIN rects : IsNew(j)} : j < i}

LEMMA SentSpaces ==
  ASSUME bulk = BulkUpdate
  PROVE  /\ bulk.deletes = deleteIds /\ DOMAIN bulk.creates = {i \in DOMAIN rects : IsNew(i)}
         /\ \A i \in DOMAIN bulk.creates : bulk.creates[i] = rects[i].content
         /\ bulk.updates = {rects[i] : i \in {i \in DOMAIN rects : IsOld(i)}}
<1>1. BulkUpdate.updates = {rects[i] : i \in {i \in DOMAIN rects : IsOld(i)}}
  BY DEF BulkUpdate, IsOld
<1>2. /\ BulkUpdate.deletes = deleteIds
      /\ BulkUpdate.creates = [i \in {i \in DOMAIN rects : IsNew(i)} |-> rects[i].content]
  BY DEF BulkUpdate, IsNew
<1>3. QED
  BY <1>1, <1>2

\* The numbers of the new spaces.
LEMMA NewIds ==
  ASSUME rects \in Seq(Rects), nextId \in Nat \ {0}, bulk = BulkUpdate,
         nextId' = nextId + Cardinality(DOMAIN bulk.creates)
  PROVE  /\ nextId' \in Nat /\ nextId <= nextId'
         /\ IsFiniteSet({i \in DOMAIN rects : IsNew(i)})
         /\ \A i \in DOMAIN rects : IsNew(i) =>
              nextId + Cardinality(Before(i)) \in nextId .. nextId' - 1
<1> DEFINE N == {i \in DOMAIN rects : IsNew(i)}
<1>1. DOMAIN bulk.creates = N
  BY SentSpaces
<1>2. IsFiniteSet(N)
  <2>1. DOMAIN rects = 1 .. Len(rects) /\ Len(rects) \in Nat
    OBVIOUS
  <2>2. IsFiniteSet(1 .. Len(rects))
    BY <2>1, FS_Interval
  <2>3. QED
    BY <2>1, <2>2, FS_Subset
<1>3. Cardinality(N) \in Nat
  BY <1>2, FS_CardinalityType
<1>4. ASSUME NEW i \in DOMAIN rects, IsNew(i)
      PROVE  nextId + Cardinality(Before(i)) \in nextId .. nextId' - 1
  <2>1. i \in N /\ i \notin Before(i) /\ Before(i) \subseteq N
    <3>1. i \in Int
      OBVIOUS
    <3>2. QED
      BY <1>4, <3>1 DEF Before
  <2>2. IsFiniteSet(Before(i)) /\ Cardinality(Before(i)) \in Nat
    BY <1>2, <2>1, FS_Subset, FS_CardinalityType
  <2>3. Cardinality(Before(i)) <= Cardinality(N)
    BY <1>2, <2>1, FS_Subset
  <2>4. Cardinality(Before(i)) # Cardinality(N)
    BY <1>2, <2>1, FS_Subset
  <2>5. QED
    BY <1>1, <1>3, <2>2, <2>3, <2>4
<1>5. QED
  BY <1>1, <1>2, <1>3, <1>4

NewSpace(i) == [id |-> nextId + Cardinality(Before(i)), content |-> rects[i].content]
OldSpace(i) == [id |-> rects[i].id, content |-> rects[i].content]
Spared(s) ==
  s.id \notin deleteIds /\ \A i \in DOMAIN rects : IsOld(i) => rects[i].id # s.id

\* The server has what it had, but for what was to be deleted and to be changed, and
\* what was new.
LEMMA AppliedSpaces ==
  ASSUME bulk = BulkUpdate,
         NEW A, A = Applied(bulk.deletes, DOMAIN bulk.creates, bulk.updates)
  PROVE  \A s : s \in A <=>
           \/ s \in serverSpaces /\ Spared(s)
           \/ \E i \in DOMAIN rects : IsNew(i) /\ s = NewSpace(i)
           \/ \E i \in DOMAIN rects : /\ IsOld(i) /\ s = OldSpace(i)
                                      /\ \E t \in serverSpaces : t.id = rects[i].id
                                                                 /\ t.id \notin deleteIds
<1> DEFINE left == {s \in serverSpaces : s.id \notin bulk.deletes}
           before(i) == {j \in DOMAIN bulk.creates : j < i}
           built == {[id |-> nextId + Cardinality(before(i)), content |-> bulk.creates[i]] :
                      i \in DOMAIN bulk.creates}
           of(id) == {u \in bulk.updates : u.id = id}
           kept == {s \in left : of(s.id) = {}}
           moved == {[id |-> u.id, content |-> u.content] :
                       u \in {u \in bulk.updates : \E s \in left : s.id = u.id}}
<1>1. A = kept \cup built \cup moved
  BY DEF Applied
<1>2. /\ bulk.deletes = deleteIds /\ DOMAIN bulk.creates = {i \in DOMAIN rects : IsNew(i)}
      /\ \A i \in DOMAIN bulk.creates : bulk.creates[i] = rects[i].content
      /\ bulk.updates = {rects[i] : i \in {i \in DOMAIN rects : IsOld(i)}}
  BY SentSpaces
<1>3. \A s : s \in kept <=> s \in serverSpaces /\ Spared(s)
  BY <1>2 DEF Spared
<1>4. \A s : s \in built <=> \E i \in DOMAIN rects : IsNew(i) /\ s = NewSpace(i)
  <2>1. \A i : before(i) = Before(i)
    BY <1>2 DEF Before
  <2>2. \A i \in DOMAIN bulk.creates :
          [id |-> nextId + Cardinality(before(i)), content |-> bulk.creates[i]] = NewSpace(i)
    BY <1>2, <2>1 DEF NewSpace
  <2>3. built = {NewSpace(i) : i \in DOMAIN bulk.creates}
    <3>1. \A s \in built : \E i \in DOMAIN bulk.creates : s = NewSpace(i)
      BY <2>2
    <3>2. \A i \in DOMAIN bulk.creates : NewSpace(i) \in built
      BY <2>2
    <3> HIDE DEF built
    <3>3. QED
      BY <3>1, <3>2
  <2> HIDE DEF built
  <2>4. QED
    BY <1>2, <2>3
<1>5. \A s : s \in moved <=>
        \E i \in DOMAIN rects :
          IsOld(i) /\ s = OldSpace(i)
          /\ \E t \in serverSpaces : t.id = rects[i].id /\ t.id \notin deleteIds
  BY <1>2 DEF OldSpace
<1> HIDE DEF kept, built, moved
<1>6. QED
  BY <1>1, <1>3, <1>4, <1>5

\* After a save whose requests the server has all fulfilled.
LEMMA SavingFits ==
  ASSUME Spaced, Fit, bulk = BulkUpdate,
         serverSpaces' = Applied(bulk.deletes, DOMAIN bulk.creates, bulk.updates),
         nextId' = nextId + Cardinality(DOMAIN bulk.creates),
         rects' = WithIds, deleteIds' = {}
  PROVE  Fit'
<1>1. /\ DOMAIN rects' = DOMAIN rects
      /\ \A i \in DOMAIN rects : /\ rects'[i].id = rects[i].id
                                 /\ rects'[i].content = rects[i].content
                                 /\ ~rects'[i].changed
  BY SavedRects DEF Spaced
<1>2. \A s : s \in serverSpaces' <=>
        \/ s \in serverSpaces /\ Spared(s)
        \/ \E i \in DOMAIN rects : IsNew(i) /\ s = NewSpace(i)
        \/ \E i \in DOMAIN rects : /\ IsOld(i) /\ s = OldSpace(i)
                                   /\ \E t \in serverSpaces : t.id = rects[i].id
                                                              /\ t.id \notin deleteIds
  BY AppliedSpaces, Zenon
<1>3. \A s \in serverSpaces : s.id # NoId /\ s.id < nextId /\ s.id \in Int
  BY DEF Spaced, NoId
<1>4. \A i \in DOMAIN rects : rects[i].id # NoId =>
        /\ rects[i].id \notin deleteIds
        /\ \E s \in serverSpaces : s.id = rects[i].id
        /\ \A j \in DOMAIN rects : rects[j].id = rects[i].id => i = j
  BY DEF Fit
<1>5. \A i, j \in DOMAIN rects : IsNew(i) => NewSpace(i).id # rects[j].id
  <2>1. \A i \in DOMAIN rects : IsNew(i) => NewSpace(i).id \in nextId .. nextId' - 1
    BY NewIds DEF Spaced, NewSpace
  <2>2. nextId \in Nat \ {0} /\ nextId' \in Nat
    BY NewIds DEF Spaced
  <2>3. \A j \in DOMAIN rects : rects[j].id = 0 \/ (rects[j].id \in Int /\ rects[j].id < nextId)
    BY <1>3, <1>4 DEF NoId
  <2>4. QED
    BY <2>1, <2>2, <2>3
<1>6. \A s : \A i \in DOMAIN rects :
        /\ s.content = rects[i].content /\ rects[i].id = NoId
        /\ \A j \in DOMAIN rects : rects[j].id # s.id
        => Created(i, s)'
  BY <1>1 DEF Created
<1>7. ASSUME NEW i \in DOMAIN rects, rects[i].id # NoId
      PROVE  \E s \in serverSpaces' : s.id = rects[i].id /\ s.content = rects[i].content
  <2>1. CASE rects[i].changed
    <3>1. IsOld(i) /\ OldSpace(i).id = rects[i].id /\ OldSpace(i).content = rects[i].content
      BY <1>7, <2>1 DEF IsOld, OldSpace
    <3>2. OldSpace(i) \in serverSpaces'
      BY <1>2, <1>4, <1>7, <3>1
    <3>3. QED
      BY <3>1, <3>2
  <2>2. CASE ~rects[i].changed
    <3>1. PICK s \in serverSpaces :
            s.content = rects[i].content /\ (Created(i, s) \/ s.id = rects[i].id)
      BY <2>2 DEF Fit
    <3>2. s.id = rects[i].id
      BY <1>7, <3>1 DEF Created
    <3>3. Spared(s)
      BY <1>4, <1>7, <2>2, <3>2 DEF Spared, IsOld
    <3>4. QED
      BY <1>2, <3>1, <3>2, <3>3
  <2>3. QED
    BY <2>1, <2>2
<1>8. ASSUME NEW i \in DOMAIN rects, rects[i].id = NoId
      PROVE  \E s \in serverSpaces' : s.content = rects[i].content /\ Created(i, s)'
  <2>1. CASE rects[i].changed
    <3>1. IsNew(i) /\ NewSpace(i).content = rects[i].content
      BY <1>8, <2>1 DEF IsNew, NewSpace
    <3>2. PICK s : s = NewSpace(i)
      OBVIOUS
    <3>3. s \in serverSpaces'
      BY <1>2, <3>1, <3>2
    <3>4. s.content = rects[i].content /\ \A j \in DOMAIN rects : rects[j].id # s.id
      BY <1>5, <3>1, <3>2
    <3>5. QED
      BY <1>6, <1>8, <3>3, <3>4
  <2>2. CASE ~rects[i].changed
    <3>1. PICK s \in serverSpaces :
            s.content = rects[i].content /\ (Created(i, s) \/ s.id = rects[i].id)
      BY <2>2 DEF Fit
    <3>2. s.id \notin deleteIds /\ \A j \in DOMAIN rects : rects[j].id # s.id
      BY <1>3, <1>8, <3>1 DEF Created
    <3>3. Spared(s) /\ Created(i, s)'
      BY <1>6, <1>8, <3>1, <3>2 DEF Spared
    <3>4. QED
      BY <1>2, <3>1, <3>3
  <2>3. QED
    BY <2>1, <2>2
<1>9. ASSUME NEW s \in serverSpaces'
      PROVE  \E i \in DOMAIN rects :
               Created(i, s)' \/ (rects[i].id = s.id /\ rects[i].content = s.content)
  <2>1. CASE s \in serverSpaces /\ Spared(s)
    <3>1. PICK i \in DOMAIN rects :
            \/ Created(i, s)
            \/ rects[i].id = s.id /\ (~rects[i].changed => rects[i].content = s.content)
      BY <2>1 DEF Fit, Spared
    <3>2. CASE Created(i, s)
      <4>1. Created(i, s)'
        BY <1>6, <3>2 DEF Created
      <4>2. QED
        BY <4>1
    <3>3. CASE rects[i].id = s.id /\ (~rects[i].changed => rects[i].content = s.content)
      <4>1. ~rects[i].changed
        BY <1>3, <2>1, <3>3 DEF Spared, IsOld
      <4>2. QED
        BY <3>3, <4>1
    <3>4. QED
      BY <3>1, <3>2, <3>3
  <2>2. ASSUME NEW i \in DOMAIN rects, IsNew(i), s = NewSpace(i)
        PROVE  Created(i, s)'
    <3>1. s.content = rects[i].content /\ rects[i].id = NoId
      BY <2>2 DEF NewSpace, IsNew
    <3>2. \A j \in DOMAIN rects : rects[j].id # s.id
      BY <1>5, <2>2
    <3>3. QED
      BY <1>6, <3>1, <3>2
  <2>3. ASSUME NEW i \in DOMAIN rects, s = OldSpace(i)
        PROVE  rects[i].id = s.id /\ rects[i].content = s.content
    BY <2>3 DEF OldSpace
  <2>4. QED
    BY <1>2, <2>1, <2>2, <2>3
<1>10. \A i \in DOMAIN rects' : rects'[i].id # NoId =>
         /\ rects'[i].id \notin deleteIds'
         /\ \E s \in serverSpaces' : s.id = rects'[i].id
         /\ \A j \in DOMAIN rects' : rects'[j].id = rects'[i].id => i = j
  BY <1>1, <1>4, <1>7
<1>11. \A i \in DOMAIN rects' : ~rects'[i].changed =>
         \E s \in serverSpaces' :
           s.content = rects'[i].content /\ (Created(i, s)' \/ s.id = rects'[i].id)
  BY <1>1, <1>7, <1>8
<1>12. \A s \in serverSpaces' :
         \/ s.id \in deleteIds'
         \/ \E i \in DOMAIN rects' :
              \/ Created(i, s)'
              \/ rects'[i].id = s.id /\ (~rects'[i].changed => rects'[i].content = s.content)
  BY <1>1, <1>9
<1>13. QED
  BY <1>10, <1>11, <1>12 DEF Fit

LEMMA ImageIsFinite ==
  ASSUME NEW S, IsFiniteSet(S), NEW f, DOMAIN f = S
  PROVE  IsFiniteSet({f[x] : x \in S})
<1> DEFINE T == {f[x] : x \in S}
           g == [x \in S |-> f[x]]
<1>1. g \in Surjection(S, T)
  BY DEF Surjection
<1>2. QED
  BY <1>1, FS_Surjection

\* Whatever was saved, the server's spaces have ids below the next one.
LEMMA ServerStaysTyped ==
  ASSUME Spaced, bulk = BulkUpdate,
         serverSpaces' = Applied(bulk.deletes, DOMAIN bulk.creates, bulk.updates),
         nextId' = nextId + Cardinality(DOMAIN bulk.creates)
  PROVE  /\ serverSpaces' \subseteq StoredSpaces /\ IsFiniteSet(serverSpaces')
         /\ nextId' \in Nat \ {0} /\ \A s \in serverSpaces' : s.id \in 1 .. nextId' - 1
<1>1. \A s : s \in serverSpaces' <=>
        \/ s \in serverSpaces /\ Spared(s)
        \/ \E i \in DOMAIN rects : IsNew(i) /\ s = NewSpace(i)
        \/ \E i \in DOMAIN rects : /\ IsOld(i) /\ s = OldSpace(i)
                                   /\ \E t \in serverSpaces : t.id = rects[i].id
                                                              /\ t.id \notin deleteIds
  BY AppliedSpaces, Zenon
<1>2. /\ nextId \in Nat \ {0} /\ nextId' \in Nat /\ nextId <= nextId'
      /\ \A i \in DOMAIN rects : IsNew(i) =>
           nextId + Cardinality(Before(i)) \in nextId .. nextId' - 1
  BY NewIds DEF Spaced
<1>3. \A i \in DOMAIN rects : rects[i].id \in Nat /\ rects[i].content \in Nat
  <2>1. rects \in Seq(Rects)
    BY DEF Spaced
  <2>2. \A i \in DOMAIN rects : rects[i] \in Rects
    BY <2>1
  <2>3. QED
    BY <2>2 DEF Rects
<1>4. ASSUME NEW s \in serverSpaces'
      PROVE  s \in StoredSpaces /\ s.id \in 1 .. nextId' - 1
  <2>1. CASE s \in serverSpaces
    BY <1>2, <2>1 DEF Spaced
  <2>2. ASSUME NEW i \in DOMAIN rects, IsNew(i), s = NewSpace(i)
        PROVE  s \in StoredSpaces /\ s.id \in 1 .. nextId' - 1
    <3>1. s.id \in nextId .. nextId' - 1 /\ s.content = rects[i].content
      BY <1>2, <2>2 DEF NewSpace
    <3>2. s.id \in 1 .. nextId' - 1
      BY <1>2, <3>1
    <3>3. s.id \in Nat /\ s.content \in Nat /\ s = [id |-> s.id, content |-> s.content]
      BY <1>2, <1>3, <2>2, <3>1, <3>2 DEF NewSpace
    <3>4. QED
      BY <3>2, <3>3 DEF StoredSpaces
  <2>3. ASSUME NEW i \in DOMAIN rects, s = OldSpace(i), NEW t \in serverSpaces, t.id = rects[i].id
        PROVE  s \in StoredSpaces /\ s.id \in 1 .. nextId' - 1
    <3>1. s.id = t.id /\ t.id \in 1 .. nextId - 1
      BY <2>3 DEF OldSpace, Spaced
    <3>2. s.id \in 1 .. nextId' - 1
      BY <1>2, <3>1
    <3>3. s.id \in Nat /\ s.content \in Nat /\ s = [id |-> s.id, content |-> s.content]
      BY <1>3, <2>3 DEF OldSpace
    <3>4. QED
      BY <3>2, <3>3 DEF StoredSpaces
  <2>4. QED
    BY <1>1, <2>1, <2>2, <2>3
<1>5. IsFiniteSet(serverSpaces')
  <2>1. PICK f : f = [i \in DOMAIN rects |-> IF IsNew(i) THEN NewSpace(i) ELSE OldSpace(i)]
    OBVIOUS
  <2>2. IsFiniteSet(DOMAIN rects)
    <3>1. rects \in Seq(Rects)
      BY DEF Spaced
    <3>2. DOMAIN rects = 1 .. Len(rects) /\ Len(rects) \in Nat
      BY <3>1
    <3>3. 1 \in Int /\ Len(rects) \in Int
      BY <3>2
    <3>4. IsFiniteSet(1 .. Len(rects))
      BY <3>3, FS_Interval
    <3>5. QED
      BY <3>2, <3>4
  <2>3. IsFiniteSet({f[i] : i \in DOMAIN rects})
    BY <2>1, <2>2, ImageIsFinite
  <2>4. IsFiniteSet(serverSpaces \cup {f[i] : i \in DOMAIN rects})
    BY <2>3, FS_Union DEF Spaced
  <2>5. serverSpaces' \subseteq serverSpaces \cup {f[i] : i \in DOMAIN rects}
    <3>1. \A i \in DOMAIN rects : /\ IsNew(i) => f[i] = NewSpace(i)
                                  /\ IsOld(i) => f[i] = OldSpace(i)
      BY <2>1 DEF IsNew, IsOld
    <3>2. QED
      BY <1>1, <3>1
  <2>6. QED
    BY <2>4, <2>5, FS_Subset
<1>6. QED
  BY <1>2, <1>4, <1>5

\* The order in which spaces are loaded goes through all of them.
LEMMA OrderIsComplete ==
  ASSUME NEW S, IsFiniteSet(S), \A s \in S : s.id \in Nat,
         NEW order \in [1 .. Cardinality(S) -> S],
         \A i, j \in DOMAIN order : i < j => order[i].id < order[j].id
  PROVE  /\ \A s \in S : \E i \in DOMAIN order : order[i] = s
         /\ \A i, j \in DOMAIN order : order[i].id = order[j].id => i = j
<1>1. Cardinality(S) \in Nat
  BY FS_CardinalityType
<1>2. IsFiniteSet(1 .. Cardinality(S)) /\ Cardinality(1 .. Cardinality(S)) = Cardinality(S)
  BY <1>1, FS_Interval
<1>3. ASSUME NEW i \in DOMAIN order, NEW j \in DOMAIN order, order[i].id = order[j].id
      PROVE  i = j
  <2>1. i \in Int /\ j \in Int /\ order[i].id \in Nat /\ order[j].id \in Nat
    BY <1>1
  <2>2. ~(i < j) /\ ~(j < i)
    BY <1>3, <2>1
  <2>3. QED
    BY <2>1, <2>2
<1>4. order \in Injection(1 .. Cardinality(S), S)
  BY <1>3 DEF Injection, IsInjective
<1>5. order \in Surjection(1 .. Cardinality(S), S)
  BY <1>2, <1>4, FS_Injection
<1>6. QED
  BY <1>3, <1>5 DEF Surjection

LEMMA LoadingSpaces ==
  ASSUME SpacesInv, NEW r \in reloads, SpacesLoaded(r)
  PROVE  SpacesInv'
<1>1. PICK order \in [1 .. Cardinality(r.spaces) -> r.spaces] :
        /\ \A i, j \in DOMAIN order : i < j => order[i].id < order[j].id
        /\ rects' = [i \in DOMAIN order |-> [id |-> order[i].id, content |-> order[i].content,
                                             changed |-> FALSE]]
  BY DEF SpacesLoaded
<1>2. /\ r.at = "spacesRead" /\ reloads' = (reloads \ {r}) \cup {[n |-> r.n, at |-> "values"]}
      /\ UNCHANGED <<visit, loading, uncaught, loadsOfArea, changed, deleteIds, bulk, saveStep,
                     serverSpaces, nextId, editedMeanwhile, orphaned, partly>>
  BY DEF SpacesLoaded, shell, display, waits, saveProgress, server, spaceExcuses
<1>3. ASSUME Undisturbed' PROVE Spaced'
  <2>1. Spaced /\ r.spaces = serverSpaces /\ Clean
    BY <1>2, <1>3 DEF SpacesInv, Undisturbed, Spaced
  <2>2. /\ order \in [1 .. Cardinality(serverSpaces) -> serverSpaces]
        /\ \A i, j \in DOMAIN order : i < j => order[i].id < order[j].id
    BY <1>1, <2>1
  <2>3. /\ IsFiniteSet(serverSpaces) /\ Cardinality(serverSpaces) \in Nat
        /\ \A s \in serverSpaces : s.id \in Nat /\ s.content \in Nat /\ s.id # NoId
    BY <2>1, FS_CardinalityType DEF Spaced, StoredSpaces, NoId
  <2>4. /\ \A s \in serverSpaces : \E i \in DOMAIN order : order[i] = s
        /\ \A i, j \in DOMAIN order : order[i].id = order[j].id => i = j
    BY <2>2, <2>3, OrderIsComplete, Zenon
  <2>5. /\ DOMAIN rects' = DOMAIN order
        /\ \A i \in DOMAIN order : /\ rects'[i].id = order[i].id
                                   /\ rects'[i].content = order[i].content
                                   /\ ~rects'[i].changed
    BY <1>1
  <2>6. rects' \in Seq(Rects)
    <3>1. \A i \in DOMAIN order : order[i] \in serverSpaces
      BY <2>2
    <3>2. \A i \in DOMAIN order :
            [id |-> order[i].id, content |-> order[i].content, changed |-> FALSE] \in Rects
      BY <2>3, <3>1 DEF Rects
    <3>3. rects' \in [1 .. Cardinality(serverSpaces) -> Rects]
      BY <1>1, <2>2, <3>2
    <3>4. QED
      BY <2>3, <3>3
  <2>7. deleteIds' = {} /\ Clean'
    BY <1>2, <2>1, <2>5 DEF Clean
  <2>8. Fit'
    <3>1. \A i \in DOMAIN rects' :
            /\ rects'[i].id \notin deleteIds'
            /\ order[i] \in serverSpaces' /\ order[i].id = rects'[i].id
            /\ order[i].content = rects'[i].content
            /\ \A j \in DOMAIN rects' : rects'[j].id = rects'[i].id => i = j
      BY <1>2, <2>2, <2>4, <2>5, <2>7
    <3>2. \A s \in serverSpaces' : \E i \in DOMAIN rects' :
            rects'[i].id = s.id /\ rects'[i].content = s.content
      BY <1>2, <2>4, <2>5
    <3>3. QED
      BY <3>1, <3>2 DEF Fit
  <2>9. /\ saveStep' # "spaces"
        /\ \A q \in reloads' : q.at = "spacesRead" => q.spaces = serverSpaces'
    BY <1>2, <2>1 DEF Spaced
  <2>10. QED
    BY <1>2, <2>1, <2>6, <2>7, <2>8, <2>9 DEF Spaced
<1>4. QED
  BY <1>2, <1>3 DEF SpacesInv, DataLoaded, VisitTyped

LEMMA LoadingValues ==
  ASSUME SpacesInv, NEW r \in reloads, ValuesLoaded(r)
  PROVE  SpacesInv'
<1>1. /\ r.at = "valuesRead" /\ reloads' = reloads \ {r}
      /\ loadsOfArea' = [loadsOfArea EXCEPT !["data"] = "done"]
      /\ UNCHANGED <<visit, uncaught, changed, rects, deleteIds, bulk, saveStep,
                     serverSpaces, nextId, editedMeanwhile, orphaned, partly>>
  BY DEF ValuesLoaded, plan, saveProgress, server, spaceExcuses
<1>2. DOMAIN loadsOfArea' = {"data", "timezones"} /\ DataLoaded' /\ VisitTyped'
  BY <1>1 DEF SpacesInv, DataLoaded, VisitTyped
<1>3. ASSUME Undisturbed' PROVE Spaced'
  <2>1. Spaced /\ Fit
    BY <1>1, <1>3 DEF SpacesInv, Undisturbed, Spaced, SpacesShown
  <2>2. Fit'
    BY <1>1, <2>1 DEF Fit, Created
  <2>3. (~changed \/ saveStep = "file" \/ reloads # {} => Clean)'
    BY <1>1, <2>1 DEF Spaced, Clean
  <2>4. saveStep' = "spaces" => bulk' = BulkUpdate' /\ reloads' = {}
    BY <1>1, <2>1 DEF Spaced, BulkUpdate
  <2>5. QED
    BY <1>1, <2>1, <2>2, <2>3, <2>4 DEF Spaced
<1>4. QED
  BY <1>2, <1>3 DEF SpacesInv

\* Only while nothing is being saved or loaded does an edit leave the page undisturbed.
LEMMA EditingSpaces ==
  ASSUME SpacesInv,
         \/ addRect \/ copySpace \/ deleteSpace
         \/ \E i \in DOMAIN rects, dragged \in BOOLEAN : SetSpace(i, dragged)
  PROVE  SpacesInv'
<1>1. /\ ~loading /\ changed' = TRUE
      /\ \E kind : Input(kind)
      /\ editedMeanwhile' = (editedMeanwhile \/ saveStep # "none" \/ reloads # {})
      /\ UNCHANGED <<loading, uncaught, loadsOfArea, bulk, saveStep, reloads, serverSpaces, nextId,
                     partly>>
  BY DEF addRect, copySpace, deleteSpace, SetSpace, PlanEdit, Shown, display, waits, saveProgress,
     server
<1>2. VisitTyped' /\ Stamp \in Nat
  <2>1. VisitTyped
    BY DEF SpacesInv
  <2>2. VisitTyped'
    BY <1>1, <2>1, VisitStaysTyped
  <2>3. QED
    BY <2>1, <2>2 DEF VisitTyped, Stamp
<1>3. ASSUME Undisturbed' PROVE Spaced'
  <2>1. ~orphaned
    BY <1>3 DEF Undisturbed, addRect, copySpace, deleteSpace, SetSpace
  <2>2. Spaced /\ Fit /\ reloads = {} /\ saveStep = "none"
    BY <1>1, <1>3, <2>1 DEF SpacesInv, Undisturbed, Spaced, SpacesShown
  <2>3. rects \in Seq(Rects) /\ \A s \in serverSpaces : s.id # NoId
    BY <2>2 DEF Spaced, NoId
  <2>4. deleteIds' \subseteq Nat /\ Fit' /\ rects' \in Seq(Rects)
    <3>1. CASE addRect \/ copySpace
      <4>1. rects' = Append(rects, NewRect) /\ UNCHANGED <<deleteIds, serverSpaces>>
        BY <1>1, <3>1 DEF addRect, copySpace
      <4>2. NewRect \in Rects /\ NewRect.id = NoId /\ NewRect.changed
        BY <1>2 DEF NewRect, Rects, NoId
      <4>3. QED
        BY <2>2, <2>3, <4>1, <4>2, AddingFits DEF Spaced
    <3>2. ASSUME NEW i \in DOMAIN rects, NEW dragged \in BOOLEAN, SetSpace(i, dragged)
          PROVE  deleteIds' \subseteq Nat /\ Fit' /\ rects' \in Seq(Rects)
      <4>1. /\ rects' = [rects EXCEPT ![i] = Edited(rects[i])]
            /\ UNCHANGED <<deleteIds, serverSpaces>> /\ ~Orphan(rects[i])
        BY <1>1, <1>3, <3>2 DEF SetSpace, Undisturbed
      <4>2. rects[i] \in Rects
        BY <2>3
      <4>3. /\ Edited(rects[i]) \in Rects /\ Edited(rects[i]).id = rects[i].id
            /\ Edited(rects[i]).changed
        BY <1>2, <4>2 DEF Edited, Rects
      <4>4. QED
        BY <2>2, <2>3, <4>1, <4>3, EditingFits DEF Spaced
    <3>3. CASE deleteSpace
      <4>1. /\ selectedSpace \in DOMAIN rects /\ ~Orphan(rects[selectedSpace])
            /\ deleteIds' = IF rects[selectedSpace].id = NoId THEN deleteIds
                            ELSE ToDelete(rects[selectedSpace].id)
            /\ rects' = SubSeq(rects, 1, selectedSpace - 1)
                          \o SubSeq(rects, selectedSpace + 1, Len(rects))
        BY <1>3, <3>3 DEF deleteSpace, Undisturbed
      <4>2. Fit' /\ rects' \in Seq(Rects)
        BY <1>1, <2>2, <2>3, <4>1, RemovingFits
      <4>3. rects[selectedSpace] \in Rects
        BY <2>3, <4>1
      <4>4. deleteIds \subseteq Nat /\ rects[selectedSpace].id \in Nat
        BY <2>2, <4>3 DEF Spaced, Rects
      <4>5. deleteIds' \subseteq Nat
        BY <4>1, <4>4 DEF ToDelete
      <4>6. QED
        BY <4>2, <4>5
    <3>4. QED
      BY <3>1, <3>2, <3>3
  <2>5. QED
    BY <1>1, <2>2, <2>4 DEF Spaced
<1>4. QED
  BY <1>1, <1>2, <1>3 DEF SpacesInv, DataLoaded

LEMMA SavingSpaces ==
  ASSUME SpacesInv, AreaSaved
  PROVE  SpacesInv'
<1>1. /\ saveStep = "area"
      /\ IF BulkUpdate = NoBulk THEN SpacesDone /\ UNCHANGED bulk
         ELSE saveStep' = "spaces" /\ bulk' = BulkUpdate /\ UNCHANGED changed
      /\ UNCHANGED <<visit, loading, uncaught, loadsOfArea, rects, deleteIds, reloads,
                     serverSpaces, nextId, editedMeanwhile, orphaned, partly>>
  BY DEF AreaSaved, plan, server, spaceExcuses
<1>2. BulkUpdate = NoBulk <=> Clean
  <2>1. /\ BulkUpdate.deletes = deleteIds
        /\ BulkUpdate.creates = [i \in {i \in DOMAIN rects : IsNew(i)} |-> rects[i].content]
        /\ BulkUpdate.updates = {rects[i] : i \in {i \in DOMAIN rects : IsOld(i)}}
        /\ BulkUpdate = [creates |-> BulkUpdate.creates, updates |-> BulkUpdate.updates,
                         deletes |-> BulkUpdate.deletes]
    BY DEF BulkUpdate, IsNew, IsOld
  <2>2. /\ NoBulk.deletes = {} /\ NoBulk.creates = <<>> /\ NoBulk.updates = {}
        /\ NoBulk = [creates |-> NoBulk.creates, updates |-> NoBulk.updates,
                     deletes |-> NoBulk.deletes]
    BY DEF NoBulk
  <2>3. ASSUME BulkUpdate = NoBulk PROVE Clean
    <3>1. deleteIds = {} /\ {i \in DOMAIN rects : IsOld(i)} = {}
      BY <2>1, <2>2, <2>3
    <3>2. [i \in {i \in DOMAIN rects : IsNew(i)} |-> rects[i].content] = <<>>
      BY <2>1, <2>2, <2>3
    <3>3. {i \in DOMAIN rects : IsNew(i)} = {}
      BY <3>2
    <3>4. QED
      BY <3>1, <3>3 DEF Clean, IsNew, IsOld
  <2>4. ASSUME Clean PROVE BulkUpdate = NoBulk
    <3>1. deleteIds = {} /\ {i \in DOMAIN rects : IsOld(i)} = {}
          /\ {i \in DOMAIN rects : IsNew(i)} = {}
      BY <2>4 DEF Clean, IsNew, IsOld
    <3>2. BulkUpdate.creates = <<>>
      BY <2>1, <3>1
    <3>3. BulkUpdate.deletes = {} /\ BulkUpdate.updates = {}
      BY <2>1, <3>1
    <3>4. QED
      BY <2>1, <2>2, <3>2, <3>3
  <2>5. QED
    BY <2>3, <2>4
<1>3. DataLoaded' <=> DataLoaded
  BY <1>1 DEF DataLoaded
<1>4. CASE Clean
  <2>1. /\ saveStep' \in {"none", "file"} /\ UNCHANGED bulk
    BY <1>1, <1>2, <1>4 DEF SpacesDone
  <2>2. VisitTyped' /\ (~loading' => DataLoaded)
    BY <1>1 DEF SpacesInv, VisitTyped
  <2>3. QED
    BY <1>1, <1>4, <2>1, <2>2, SameSpaces DEF Undisturbed
<1>5. CASE ~Clean
  <2>1. saveStep' = "spaces" /\ bulk' = BulkUpdate /\ UNCHANGED changed
    BY <1>1, <1>2, <1>5
  <2>2. ASSUME Undisturbed' PROVE Spaced'
    <3>1. Spaced /\ reloads = {} /\ changed
      BY <1>1, <1>5, <2>2 DEF SpacesInv, Undisturbed, Spaced
    <3>2. Fit' <=> Fit
      BY <1>1 DEF Fit, Created
    <3>3. SpacesShown' <=> SpacesShown
      BY <1>1, <1>3 DEF SpacesShown
    <3>4. BulkUpdate' = BulkUpdate
      BY <1>1 DEF BulkUpdate
    <3>5. QED
      BY <1>1, <2>1, <3>1, <3>2, <3>3, <3>4 DEF Spaced
  <2>3. QED
    BY <1>1, <1>3, <2>2 DEF SpacesInv, VisitTyped
<1>6. QED
  BY <1>4, <1>5

LEMMA UpdatingSpaces ==
  ASSUME SpacesInv, BulkUpdated
  PROVE  SpacesInv'
<1>1. PICK deletes \in SUBSET bulk.deletes, creates \in SUBSET DOMAIN bulk.creates,
           updates \in SUBSET bulk.updates :
        /\ partly' = (partly \/ <<deletes, creates, updates>>
                                 # <<bulk.deletes, DOMAIN bulk.creates, bulk.updates>>)
        /\ serverSpaces' = Applied(deletes, creates, updates)
  BY DEF BulkUpdated
<1>2. /\ saveStep = "spaces" /\ saveStep' \in {"none", "file"}
      /\ nextId' = nextId + Cardinality(DOMAIN bulk.creates)
      /\ rects' = WithIds /\ deleteIds' = {}
      /\ UNCHANGED <<visit, loading, uncaught, loadsOfArea, reloads, editedMeanwhile, orphaned>>
  BY DEF BulkUpdated, SpacesDone
<1>3. ASSUME Undisturbed' PROVE Spaced'
  <2>1. /\ ~partly /\ <<deletes, creates, updates>>
                        = <<bulk.deletes, DOMAIN bulk.creates, bulk.updates>>
    BY <1>1, <1>3 DEF Undisturbed
  <2>2. serverSpaces' = Applied(bulk.deletes, DOMAIN bulk.creates, bulk.updates)
    <3>1. deletes = bulk.deletes /\ creates = DOMAIN bulk.creates /\ updates = bulk.updates
      BY <2>1
    <3>2. QED
      BY <1>1, <3>1
  <2>3. Spaced /\ bulk = BulkUpdate /\ reloads = {}
    BY <1>2, <1>3, <2>1 DEF SpacesInv, Undisturbed, Spaced
  <2>4. /\ rects' \in Seq(Rects) /\ DOMAIN rects' = DOMAIN rects
        /\ \A i \in DOMAIN rects : ~rects'[i].changed
    BY <1>2, <2>3, SavedRects DEF Spaced
  <2>5. /\ serverSpaces' \subseteq StoredSpaces /\ IsFiniteSet(serverSpaces')
        /\ nextId' \in Nat \ {0} /\ \A s \in serverSpaces' : s.id \in 1 .. nextId' - 1
    BY <1>2, <2>2, <2>3, ServerStaysTyped
  <2>6. Clean'
    BY <1>2, <2>4 DEF Clean
  <2>7. SpacesShown' => Fit'
    <3>1. SpacesShown' => SpacesShown
      BY <1>2 DEF SpacesShown, DataLoaded
    <3>2. Fit => Fit'
      BY <1>2, <2>2, <2>3, SavingFits
    <3>3. QED
      BY <2>3, <3>1, <3>2 DEF Spaced
  <2>8. QED
    BY <1>2, <2>3, <2>4, <2>5, <2>6, <2>7 DEF Spaced
<1>4. QED
  BY <1>2, <1>3 DEF SpacesInv, DataLoaded, VisitTyped

LEMMA StepSpaces ==
  ASSUME SpacesInv, [AreaNext]_areaVars
  PROVE  SpacesInv'
<1> USE DEF shell, display, waits, plan, server, saveProgress, spaceExcuses
<1>1. CASE TimezonesLoaded \/ TimezonesFailed
  <2>1. CASE TimezonesLoaded
    <3>1. /\ loadsOfArea' = [loadsOfArea EXCEPT !["timezones"] = "done"]
          /\ loading' = (loadsOfArea["data"] # "done")
          /\ UNCHANGED <<visit, uncaught, changed, plan, saveProgress, reloads, server,
                         spaceExcuses>>
      BY <2>1 DEF TimezonesLoaded
    <3>2. /\ DOMAIN loadsOfArea' = DOMAIN loadsOfArea
          /\ loadsOfArea'["data"] = loadsOfArea["data"]
          /\ VisitTyped' /\ (~loading' => DataLoaded)
      BY <3>1 DEF SpacesInv, DataLoaded, VisitTyped
    <3>3. Undisturbed' => Undisturbed
      BY <3>1 DEF Undisturbed
    <3>4. Undisturbed' /\ (~changed' \/ saveStep' = "file" \/ reloads' # {}) => Clean
      BY <3>1, <3>3 DEF SpacesInv, Spaced
    <3>5. QED
      BY <3>1, <3>2, <3>3, <3>4, SameSpaces
  <2>2. CASE TimezonesFailed
    <3>1. /\ loadsOfArea' = [loadsOfArea EXCEPT !["timezones"] = "failed"]
          /\ Failure /\ uncaught' = TRUE
          /\ UNCHANGED <<loading, changed, plan, saveProgress, reloads, server, spaceExcuses>>
      BY <2>2 DEF TimezonesFailed, Unheard
    <3>2. /\ DOMAIN loadsOfArea' = DOMAIN loadsOfArea
          /\ loadsOfArea'["data"] = loadsOfArea["data"]
          /\ VisitTyped' /\ (~loading' => DataLoaded)
      BY <3>1, VisitStaysTyped DEF SpacesInv, DataLoaded
    <3>3. ~Undisturbed'
      BY <3>1 DEF Undisturbed
    <3>4. QED
      BY <3>2, <3>3 DEF SpacesInv, DataLoaded
  <2>3. QED
    BY <1>1, <2>1, <2>2
<1>2. ASSUME NEW r \in reloads, ReloadRead(r) PROVE SpacesInv'
  <2>1. PICK new : new = IF r.at = "spaces"
                           THEN [n |-> r.n, at |-> "spacesRead", spaces |-> serverSpaces]
                           ELSE [n |-> r.n, at |-> "valuesRead", values |-> serverAttributes]
    OBVIOUS
  <2>2. /\ reloads' = (reloads \ {r}) \cup {new} /\ r.at \in {"spaces", "values"}
        /\ UNCHANGED <<visit, loading, uncaught, loadsOfArea, changed, plan, saveProgress, server,
                       spaceExcuses>>
    BY <1>2, <2>1 DEF ReloadRead
  <2>3. \/ new.at = "spacesRead" /\ new.spaces = serverSpaces
        \/ new.at = "valuesRead" /\ SpacesShown
    BY <2>1, <2>2 DEF SpacesShown
  <2>4. Undisturbed' => Undisturbed
    BY <2>2 DEF Undisturbed
  <2>5. Undisturbed' /\ (~changed' \/ saveStep' = "file" \/ reloads' # {}) => Clean
    BY <2>2, <2>4 DEF SpacesInv, Spaced
  <2>6. saveStep' = "spaces" => saveStep = "spaces" /\ reloads # {}
    BY <2>2
  <2>7. VisitTyped' /\ (~loading' => DataLoaded)
    BY <2>2 DEF SpacesInv, VisitTyped
  <2>8. QED
    BY <2>2, <2>3, <2>4, <2>5, <2>6, <2>7, SameSpaces
<1>3. CASE FileUploaded
  <2>1. PICK new : new = [n |-> Stamp, at |-> "spaces"]
    OBVIOUS
  <2>2. /\ reloads' = reloads \cup {new} /\ saveStep = "file" /\ saveStep' = "none"
        /\ UNCHANGED <<visit, loading, uncaught, loadsOfArea, plan, bulk, server, spaceExcuses>>
    BY <1>3, <2>1 DEF FileUploaded
  <2>3. Undisturbed' => Undisturbed
    BY <2>2 DEF Undisturbed
  <2>4. Undisturbed => Clean
    BY <2>2 DEF SpacesInv, Spaced
  <2>5. VisitTyped' /\ (~loading' => DataLoaded)
    BY <2>2 DEF SpacesInv, VisitTyped
  <2>6. \A s \in reloads' : s \in reloads \/ s.at = "spaces"
    BY <2>1, <2>2
  <2>7. QED
    BY <2>2, <2>3, <2>4, <2>5, <2>6, SameSpaces
<1>4. ASSUME NEW a, setAttribute(a) \/ deleteAttribute(a) PROVE SpacesInv'
  <2>1. /\ UNCHANGED <<loading, uncaught, loadsOfArea, changed, plan, saveProgress, reloads, server,
                       spaceExcuses>>
        /\ \E kind : Input(kind)
    BY <1>4 DEF setAttribute, deleteAttribute, AttributeEdit
  <2>2. VisitTyped' /\ (~loading' => DataLoaded)
    BY <2>1, VisitStaysTyped DEF SpacesInv
  <2>3. (Undisturbed' => Undisturbed) /\ (Undisturbed /\ (~changed' \/ saveStep' = "file" \/
          reloads' # {}) => Clean)
    BY <2>1 DEF Undisturbed, SpacesInv, Spaced
  <2>4. QED
    BY <2>1, <2>2, <2>3, SameSpaces
<1>5. CASE ChooseFile \/ DeleteArea \/ SaveArea
  <2>1. /\ UNCHANGED <<loading, uncaught, loadsOfArea, changed, plan, bulk, reloads, server,
                       spaceExcuses>>
        /\ saveStep' \in {saveStep, "area"}
        /\ \E kind : Input(kind)
    BY <1>5 DEF ChooseFile, DeleteArea, SaveArea
  <2>2. VisitTyped' /\ (~loading' => DataLoaded)
    BY <2>1, VisitStaysTyped DEF SpacesInv
  <2>3. (Undisturbed' => Undisturbed) /\ (Undisturbed /\ (~changed' \/ saveStep' = "file" \/
          reloads' # {}) => Clean)
    BY <2>1 DEF Undisturbed, SpacesInv, Spaced
  <2>4. saveStep' = "spaces" => saveStep = "spaces"
    BY <2>1
  <2>5. QED
    BY <2>1, <2>2, <2>3, <2>4, SameSpaces
<1>6. ASSUME NEW r \in attributeRequests, AttributeAnswered(r) PROVE SpacesInv'
  <2>1. UNCHANGED <<visit, loading, uncaught, loadsOfArea, changed, plan, saveProgress, reloads,
                    serverSpaces, nextId, spaceExcuses>>
    BY <1>6 DEF AttributeAnswered
  <2>2. VisitTyped' /\ (~loading' => DataLoaded)
    BY <2>1 DEF SpacesInv, VisitTyped
  <2>3. (Undisturbed' => Undisturbed) /\ (Undisturbed /\ (~changed' \/ saveStep' = "file" \/
          reloads' # {}) => Clean)
    BY <2>1 DEF Undisturbed, SpacesInv, Spaced
  <2>4. QED
    BY <2>1, <2>2, <2>3, SameSpaces
<1>7. ASSUME \/ SaveFailed \/ \E r \in reloads : ReloadFailed(r)
             \/ \E r \in attributeRequests : AttributeRefused(r)
      PROVE  SpacesInv'
  <2>1. UNCHANGED <<loading, loadsOfArea>> /\ Failure /\ uncaught' = TRUE
    BY <1>7 DEF SaveFailed, ReloadFailed, AttributeRefused, Unheard
  <2>2. VisitTyped'
    BY <2>1, VisitStaysTyped DEF SpacesInv
  <2>3. QED
    BY <2>1, <2>2 DEF SpacesInv, DataLoaded, Undisturbed
<1>8. CASE UNCHANGED areaVars
  <2>1. UNCHANGED <<visit, loading, uncaught, loadsOfArea, changed, plan, saveProgress, reloads,
                    server, spaceExcuses>>
    BY <1>8 DEF areaVars, areaPage
  <2>2. VisitTyped' /\ (~loading' => DataLoaded)
    BY <2>1 DEF SpacesInv, VisitTyped
  <2>3. (Undisturbed' => Undisturbed) /\ (Undisturbed /\ (~changed' \/ saveStep' = "file" \/
          reloads' # {}) => Clean)
    BY <2>1 DEF Undisturbed, SpacesInv, Spaced
  <2>4. QED
    BY <2>1, <2>2, <2>3, SameSpaces
<1>9. QED
  BY <1>1, <1>2, <1>3, <1>4, <1>5, <1>6, <1>7, <1>8, LoadingSpaces, LoadingValues, EditingSpaces,
     SavingSpaces, UpdatingSpaces
  DEF AreaNext, AreaAnswers, AreaFailures, AreaInputs

LEMMA SpacesShownAreStored ==
  ASSUME SpacesInv
  PROVE  NothingToDiscardIsStored
<1>1. SUFFICES ASSUME Shown, ~changed, Undisturbed
               PROVE  {rects[i].content : i \in DOMAIN rects} = {s.content : s \in serverSpaces}
  BY DEF NothingToDiscardIsStored, Undisturbed
<1>2. Fit /\ Clean
  BY <1>1 DEF SpacesInv, Spaced, SpacesShown, Shown
<1>3. \A i \in DOMAIN rects : \E s \in serverSpaces : s.content = rects[i].content
  BY <1>2 DEF Fit, Clean
<1>4. \A s \in serverSpaces : \E i \in DOMAIN rects : rects[i].content = s.content
  BY <1>2 DEF Fit, Clean, Created
<1>5. QED
  BY <1>3, <1>4

LEMMA InitSpaces == VisitInit /\ ShellInit /\ AreaInit => SpacesInv
<1> SUFFICES ASSUME VisitInit, ShellInit, AreaInit PROVE SpacesInv
  OBVIOUS
<1>1. VisitTyped
  BY VisitsAssumption DEF VisitInit, VisitTyped
<1>2. DOMAIN loadsOfArea = {"data", "timezones"} /\ (DataLoaded <=> ~areaHasId)
  BY DEF AreaInit, DataLoaded
<1>3. /\ rects = <<>> /\ deleteIds = {} /\ nextId = 2 /\ saveStep = "none"
      /\ serverSpaces = IF areaHasId THEN {[id |-> 1, content |-> 0]} ELSE {}
      /\ \A r \in reloads : r.at = "spaces"
  BY DEF AreaInit
<1>4. rects \in Seq(Rects) /\ DOMAIN rects = {}
  BY <1>3
<1>5. Clean
  BY <1>3, <1>4 DEF Clean
<1>6. /\ serverSpaces \subseteq StoredSpaces /\ IsFiniteSet(serverSpaces)
      /\ \A s \in serverSpaces : s.id \in 1 .. nextId - 1
  <2>1. IsFiniteSet({[id |-> 1, content |-> 0]}) /\ IsFiniteSet({})
    BY FS_EmptySet, FS_Singleton
  <2>2. CASE areaHasId
    BY <1>3, <2>1, <2>2 DEF StoredSpaces
  <2>3. CASE ~areaHasId
    BY <1>3, <2>1, <2>3
  <2>4. QED
    BY <2>2, <2>3
<1>7. SpacesShown => Fit
  <2>1. SpacesShown => serverSpaces = {}
    BY <1>2, <1>3 DEF SpacesShown
  <2>2. QED
    BY <1>4, <2>1 DEF Fit
<1>8. QED
  BY <1>1, <1>2, <1>3, <1>4, <1>5, <1>6, <1>7 DEF SpacesInv, Spaced, ShellInit
----------------------------------------------------------------------------
(* One page is visited.                                                    *)

SamePage == DOMAIN visit' = DOMAIN visit /\ visit'.page = visit.page

LEMMA VisitGoesOn ==
  ASSUME "page" \in DOMAIN visit, UNCHANGED visit \/ Failure \/ \E kind : Input(kind)
  PROVE  SamePage
BY DEF SamePage, Failure, Input

LEMMA BookingVisit ==
  ASSUME "page" \in DOMAIN visit,
         BookingAnswers \/ BookingFailures \/ PickPerformed \/ BookingInputs
  PROVE  SamePage
<1>1. UNCHANGED visit \/ Failure \/ \E kind : Input(kind)
  BY DEF BookingAnswers, BookingFailures, BookingInputs, BookingLoaded, SpacesListed, BookingSaved,
     BookingNotLoaded, SpacesNotListed, BookingNotSaved, PickPerformed, PickDate, ChooseLocation,
     ChooseSpace, SaveBooking, DeleteBooking, shell
<1>2. QED
  BY <1>1, VisitGoesOn

LEMMA SettingsVisit ==
  ASSUME "page" \in DOMAIN visit, SettingsAnswers \/ SettingsFailures \/ SettingsInputs
  PROVE  SamePage
<1>1. SettingsAnswers => UNCHANGED visit
  BY DEF SettingsAnswers, SettingsLoaded, SettingStored, SettingRefused, SettingsAnswered,
     DomainChanged, DomainsRead, DomainsListed, OrgDeleted, shell
<1>2. SettingsFailures => UNCHANGED visit \/ Failure
  BY DEF SettingsFailures, SettingsNotLoaded, SettingNotStored, DomainRefused, DomainsNotListed,
     OrgNotDeleted
<1>3. SettingsInputs => \E kind : Input(kind)
  BY DEF SettingsInputs, SwitchDaily, TypeDuration, TypeDomain, ChangeDomain, SaveSettings,
     DeleteOrg
<1>4. QED
  BY <1>1, <1>2, <1>3, VisitGoesOn

LEMMA PreferencesVisit ==
  ASSUME "page" \in DOMAIN visit, PreferencesAnswers \/ PreferencesFailures \/ PreferencesInputs
  PROVE  SamePage
<1>1. PreferencesAnswers => UNCHANGED visit
  BY DEF PreferencesAnswers, PreferencesLoaded, CalendarsListed, EntryStored, EntryRefused,
     EntriesAnswered, PasswordSet, answerless, shell
<1>2. PreferencesFailures => Failure
  BY DEF PreferencesFailures, PreferencesNotLoaded, CalendarsNotListed, EntryNotStored,
     PasswordNotSet
<1>3. PreferencesInputs => \E kind : Input(kind)
  BY DEF PreferencesInputs, TypeHours, ChooseColours, TypePassword, TypeAccount, onSubmit,
     onSubmitColors, onSubmitSecurity, connectCalDav, disconnectCalDav, saveCaldavSettings, Submit
<1>4. QED
  BY <1>1, <1>2, <1>3, VisitGoesOn

LEMMA AreaVisit ==
  ASSUME "page" \in DOMAIN visit, AreaAnswers \/ AreaFailures \/ AreaInputs
  PROVE  SamePage
<1>1. AreaAnswers => UNCHANGED visit
  BY DEF AreaAnswers, TimezonesLoaded, ReloadRead, SpacesLoaded, ValuesLoaded, AreaSaved,
     BulkUpdated, FileUploaded, AttributeAnswered, shell
<1>2. AreaFailures => Failure
  BY DEF AreaFailures, TimezonesFailed, SaveFailed, ReloadFailed, AttributeRefused
<1>3. AreaInputs => \E kind : Input(kind)
  BY DEF AreaInputs, addRect, copySpace, deleteSpace, SetSpace, PlanEdit, setAttribute,
     deleteAttribute, AttributeEdit, ChooseFile, SaveArea, DeleteArea
<1>4. QED
  BY <1>1, <1>2, <1>3, VisitGoesOn

\* The page that is visited keeps its invariant, the others what they rest in.
BookingPageInv ==
  IF PageIs("booking") THEN FormInv /\ SentAsShown /\ SavesInv /\ TimesInv
  ELSE /\ selectedLocationId = NoArea /\ leaveChangeTimer = NoTimer
       /\ made = 0 /\ sentBooking = NotSent
SettingsPageInv ==
  IF PageIs("settings") THEN DomainsInv /\ AlertInv
  ELSE settingsLoads["items"] = "pending" /\ settingsLoads["settings"] = "pending"
PreferencesPageInv ==
  IF PageIs("preferences") THEN CalendarInv /\ SavedInv
  ELSE sentEntries = <<>> /\ serverPreferences.caldav_path = serverPreferences.caldav_account
AreaPageInv ==
  IF PageIs("area") THEN AttributesInv /\ SpacesInv
  ELSE rects = <<>> /\ serverSpaces = {} /\ attributeValues = serverAttributes
PagesInv ==
  /\ "page" \in DOMAIN visit
  /\ BookingPageInv /\ AreaPageInv /\ SettingsPageInv /\ PreferencesPageInv

\* What belongs to a page stays as it is while another is used.
LEMMA BookingRests ==
  ASSUME BookingPageInv, SamePage, ~PageIs("booking"), UNCHANGED bookingPage
  PROVE  BookingPageInv'
BY DEF BookingPageInv, SamePage, PageIs, bookingPage, form, stored, pickers

LEMMA AreaRests ==
  ASSUME AreaPageInv, SamePage, ~PageIs("area"), UNCHANGED areaPage
  PROVE  AreaPageInv'
BY DEF AreaPageInv, SamePage, PageIs, areaPage, plan, attributes, server

LEMMA SettingsRest ==
  ASSUME SettingsPageInv, SamePage, ~PageIs("settings"), UNCHANGED settingsPage
  PROVE  SettingsPageInv'
BY DEF SettingsPageInv, SamePage, PageIs, settingsPage

LEMMA PreferencesRest ==
  ASSUME PreferencesPageInv, SamePage, ~PageIs("preferences"), UNCHANGED preferencesPage
  PROVE  PreferencesPageInv'
BY DEF PreferencesPageInv, SamePage, PageIs, preferencesPage, stores

LEMMA OnBookingPage ==
  ASSUME PagesInv, PageIs("booking"), [BookingNext]_bookingVars,
         UNCHANGED <<areaPage, settingsPage, preferencesPage>>
  PROVE  PagesInv'
<1>1. SamePage
  <2>1. CASE BookingNext
    BY <2>1, BookingVisit DEF PagesInv, BookingNext
  <2>2. CASE UNCHANGED bookingVars
    BY <2>2 DEF SamePage, bookingVars, shell
  <2>3. QED
    BY <2>1, <2>2
<1>2. "page" \in DOMAIN visit' /\ PageIs("booking")'
  BY <1>1 DEF SamePage, PagesInv, PageIs
<1>3. (FormInv /\ SentAsShown /\ SavesInv /\ TimesInv)'
  BY StepForm, StepSends, StepSaves, StepTimes DEF PagesInv, BookingPageInv
<1>4. AreaPageInv' /\ SettingsPageInv' /\ PreferencesPageInv'
  BY <1>1, AreaRests, SettingsRest, PreferencesRest DEF PagesInv, PageIs
<1>5. QED
  BY <1>2, <1>3, <1>4 DEF PagesInv, BookingPageInv

LEMMA OnAreaPage ==
  ASSUME PagesInv, PageIs("area"), [AreaNext]_areaVars,
         UNCHANGED <<bookingPage, settingsPage, preferencesPage>>
  PROVE  PagesInv'
<1>1. SamePage
  <2>1. CASE AreaNext
    BY <2>1, AreaVisit DEF PagesInv, AreaNext
  <2>2. CASE UNCHANGED areaVars
    BY <2>2 DEF SamePage, areaVars, shell
  <2>3. QED
    BY <2>1, <2>2
<1>2. "page" \in DOMAIN visit' /\ PageIs("area")'
  BY <1>1 DEF SamePage, PagesInv, PageIs
<1>3. (AttributesInv /\ SpacesInv)'
  BY StepAttributes, StepSpaces DEF PagesInv, AreaPageInv
<1>4. BookingPageInv' /\ SettingsPageInv' /\ PreferencesPageInv'
  BY <1>1, BookingRests, SettingsRest, PreferencesRest DEF PagesInv, PageIs
<1>5. QED
  BY <1>2, <1>3, <1>4 DEF PagesInv, AreaPageInv

LEMMA OnSettingsPage ==
  ASSUME PagesInv, PageIs("settings"), [SettingsNext]_settingsVars,
         UNCHANGED <<bookingPage, areaPage, preferencesPage>>
  PROVE  PagesInv'
<1>1. SamePage
  <2>1. CASE SettingsNext
    BY <2>1, SettingsVisit DEF PagesInv, SettingsNext
  <2>2. CASE UNCHANGED settingsVars
    BY <2>2 DEF SamePage, settingsVars, shell
  <2>3. QED
    BY <2>1, <2>2
<1>2. "page" \in DOMAIN visit' /\ PageIs("settings")'
  BY <1>1 DEF SamePage, PagesInv, PageIs
<1>3. (DomainsInv /\ AlertInv)'
  BY StepDomains, StepAlerts DEF PagesInv, SettingsPageInv
<1>4. BookingPageInv' /\ AreaPageInv' /\ PreferencesPageInv'
  BY <1>1, BookingRests, AreaRests, PreferencesRest DEF PagesInv, PageIs
<1>5. QED
  BY <1>2, <1>3, <1>4 DEF PagesInv, SettingsPageInv

LEMMA OnPreferencesPage ==
  ASSUME PagesInv, PageIs("preferences"), [PreferencesNext]_preferencesVars,
         UNCHANGED <<bookingPage, areaPage, settingsPage>>
  PROVE  PagesInv'
<1>1. SamePage
  <2>1. CASE PreferencesNext
    BY <2>1, PreferencesVisit DEF PagesInv, PreferencesNext
  <2>2. CASE UNCHANGED preferencesVars
    BY <2>2 DEF SamePage, preferencesVars, shell
  <2>3. QED
    BY <2>1, <2>2
<1>2. "page" \in DOMAIN visit' /\ PageIs("preferences")'
  BY <1>1 DEF SamePage, PagesInv, PageIs
<1>3. (CalendarInv /\ SavedInv)'
  BY StepServer, StepOffered, StepSaved DEF PagesInv, PreferencesPageInv, CalendarInv
<1>4. BookingPageInv' /\ AreaPageInv' /\ SettingsPageInv'
  BY <1>1, BookingRests, AreaRests, SettingsRest DEF PagesInv, PageIs
<1>5. QED
  BY <1>2, <1>3, <1>4 DEF PagesInv, PreferencesPageInv

LEMMA StepPages ==
  ASSUME PagesInv, [PagesNext]_pagesVars
  PROVE  PagesInv'
<1>1. ASSUME PageIs("booking"), BookingAnswers \/ BookingFailures \/ BookingInputs,
             UNCHANGED <<areaPage, settingsPage, preferencesPage>>
      PROVE  PagesInv'
  BY <1>1, OnBookingPage DEF BookingNext
<1>2. ASSUME PageIs("area"), AreaAnswers \/ AreaFailures \/ AreaInputs,
             UNCHANGED <<bookingPage, settingsPage, preferencesPage>>
      PROVE  PagesInv'
  BY <1>2, OnAreaPage DEF AreaNext
<1>3. ASSUME PageIs("settings"), SettingsAnswers \/ SettingsFailures \/ SettingsInputs,
             UNCHANGED <<bookingPage, areaPage, preferencesPage>>
      PROVE  PagesInv'
  BY <1>3, OnSettingsPage DEF SettingsNext
<1>4. ASSUME PageIs("preferences"),
             PreferencesAnswers \/ PreferencesFailures \/ PreferencesInputs,
             UNCHANGED <<bookingPage, areaPage, settingsPage>>
      PROVE  PagesInv'
  BY <1>4, OnPreferencesPage DEF PreferencesNext
<1>5. CASE Timers
  <2>1. PageIs("booking")
    BY <1>5 DEF Timers, PickPerformed, PagesInv, BookingPageInv
  <2>2. QED
    BY <1>5, <2>1, OnBookingPage DEF Timers, BookingNext
<1>6. CASE UNCHANGED pagesVars
  <2>1. UNCHANGED <<shell, bookingPage, areaPage, settingsPage, preferencesPage>>
    BY <1>6 DEF pagesVars
  <2>2. /\ UNCHANGED bookingVars /\ UNCHANGED areaVars
        /\ UNCHANGED settingsVars /\ UNCHANGED preferencesVars
    BY <2>1 DEF bookingVars, areaVars, settingsVars, preferencesVars
  <2>3. CASE PageIs("booking")
    BY <2>1, <2>2, <2>3, OnBookingPage
  <2>4. CASE PageIs("area")
    BY <2>1, <2>2, <2>4, OnAreaPage
  <2>5. CASE PageIs("settings")
    BY <2>1, <2>2, <2>5, OnSettingsPage
  <2>6. CASE PageIs("preferences")
    BY <2>1, <2>2, <2>6, OnPreferencesPage
  <2>7. CASE ~PageIs("booking") /\ ~PageIs("area") /\ ~PageIs("settings")
             /\ ~PageIs("preferences")
    <3>1. SamePage
      BY <2>1 DEF SamePage, shell
    <3>2. "page" \in DOMAIN visit'
      BY <3>1 DEF SamePage, PagesInv
    <3>3. QED
      BY <2>1, <2>7, <3>1, <3>2, BookingRests, AreaRests, SettingsRest, PreferencesRest
      DEF PagesInv
  <2>8. QED
    BY <2>3, <2>4, <2>5, <2>6, <2>7
<1>7. QED
  BY <1>1, <1>2, <1>3, <1>4, <1>5, <1>6 DEF PagesNext, Answers, Failures, Inputs

LEMMA InitPages == PagesInit => PagesInv
<1> SUFFICES ASSUME PagesInit PROVE PagesInv
  OBVIOUS
<1>1. "page" \in DOMAIN visit
  BY VisitsAssumption DEF PagesInit, VisitInit
<1>2. BookingPageInv
  <2>1. FormInv /\ SentAsShown /\ TimesInv
    BY InitForm, InitTimes DEF PagesInit
  <2>2. SavesInv
    BY DEF PagesInit, BookingInit, SavesInv, Posting
  <2>3. QED
    BY <2>1, <2>2 DEF PagesInit, BookingInit, BookingPageInv
<1>3. SettingsPageInv
  <2>1. DomainsInv /\ AlertInv
    BY InitDomains, InitAlerts DEF PagesInit
  <2>2. QED
    BY <2>1 DEF PagesInit, SettingsInit, SettingsPageInv
<1>4. PreferencesPageInv
  <2>1. CalendarInv /\ SavedInv
    BY InitCalendar, InitSaved DEF PagesInit
  <2>2. QED
    BY <2>1 DEF PagesInit, PreferencesInit, PreferencesPageInv
<1>5. AreaPageInv
  <2>1. AttributesInv /\ SpacesInv
    BY InitAttributes, InitSpaces DEF PagesInit
  <2>2. ~areaHasId => rects = <<>> /\ serverSpaces = {} /\ attributeValues = serverAttributes
    BY DEF PagesInit, AreaInit
  <2>3. QED
    BY <2>1, <2>2 DEF PagesInit, AreaPageInv
<1>6. QED
  BY <1>1, <1>2, <1>3, <1>4, <1>5 DEF PagesInv

\* Whatever the visit, at rest the spaces offered are those for the area and the
\* dates of the form, and the domains shown those of the organisation.
THEOREM ListsStayCurrent == PagesSpec => []ListsAreCurrent
<1>1. PagesInv /\ [PagesNext]_pagesVars => PagesInv'
  BY StepPages
<1>2. PagesInv => ListsAreCurrent
  <2>1. PagesInv => SpacesAreForTheForm
    BY TimesAreForTheForm DEF PagesInv, BookingPageInv, SpacesAreForTheForm
  <2>2. PagesInv => DomainsShownAreStored
    BY DomainsAreShown DEF PagesInv, SettingsPageInv, DomainsShownAreStored
  <2>3. QED
    BY <2>1, <2>2 DEF ListsAreCurrent
<1>3. QED
  BY <1>1, <1>2, InitPages, PTL DEF PagesSpec

\* Whatever the visit, what a page says of a save is what the server has.
THEOREM AlertsStayTrue == PagesSpec => []AlertsAreTrue
<1>1. PagesInv /\ [PagesNext]_pagesVars => PagesInv'
  BY StepPages
<1>2. PagesInv => AlertsAreTrue
  <2>1. PagesInv => AlertIsTrue
    BY AlertIsAsStored DEF PagesInv, SettingsPageInv, AlertIsTrue
  <2>2. PagesInv => SavedIsStored
    BY SavedIsAsStored DEF PagesInv, PreferencesPageInv, SavedIsStored
  <2>3. QED
    BY <2>1, <2>2 DEF AlertsAreTrue
<1>3. QED
  BY <1>1, <1>2, InitPages, PTL DEF PagesSpec

\* What the pages' own theorems say holds of all visits.
THEOREM PagesKeepTheirPromises ==
  PagesSpec => [](SentAsShown /\ CreatedOnce /\ CalendarIsOfItsAccount)
<1>1. PagesInv /\ [PagesNext]_pagesVars => PagesInv'
  BY StepPages
<1>2. PagesInv => SentAsShown /\ CreatedOnce
  BY DEF PagesInv, BookingPageInv, SavesInv, SentAsShown, CreatedOnce, NotSent
<1>3. PagesInv => CalendarIsOfItsAccount
  BY DEF PagesInv, PreferencesPageInv, CalendarInv, ServerFits, Orderly, CalendarIsOfItsAccount,
     Agree
<1>4. QED
  BY <1>1, <1>2, <1>3, InitPages, PTL DEF PagesSpec

\* Whatever the visit, when the area editor has nothing to discard the server has
\* the spaces that are drawn.
THEOREM DiscardedIsStored == PagesSpec => []NothingToDiscardIsStored
<1>1. PagesInv /\ [PagesNext]_pagesVars => PagesInv'
  BY StepPages
<1>2. PagesInv => NothingToDiscardIsStored
  <2>1. CASE PageIs("area")
    BY <2>1, SpacesShownAreStored DEF PagesInv, AreaPageInv
  <2>2. CASE ~PageIs("area")
    <3>1. PagesInv => rects = <<>> /\ serverSpaces = {}
      BY <2>2 DEF PagesInv, AreaPageInv
    <3>2. rects = <<>> => DOMAIN rects = {}
      OBVIOUS
    <3>3. QED
      BY <3>1, <3>2 DEF NothingToDiscardIsStored
  <2>3. QED
    BY <2>1, <2>2
<1>3. QED
  BY <1>1, <1>2, InitPages, PTL DEF PagesSpec

\* Whatever the visit, after a save the server has the attributes that are shown.
THEOREM AttributesShownStayStored == PagesSpec => []AttributesAreStored
<1>1. PagesInv /\ [PagesNext]_pagesVars => PagesInv'
  BY StepPages
<1>2. PagesInv => AttributesAreStored
  <2>1. CASE PageIs("area")
    BY <2>1, AttributesShownAreStored DEF PagesInv, AreaPageInv
  <2>2. CASE ~PageIs("area")
    BY <2>2 DEF PagesInv, AreaPageInv, AttributesAreStored
  <2>3. QED
    BY <2>1, <2>2
<1>3. QED
  BY <1>1, <1>2, InitPages, PTL DEF PagesSpec
=============================================================================
