---------------------------- MODULE SettingsPage ----------------------------
(***************************************************************************)
(* The page of the administration for the settings of an organisation, its *)
(* domains and its deletion (admin-ui/src/pages/settings/index.tsx), and   *)
(* what the server keeps of both.                                          *)
(*                                                                         *)
(* Of the eighteen settings the form sends, two are kept apart: the switch *)
(* to daily-basis booking, sent as the fifth, and the longest duration of  *)
(* a booking, sent as the fifteenth, which the switch rounds up to whole   *)
(* days.  Blank is a number field the user has emptied: the browser lets   *)
(* it pass, the server does not.                                           *)
(***************************************************************************)
EXTENDS Page, Sequences

CONSTANTS
  HoursOfDay, Durations,
  Domains,       \* names of domains
  OwnDomain,     \* the domain of the administrator's own address
  Blank, NoDomain

ASSUME SettingsPageAssumption ==
  /\ HoursOfDay \in Nat \ {0} /\ Durations \subseteq Nat
  /\ Blank \notin Nat /\ NoDomain \notin Domains

VARIABLES
  settingsLoads, \* the requests of componentDidMount, by what became of them
  typed,         \* dailyBasisBooking and maxBookingDurationHours of the form
  settingsSaves, \* pending requests of onSubmit
  sentSettings,  \* what was saved last, and over what
  newDomain, domains,
  domainRequests, \* pending requests that add, remove or verify a domain
  domainLists,   \* pending requests for the list of domains, and what they read
  lists,         \* how many were sent
  listShown,     \* the number of the one shown
  deletingOrg,   \* Organization.delete is pending
  credentials,   \* whether the browser still has the user's tokens
  \* The server.
  serverSettings, serverDomains,
  \* History variables.
  savedTwice,    \* Save was pressed while a save was pending
  relisted       \* a list of domains has been replaced by an older one

settingsForm == <<typed, settingsSaves, sentSettings, serverSettings, savedTwice>>
domainList == <<domains, domainLists, lists, listShown, relisted>>
domainForm == <<newDomain, domainList, domainRequests, serverDomains>>
organization == <<deletingOrg, credentials>>
settingsPage == <<settingsLoads, settingsForm, domainForm, organization>>
settingsVars == <<shell, settingsPage>>

Put == INSTANCE SetAll WITH stored <- serverSettings, requests <- settingsSaves,
                            Refused <- {Blank}

SettingsRecords == [daily : BOOLEAN, max : Durations]
NotRead == [known |-> FALSE, domains |-> {}]

----------------------------------------------------------------------------
\* The user's own domain is active; the organisation may have others.
SettingsInit ==
  /\ settingsLoads =
       [l \in {"settings", "items", "authProviders", "timezones"} |-> "pending"]
  /\ typed = [daily |-> FALSE, max |-> 0]
  /\ serverSettings \in SettingsRecords
  /\ sentSettings = [form |-> serverSettings, over |-> serverSettings]
  /\ settingsSaves = {} /\ savedTwice = FALSE
  /\ newDomain = NoDomain /\ domains = {}
  /\ serverDomains = {[name |-> OwnDomain, active |-> TRUE]}
  /\ domainRequests = {} /\ domainLists = {} /\ lists = 0 /\ listShown = 0
  /\ relisted = FALSE
  /\ deletingOrg = FALSE /\ credentials = TRUE

----------------------------------------------------------------------------
(* Mutants.                                                                *)

UnsentDuration(s) == <<[name |-> "daily", value |-> s.daily]>>

----------------------------------------------------------------------------
(* componentDidMount.                                                      *)

WholeDays(hours) == ((hours + HoursOfDay - 1) \div HoursOfDay) * HoursOfDay
Rounded(s) == IF s.daily THEN [s EXCEPT !.max = WholeDays(@)] ELSE s

\* Nobody else changes the settings or the domains while they are loaded.
SettingsLoaded(l) ==
  /\ settingsLoads[l] = "pending" /\ settingsLoads' = [settingsLoads EXCEPT ![l] = "done"]
  /\ loading' = \E other \in DOMAIN settingsLoads : settingsLoads'[other] # "done"
  /\ typed' = IF l = "settings" THEN Rounded(serverSettings) ELSE typed
  /\ domains' = IF l = "items" THEN serverDomains ELSE domains
  /\ UNCHANGED <<visit, submitting, saved, error, goBack, uncaught, settingsSaves, sentSettings,
                 serverSettings, savedTwice, newDomain, domainLists, lists, listShown, relisted,
                 domainRequests, serverDomains, organization>>

SettingsNotLoaded(l) ==
  /\ Failure /\ Unheard
  /\ settingsLoads[l] = "pending" /\ settingsLoads' = [settingsLoads EXCEPT ![l] = "failed"]
  /\ UNCHANGED <<settingsForm, domainForm, organization>>

----------------------------------------------------------------------------
(* The settings.                                                           *)

\* onDailyBasisBookingChange; an empty field counts as zero hours.
SwitchDaily(enabled) ==
  /\ Shown /\ Input("daily") /\ typed.daily # enabled
  /\ LET hours == IF typed.max = Blank THEN 0 ELSE typed.max
     IN  typed' = [daily |-> enabled, max |-> IF enabled THEN WholeDays(hours) ELSE hours]
  /\ UNCHANGED <<display, settingsLoads, settingsSaves, sentSettings, serverSettings, savedTwice,
                 domainForm, organization>>

TypeDuration(hours) ==
  /\ Shown /\ Input("duration") /\ typed' = [typed EXCEPT !.max = hours]
  /\ UNCHANGED <<display, settingsLoads, settingsSaves, sentSettings, serverSettings, savedTwice,
                 domainForm, organization>>

Entries(s) == <<[name |-> "daily", value |-> s.daily], [name |-> "max", value |-> s.max]>>

\* Save is not disabled while a save is pending.
SaveSettings ==
  /\ Shown /\ Input("save")
  /\ submitting' = TRUE /\ saved' = FALSE /\ error' = FALSE
  /\ Put!Send(visit.count, "onSubmit", Entries(typed))
  /\ sentSettings' = [form |-> typed, over |-> serverSettings]
  /\ savedTwice' = (savedTwice \/ settingsSaves # {})
  /\ UNCHANGED <<loading, goBack, uncaught, settingsLoads, typed, serverSettings, domainForm,
                 organization>>

SettingStored(r) ==
  /\ Put!Stored(r)
  /\ UNCHANGED <<shell, settingsLoads, typed, sentSettings, savedTwice, domainForm, organization>>

\* Nothing is stored from the first value on that is no number; or the
\* database fails.
SettingRefused(r) ==
  /\ Put!NotStored(r) /\ Head(r.left).value = Blank
  /\ UNCHANGED <<shell, settingsLoads, typed, sentSettings, savedTwice, domainForm, organization>>

SettingNotStored(r) ==
  /\ Put!NotStored(r) /\ Failure
  /\ UNCHANGED <<display, settingsLoads, typed, sentSettings, savedTwice, domainForm,
                 organization>>

SettingsAnswered(r) ==
  /\ Put!Answered(r) /\ submitting' = FALSE
  /\ saved' = (saved \/ r.ok) /\ error' = (error \/ ~r.ok)
  /\ UNCHANGED <<visit, loading, goBack, uncaught, settingsLoads, typed, sentSettings, savedTwice,
                 domainForm, organization>>

----------------------------------------------------------------------------
(* The domains.  Every change that succeeds is followed by a new list; the *)
(* lists of two changes may come in any order.                             *)

TypeDomain(d) ==
  /\ Shown /\ Input("name") /\ newDomain # d /\ newDomain' = d
  /\ UNCHANGED <<display, settingsLoads, settingsForm, domainList, domainRequests, serverDomains,
                 organization>>

\* addDomain, removeDomain and verifyDomain.  The user's own domain cannot be
\* removed, and only an inactive one verified.
ChangeDomain(kind, d) ==
  /\ Shown /\ Input(kind)
  /\ CASE kind = "add" -> d = newDomain
       [] kind = "remove" -> d # OwnDomain /\ \E shown \in domains : shown.name = d
       [] kind = "verify" -> [name |-> d, active |-> FALSE] \in domains
  /\ domainRequests' = domainRequests \cup {[n |-> visit.count, kind |-> kind, name |-> d]}
  /\ UNCHANGED <<display, settingsLoads, settingsForm, newDomain, domainList, serverDomains,
                 organization>>

Named(d) == {s \in serverDomains : s.name = d}

\* A domain is added as inactive, but by a super administrator (organization-router.go
\* 159), who is not the user here.
Performed(r) ==
  CASE r.kind = "add" -> serverDomains \cup {[name |-> r.name, active |-> FALSE]}
    [] r.kind = "remove" -> serverDomains \ Named(r.name)
    [] r.kind = "verify" -> (serverDomains \ Named(r.name))
                              \cup {[name |-> r.name, active |-> TRUE]}

\* The server refuses to add what the organisation has and to verify what it has
\* not; it may also refuse for the sake of other organisations or of the DNS.
Possible(r) ==
  CASE r.kind = "add" -> Named(r.name) = {}
    [] r.kind = "remove" -> TRUE
    [] r.kind = "verify" -> Named(r.name) # {}

DomainChanged(r) ==
  /\ r \in domainRequests /\ domainRequests' = domainRequests \ {r}
  /\ Possible(r) /\ serverDomains' = Performed(r)
  /\ newDomain' = IF r.kind = "add" THEN NoDomain ELSE newDomain
  /\ lists' = lists + 1
  /\ domainLists' = domainLists \cup {[n |-> lists', read |-> NotRead]}
  /\ UNCHANGED <<shell, settingsLoads, settingsForm, domains, listShown, relisted, organization>>

\* An alert, and nothing else.
DomainRefused(r) ==
  /\ r \in domainRequests /\ domainRequests' = domainRequests \ {r}
  /\ IF Possible(r) THEN Failure ELSE UNCHANGED visit
  /\ UNCHANGED <<display, settingsLoads, settingsForm, newDomain, domainList, serverDomains,
                 organization>>

DomainsRead(l) ==
  /\ l \in domainLists /\ l.read = NotRead
  /\ domainLists' =
       (domainLists \ {l})
         \cup {[l EXCEPT !.read = [known |-> TRUE, domains |-> serverDomains]]}
  /\ UNCHANGED <<shell, settingsLoads, settingsForm, newDomain, domains, lists, listShown,
                 relisted, domainRequests, serverDomains, organization>>

DomainsListed(l) ==
  /\ l \in domainLists /\ l.read.known /\ domainLists' = domainLists \ {l}
  /\ domains' = l.read.domains /\ listShown' = l.n
  /\ relisted' = (relisted \/ l.n < listShown)
  /\ UNCHANGED <<shell, settingsLoads, settingsForm, newDomain, lists, domainRequests,
                 serverDomains, organization>>

DomainsNotListed(l) ==
  /\ Failure /\ Unheard /\ l \in domainLists /\ domainLists' = domainLists \ {l}
  /\ UNCHANGED <<settingsLoads, settingsForm, newDomain, domains, lists, listShown, relisted,
                 domainRequests, serverDomains, organization>>

----------------------------------------------------------------------------
(* deleteOrg: the tokens are dropped once the organisation is gone.        *)

DeleteOrg ==
  /\ Shown /\ ~deletingOrg /\ Input("delete") /\ deletingOrg' = TRUE
  /\ UNCHANGED <<display, settingsLoads, settingsForm, domainForm, credentials>>

OrgDeleted ==
  /\ deletingOrg /\ deletingOrg' = FALSE /\ credentials' = FALSE /\ goBack' = TRUE
  /\ UNCHANGED <<visit, waits, saved, error, uncaught, settingsLoads, settingsForm, domainForm>>

OrgNotDeleted ==
  /\ Failure /\ Unheard /\ deletingOrg /\ deletingOrg' = FALSE
  /\ UNCHANGED <<settingsLoads, settingsForm, domainForm, credentials>>

----------------------------------------------------------------------------
SettingsAnswers ==
  \/ \E l \in DOMAIN settingsLoads : SettingsLoaded(l)
  \/ \E r \in settingsSaves : SettingStored(r) \/ SettingRefused(r) \/ SettingsAnswered(r)
  \/ \E r \in domainRequests : DomainChanged(r)
  \/ \E l \in domainLists : DomainsRead(l) \/ DomainsListed(l)
  \/ OrgDeleted

SettingsFailures ==
  \/ \E l \in DOMAIN settingsLoads : SettingsNotLoaded(l)
  \/ \E r \in settingsSaves : SettingNotStored(r)
  \/ \E r \in domainRequests : DomainRefused(r)
  \/ \E l \in domainLists : DomainsNotListed(l)
  \/ OrgNotDeleted

SettingsInputs ==
  \/ \E enabled \in BOOLEAN : SwitchDaily(enabled)
  \/ \E hours \in Durations \cup {Blank} : TypeDuration(hours)
  \/ \E d \in Domains : TypeDomain(d)
  \/ \E kind \in {"add", "remove", "verify"}, d \in Domains : ChangeDomain(kind, d)
  \/ SaveSettings \/ DeleteOrg

SettingsNext == SettingsAnswers \/ SettingsFailures \/ SettingsInputs
SettingsSpec == VisitInit /\ ShellInit /\ SettingsInit /\ [][SettingsNext]_settingsVars

----------------------------------------------------------------------------
SettingsTypeOK ==
  /\ settingsLoads \in [{"settings", "items", "authProviders", "timezones"}
                          -> {"pending", "done", "failed"}]
  /\ typed \in [daily : BOOLEAN, max : Nat \cup {Blank}]
  /\ sentSettings.form \in [daily : BOOLEAN, max : Nat \cup {Blank}]
  /\ serverSettings \in [daily : BOOLEAN, max : Nat]
  /\ newDomain \in Domains \cup {NoDomain}
  /\ domains \subseteq [name : Domains, active : BOOLEAN]
  /\ serverDomains \subseteq [name : Domains, active : BOOLEAN]
  /\ domainRequests \subseteq
       [n : Nat, kind : {"add", "remove", "verify"}, name : Domains]
  /\ lists \in Nat /\ listShown \in Nat
  /\ {deletingOrg, credentials, savedTwice, relisted} \subseteq BOOLEAN

\* When the page says "Entry updated." the server has all settings the form
\* sent last.  When it says that they could not be saved, the server may have
\* some of them (they are stored one by one), but none of a form sent earlier
\* than the one before.  Unless Save was pressed twice at a time: then it may
\* have any mixture, and the page may say either.
AlertIsTrue ==
  (/\ settingsLoads["settings"] = "done" /\ settingsSaves = {}
   /\ ~savedTwice /\ (saved \/ error)) =>
    LET sent == sentSettings
    IN  /\ saved # error
        /\ saved => serverSettings = sent.form
        /\ error => serverSettings \in {sent.over, [sent.over EXCEPT !.daily = sent.form.daily]}

\* The domains shown at rest are those the server has, as long as their lists
\* come in order and none fails.
DomainsShownAreStored ==
  (/\ Shown /\ settingsLoads["items"] = "done"
   /\ domainRequests = {} /\ domainLists = {} /\ ~relisted /\ ~uncaught)
    => domains = serverDomains
=============================================================================
