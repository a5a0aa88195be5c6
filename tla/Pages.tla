-------------------------------- MODULE Pages --------------------------------
(***************************************************************************)
(* The pages with forms of the two web applications, one of which is shown *)
(* at a time, from the moment it is mounted: what belongs to the others    *)
(* then rests in one state.                                                *)
(***************************************************************************)
EXTENDS BookingEditor, LocationEditor, SettingsPage, PreferencesPage

PageIs(name) == visit.page = name

PagesInit ==
  /\ VisitInit /\ ShellInit
  /\ BookingInit /\ (PageIs("booking") \/ opened = CHOOSE o \in Openings : TRUE)
  /\ AreaInit /\ (PageIs("area") \/ ~areaHasId)
  /\ SettingsInit /\ (PageIs("settings") \/ serverSettings = CHOOSE s \in SettingsRecords : TRUE)
  /\ PreferencesInit /\ (PageIs("preferences") \/ serverPreferences.caldav_account = NoAccount)

Answers ==
  \/ PageIs("booking") /\ BookingAnswers /\ UNCHANGED <<areaPage, settingsPage, preferencesPage>>
  \/ PageIs("area") /\ AreaAnswers /\ UNCHANGED <<bookingPage, settingsPage, preferencesPage>>
  \/ PageIs("settings") /\ SettingsAnswers /\ UNCHANGED <<bookingPage, areaPage, preferencesPage>>
  \/ PageIs("preferences") /\ PreferencesAnswers
     /\ UNCHANGED <<bookingPage, areaPage, settingsPage>>

Failures ==
  \/ PageIs("booking") /\ BookingFailures /\ UNCHANGED <<areaPage, settingsPage, preferencesPage>>
  \/ PageIs("area") /\ AreaFailures /\ UNCHANGED <<bookingPage, settingsPage, preferencesPage>>
  \/ PageIs("settings") /\ SettingsFailures /\ UNCHANGED <<bookingPage, areaPage, preferencesPage>>
  \/ PageIs("preferences") /\ PreferencesFailures
     /\ UNCHANGED <<bookingPage, areaPage, settingsPage>>

Inputs ==
  \/ PageIs("booking") /\ BookingInputs /\ UNCHANGED <<areaPage, settingsPage, preferencesPage>>
  \/ PageIs("area") /\ AreaInputs /\ UNCHANGED <<bookingPage, settingsPage, preferencesPage>>
  \/ PageIs("settings") /\ SettingsInputs /\ UNCHANGED <<bookingPage, areaPage, preferencesPage>>
  \/ PageIs("preferences") /\ PreferencesInputs
     /\ UNCHANGED <<bookingPage, areaPage, settingsPage>>

\* The timers of the booking's pickers.
Timers == PickPerformed /\ UNCHANGED <<areaPage, settingsPage, preferencesPage>>

PagesNext == Answers \/ Failures \/ Inputs \/ Timers
pagesVars == <<shell, bookingPage, areaPage, settingsPage, preferencesPage>>

\* A request that does not fail is answered in time.  The user need do nothing.
PagesSpec == PagesInit /\ [][PagesNext]_pagesVars /\ WF_pagesVars(Answers)

----------------------------------------------------------------------------
PagesTypeOK ==
  ShellTypeOK /\ BookingTypeOK /\ AreaTypeOK /\ SettingsTypeOK /\ PreferencesTypeOK

\* The lists pages load again after a change are, at rest, those for the form
\* that is shown: the spaces an administrator may book, the domains of the
\* organisation.
ListsAreCurrent == SpacesAreForTheForm /\ DomainsShownAreStored

\* "Entry updated." and "could not be saved" tell what the server has, although
\* it stores a list of settings or preferences entry by entry.
AlertsAreTrue == AlertIsTrue /\ SavedIsStored
=============================================================================
