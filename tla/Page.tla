-------------------------------- MODULE Page --------------------------------
(***************************************************************************)
(* What the pages of the two web applications have in common: a React      *)
(* component that is mounted, loads what it shows, and offers a form whose *)
(* Save button sends it.  A page module extends this one, and the          *)
(* applications show one page at a time.                                   *)
(*                                                                         *)
(* An action is a callback, of the user, of a timer or of an answered      *)
(* request, with everything that runs before the next callback can: the    *)
(* setState calls and the requests it sends.  The answers of requests that *)
(* are pending together arrive in any order, and each of them may fail.    *)
(***************************************************************************)
EXTENDS Integers, FiniteSets

CONSTANT
  Visits         \* bounds what the user does and what fails while a page is shown

VARIABLES
  visit,         \* the page, and the inputs and failures left of the visit
  loading, submitting, saved, error, goBack,
  uncaught       \* history: a request has failed whose promise has no catch

waits == <<loading, submitting>>
display == <<waits, saved, error, goBack, uncaught>>
shell == <<visit, display>>

ASSUME VisitsAssumption ==
  Visits \subseteq [page : STRING, inputs : SUBSET STRING, count : Nat, failures : Nat]

VisitInit == visit \in Visits

ShellInit ==
  /\ loading = TRUE /\ submitting = FALSE /\ saved = FALSE 
  /\ error = FALSE /\ goBack = FALSE /\ uncaught = FALSE

Input(kind) ==
  /\ kind \in visit.inputs /\ visit.count > 0
  /\ visit' = [visit EXCEPT !.count = @ - 1]
Failure == visit.failures > 0 /\ visit' = [visit EXCEPT !.failures = @ - 1]

\* While it loads a page shows a spinner, and once it goes back nothing.
Shown == ~loading /\ ~goBack

\* What a request says when its promise has no catch: nothing.
Unheard == uncaught' = TRUE /\ UNCHANGED <<loading, submitting, saved, error, goBack>>

ShellTypeOK ==
  /\ visit \in [page : STRING, inputs : SUBSET STRING, count : Nat, failures : Nat]
  /\ {loading, submitting, saved, error, goBack, uncaught} \subseteq BOOLEAN

\* Every wait ends (the spinner of a page that loads, and of a Save button),
\* unless a request has failed that nobody catches: then it never does.
EveryWaitEnds == (loading \/ submitting) ~> (~(loading \/ submitting) \/ uncaught)
=============================================================================
