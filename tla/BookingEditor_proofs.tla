------------------------- MODULE BookingEditor_proofs -------------------------
(***************************************************************************)
(* Proofs about the page of a booking, for any areas, spaces, dates and    *)
(* openings, and any number of inputs and failures.                        *)
(*                                                                         *)
(* That what is sent is what is shown goes by the numbers of the requests  *)
(* for lists: unless a request has failed or was overtaken, the list with  *)
(* the highest number is there or on its way, and it is for the area of    *)
(* the form (Listed); a space that was chosen from it stays in whatever    *)
(* list comes later (Chosen).  That it is for the dates of the form, too,  *)
(* needs that every change of the dates asks for a new list: those of      *)
(* componentDidMount come before any was asked for (TimesInv).             *)
(***************************************************************************)
EXTENDS BookingEditor, TLAPS

\* The requests for lists and the list that is shown.
Listed ==
  /\ asks \in Nat /\ spaces.n \in 0 .. asks
  /\ \A r \in spacesAsked : r.n \in 1 .. asks /\ (r.n = asks => r.area = selectedLocationId)
  /\ spaces.free \subseteq {s \in EditorSpaces : EditorAreaOf[s] = spaces.area}
  /\ spaces.n = 0 => spaces.free = {}
  /\ spaces.n = asks /\ asks # 0 => spaces.area = selectedLocationId
  /\ ~uncaught /\ ~reordered => spaces.n = asks \/ \E r \in spacesAsked : r.n = asks

Excuse == early \/ reordered \/ uncaught

\* The space chosen is of the area chosen, and so are the lists to come.
Chosen ==
  ~Excuse /\ selectedSpaceId # NoSpace =>
    /\ selectedSpaceId \in EditorSpaces /\ EditorAreaOf[selectedSpaceId] = selectedLocationId
    /\ \A r \in spacesAsked : r.area = selectedLocationId
    /\ spaces.n = 0 \/ spaces.area = selectedLocationId

\* Before an existing booking is loaded nothing has been asked for.
Unopened ==
  /\ opened \in Openings /\ bookingLoads \in [BookingLoads -> {"pending", "done", "failed"}]
  /\ bookingLoads["data"] = "pending" =>
       ~canEdit /\ asks = 0 /\ spacesAsked = {} /\ leaveChangeTimer = NoTimer

FormInv == Listed /\ Chosen /\ Unopened

\* At most one POST is pending and at most one booking made; unless the page has
\* an id to update.
Posting == \E save \in bookingSaves : save.verb = "POST"
SavesInv ==
  /\ made \in Nat
  /\ ~resent =>
       /\ \A s1, s2 \in bookingSaves : s1.verb = "POST" /\ s2.verb = "POST" => s1 = s2
       /\ Posting \/ ~hasId => made = 0
       /\ made <= 1
----------------------------------------------------------------------------
(* Bookings are created once.                                              *)

LEMMA SameSaves ==
  ASSUME SavesInv, UNCHANGED <<hasId, bookingSaves, made, resent>>
  PROVE  SavesInv'
BY DEF SavesInv, Posting

LEMMA StepSaves ==
  ASSUME SavesInv, [BookingNext]_bookingVars
  PROVE  SavesInv'
<1>1. ASSUME NEW l \in BookingLoads, BookingLoaded(l) PROVE SavesInv'
  <2>1. UNCHANGED <<bookingSaves, made, resent>>
    BY <1>1 DEF BookingLoaded
  <2>2. hasId' = hasId \/ hasId' = TRUE
    BY <1>1 DEF BookingLoaded, BookingOpened
  <2>3. QED
    BY <2>1, <2>2 DEF SavesInv, Posting
<1>2. ASSUME NEW r \in spacesAsked, SpacesListed(r) \/ SpacesNotListed(r) PROVE SavesInv'
  BY <1>2, SameSaves DEF SpacesListed, SpacesNotListed, stored
<1>3. ASSUME NEW save \in bookingSaves, BookingSaved(save) PROVE SavesInv'
  <2>1. /\ bookingSaves' = bookingSaves \ {save} /\ hasId' = TRUE /\ UNCHANGED resent
        /\ made' = IF save.verb = "POST" THEN made + 1 ELSE made
    BY <1>3 DEF BookingSaved, IdTold
  <2>2. CASE save.verb = "POST"
    BY <1>3, <2>1, <2>2 DEF SavesInv, Posting
  <2>3. CASE save.verb # "POST"
    BY <1>3, <2>1, <2>3 DEF SavesInv, Posting
  <2>4. QED
    BY <2>2, <2>3
<1>4. ASSUME NEW save \in bookingSaves, BookingNotSaved(save) PROVE SavesInv'
  <2>1. /\ bookingSaves' = bookingSaves \ {save} /\ UNCHANGED hasId
        /\ made' \in {made, made + 1} /\ resent' = (resent \/ made' # made)
    BY <1>4 DEF BookingNotSaved
  <2>2. ~resent' => ~resent /\ made' = made
    BY <2>1
  <2>3. made' \in Nat
    BY <2>1 DEF SavesInv
  <2>4. QED
    BY <2>1, <2>2, <2>3 DEF SavesInv, Posting
<1>5. ASSUME NEW l \in BookingLoads, BookingNotLoaded(l) PROVE SavesInv'
  BY <1>5, SameSaves DEF BookingNotLoaded, stored
<1>6. CASE PickPerformed
  BY <1>6, SameSaves DEF PickPerformed, stored
<1>7. ASSUME NEW field, NEW date \in EditorPicks, PickDate(field, date) PROVE SavesInv'
  BY <1>7, SameSaves DEF PickDate, stored
<1>8. ASSUME NEW a \in EditorAreas, ChooseLocation(a) PROVE SavesInv'
  BY <1>8, SameSaves DEF ChooseLocation, stored
<1>9. ASSUME NEW s \in EditorSpaces, ChooseSpace(s) PROVE SavesInv'
  BY <1>9, SameSaves DEF ChooseSpace, stored
<1>10. CASE SaveBooking
  <2>1. PICK new : /\ bookingSaves' = bookingSaves \cup {new}
                   /\ new.verb = IF hasId THEN "PUT" ELSE "POST"
    <3>1. bookingSaves' =
            bookingSaves \cup {[n |-> visit.count, verb |-> IF hasId THEN "PUT" ELSE "POST"]}
      BY <1>10 DEF SaveBooking
    <3>2. [n |-> visit.count, verb |-> IF hasId THEN "PUT" ELSE "POST"].verb
            = IF hasId THEN "PUT" ELSE "POST"
      OBVIOUS
    <3>3. QED
      BY <3>1, <3>2
  <2>2. resent' = (resent \/ Posting) /\ UNCHANGED <<hasId, made>>
    BY <1>10 DEF SaveBooking, Posting
  <2>3. CASE hasId
    BY <2>1, <2>2, <2>3 DEF SavesInv, Posting
  <2>4. CASE ~hasId
    BY <2>1, <2>2, <2>4 DEF SavesInv, Posting
  <2>5. QED
    BY <2>3, <2>4
<1>11. CASE DeleteBooking
  BY <1>11, SameSaves DEF DeleteBooking, stored
<1>12. CASE UNCHANGED bookingVars
  BY <1>12, SameSaves DEF bookingVars, bookingPage, stored
<1>13. QED
  BY <1>1, <1>2, <1>3, <1>4, <1>5, <1>6, <1>7, <1>8, <1>9, <1>10, <1>11, <1>12
  DEF BookingNext, BookingAnswers, BookingFailures, BookingInputs

\* However often the form is saved the page creates one booking, unless Save is
\* pressed while the first POST is pending, or the answer of a POST is lost.
THEOREM BookingIsCreatedOnce == BookingSpec => []CreatedOnce
<1>1. VisitInit /\ ShellInit /\ BookingInit => SavesInv
  BY DEF BookingInit, SavesInv, Posting
<1>2. SavesInv /\ [BookingNext]_bookingVars => SavesInv'
  BY StepSaves
<1>3. SavesInv => CreatedOnce
  BY DEF SavesInv, CreatedOnce
<1>4. QED
  BY <1>1, <1>2, <1>3, PTL DEF BookingSpec

----------------------------------------------------------------------------
(* What is sent is what is shown.                                          *)

LEMMA SameForm ==
  ASSUME FormInv, uncaught => uncaught',
         UNCHANGED <<opened, bookingLoads, selectedLocationId, selectedSpaceId, spaces, spacesAsked,
                     asks, reordered, canEdit, early>>,
         UNCHANGED leaveChangeTimer \/ bookingLoads["data"] # "pending"
  PROVE  FormInv'
<1>1. Listed'
  BY DEF FormInv, Listed
<1>2. Chosen'
  BY DEF FormInv, Chosen, Excuse
<1>3. Unopened'
  BY DEF FormInv, Unopened
<1>4. QED
  BY <1>1, <1>2, <1>3 DEF FormInv

\* A list is asked for, for the area the form has from now on: either that of
\* the space it has, or no space is chosen.
LEMMA AskedForForm ==
  ASSUME FormInv, NEW from, NEW to, AskSpaces(selectedLocationId', from, to),
         UNCHANGED <<spaces, reordered, uncaught>>, Unopened',
         \/ UNCHANGED <<selectedLocationId, selectedSpaceId, early>>
         \/ selectedSpaceId' = NoSpace
         \/ /\ selectedSpaceId' \in EditorSpaces /\ spacesAsked = {} /\ spaces.n = 0
            /\ EditorAreaOf[selectedSpaceId'] = selectedLocationId'
  PROVE  FormInv'
<1> DEFINE new == [n |-> asks', area |-> selectedLocationId', enter |-> from, leave |-> to]
<1>1. asks' = asks + 1 /\ spacesAsked' = spacesAsked \cup {new}
  BY DEF AskSpaces
<1>2. new.n = asks' /\ new.area = selectedLocationId'
  OBVIOUS
<1> HIDE DEF new
<1>3. asks \in Nat /\ spaces.n \in 0 .. asks /\ \A r \in spacesAsked : r.n \in 1 .. asks
  BY DEF FormInv, Listed
<1>4. Listed'
  <2>1. asks' \in Nat /\ spaces'.n \in 0 .. asks' /\ spaces'.n # asks'
    BY <1>1, <1>3
  <2>2. ASSUME NEW r \in spacesAsked'
        PROVE  r.n \in 1 .. asks' /\ (r.n = asks' => r.area = selectedLocationId')
    <3>1. CASE r \in spacesAsked
      BY <1>1, <1>3, <3>1
    <3>2. CASE r = new
      BY <1>1, <1>2, <1>3, <3>2
    <3>3. QED
      BY <1>1, <3>1, <3>2
  <2>3. new \in spacesAsked' /\ new.n = asks'
    BY <1>1, <1>2
  <2>4. /\ spaces'.free \subseteq {s \in EditorSpaces : EditorAreaOf[s] = spaces'.area}
        /\ spaces'.n = 0 => spaces'.free = {}
    BY DEF FormInv, Listed
  <2>5. QED
    BY <2>1, <2>2, <2>3, <2>4 DEF Listed
<1>5. Chosen'
  <2> SUFFICES ASSUME ~Excuse', selectedSpaceId' # NoSpace
               PROVE  /\ selectedSpaceId' \in EditorSpaces
                      /\ EditorAreaOf[selectedSpaceId'] = selectedLocationId'
                      /\ \A r \in spacesAsked' : r.area = selectedLocationId'
                      /\ spaces'.n = 0 \/ spaces'.area = selectedLocationId'
    BY DEF Chosen
  <2>1. CASE UNCHANGED <<selectedLocationId, selectedSpaceId, early>>
    <3>1. ~Excuse
      BY <2>1 DEF Excuse
    <3>2. QED
      BY <1>1, <1>2, <2>1, <3>1 DEF FormInv, Chosen
  <2>2. CASE /\ selectedSpaceId' \in EditorSpaces /\ spacesAsked = {} /\ spaces.n = 0
             /\ EditorAreaOf[selectedSpaceId'] = selectedLocationId'
    BY <1>1, <1>2, <2>2
  <2>3. QED
    BY <2>1, <2>2
<1>6. QED
  BY <1>4, <1>5 DEF FormInv

LEMMA LoadsForm ==
  ASSUME FormInv, NEW l \in BookingLoads, BookingLoaded(l)
  PROVE  FormInv'
<1>1. UNCHANGED <<opened, spaces, reordered, uncaught, early, leaveChangeTimer>>
  BY DEF BookingLoaded, pickers
<1>2. /\ bookingLoads[l] = "pending" /\ bookingLoads' = [bookingLoads EXCEPT ![l] = "done"]
      /\ bookingLoads' \in [BookingLoads -> {"pending", "done", "failed"}]
  BY DEF BookingLoaded, FormInv, Unopened
<1>3. CASE l = "data"
  <2>1. BookingOpened
    BY <1>3 DEF BookingLoaded
  <2>2. opened \in Openings /\ opened.space \in EditorSpaces
    BY EditorAssumption DEF FormInv, Unopened, Opening
  <2>3. spacesAsked = {} /\ asks = 0 /\ spaces.n = 0
    BY <1>2, <1>3 DEF FormInv, Unopened, Listed
  <2>4. bookingLoads'["data"] = "done"
    BY <1>2, <1>3 DEF FormInv, Unopened
  <2>5. Unopened'
    BY <1>1, <1>2, <2>2, <2>4 DEF Unopened
  <2>6. /\ selectedSpaceId' = opened.space /\ selectedLocationId' = EditorAreaOf[opened.space]
        /\ AskSpaces(selectedLocationId', enter' + BrowserOffset, leave' + BrowserOffset)
    BY <2>1 DEF BookingOpened
  <2>7. QED
    BY <1>1, <2>2, <2>3, <2>5, <2>6, AskedForForm
<1>4. CASE l # "data"
  <2>1. UNCHANGED <<selectedLocationId, selectedSpaceId, canEdit, asks, spacesAsked>>
    BY <1>4 DEF BookingLoaded, form
  <2>2. bookingLoads'["data"] = bookingLoads["data"]
    BY <1>2, <1>4 DEF FormInv, Unopened
  <2>3. Listed' /\ Chosen'
    BY <1>1, <2>1 DEF FormInv, Listed, Chosen, Excuse
  <2>4. Unopened'
    BY <1>1, <1>2, <2>1, <2>2 DEF FormInv, Unopened
  <2>5. QED
    BY <2>3, <2>4 DEF FormInv
<1>5. QED
  BY <1>3, <1>4

LEMMA ListsForm ==
  ASSUME FormInv, NEW r \in spacesAsked, SpacesListed(r)
  PROVE  FormInv'
<1>1. /\ spacesAsked' = spacesAsked \ {r}
      /\ UNCHANGED <<opened, bookingLoads, selectedLocationId, selectedSpaceId, asks, canEdit,
                     early, leaveChangeTimer, uncaught>>
  BY DEF SpacesListed, startup, form, pickers, shell, display
<1>2. PICK free \in SUBSET {s \in EditorSpaces : EditorAreaOf[s] = r.area} :
        spaces' = [n |-> r.n, area |-> r.area, enter |-> r.enter, leave |-> r.leave, free |-> free]
  BY DEF SpacesListed
<1>3. spaces'.n = r.n /\ spaces'.area = r.area /\ spaces'.free = free
  BY <1>2
<1>4. reordered' = (reordered \/ r.n < spaces.n)
  BY DEF SpacesListed
<1>5. ~reordered' => ~reordered /\ ~(r.n < spaces.n)
  BY <1>4
<1>6. asks \in Nat /\ r.n \in 1 .. asks /\ spaces.n \in 0 .. asks
      /\ (r.n = asks => r.area = selectedLocationId)
  BY DEF FormInv, Listed
<1>7. Listed'
  <2>1. ~uncaught' /\ ~reordered' => spaces'.n = asks' \/ \E s \in spacesAsked' : s.n = asks'
    <3> SUFFICES ASSUME ~uncaught, ~reordered', r.n # asks
                 PROVE  \E s \in spacesAsked' : s.n = asks
      BY <1>1, <1>3
    <3>1. spaces.n # asks
      BY <1>5, <1>6
    <3>2. QED
      BY <1>1, <1>5, <3>1 DEF FormInv, Listed
  <2>2. /\ spaces'.free \subseteq {s \in EditorSpaces : EditorAreaOf[s] = spaces'.area}
        /\ spaces'.n \in 0 .. asks' /\ spaces'.n # 0 /\ asks' \in Nat
        /\ spaces'.n = asks' => spaces'.area = selectedLocationId'
    BY <1>1, <1>2, <1>3, <1>6
  <2>3. \A s \in spacesAsked' : s.n \in 1 .. asks' /\ (s.n = asks' => s.area = selectedLocationId')
    BY <1>1 DEF FormInv, Listed
  <2>4. QED
    BY <2>1, <2>2, <2>3 DEF Listed
<1>8. Chosen'
  <2>1. ~Excuse' => ~Excuse
    BY <1>1, <1>5 DEF Excuse
  <2>2. QED
    BY <1>1, <1>3, <2>1 DEF FormInv, Chosen
<1>9. Unopened'
  BY <1>1 DEF FormInv, Unopened
<1>10. QED
  BY <1>7, <1>8, <1>9 DEF FormInv

LEMMA FailsForm ==
  ASSUME FormInv,
         \/ \E r \in spacesAsked : SpacesNotListed(r)
         \/ \E l \in BookingLoads : BookingNotLoaded(l)
  PROVE  FormInv'
<1>1. uncaught' = TRUE
  BY DEF SpacesNotListed, BookingNotLoaded, Unheard
<1>2. /\ UNCHANGED <<opened, selectedLocationId, selectedSpaceId, asks, canEdit, spaces,
                     leaveChangeTimer>>
      /\ spacesAsked' \subseteq spacesAsked
  BY DEF SpacesNotListed, BookingNotLoaded, startup, form, offered, pickers
<1>3. /\ bookingLoads' \in [BookingLoads -> {"pending", "done", "failed"}]
      /\ bookingLoads'["data"] = "pending" => bookingLoads["data"] = "pending"
  <2>1. bookingLoads \in [BookingLoads -> {"pending", "done", "failed"}]
    BY DEF FormInv, Unopened
  <2>2. CASE \E r \in spacesAsked : SpacesNotListed(r)
    BY <2>1, <2>2 DEF SpacesNotListed, startup
  <2>3. ASSUME NEW l \in BookingLoads, BookingNotLoaded(l)
        PROVE  /\ bookingLoads' \in [BookingLoads -> {"pending", "done", "failed"}]
               /\ bookingLoads'["data"] = "pending" => bookingLoads["data"] = "pending"
    BY <2>1, <2>3 DEF BookingNotLoaded
  <2>4. QED
    BY <2>2, <2>3
<1>4. Listed' /\ Chosen'
  BY <1>1, <1>2 DEF FormInv, Listed, Chosen, Excuse
<1>5. Unopened'
  BY <1>2, <1>3 DEF FormInv, Unopened
<1>6. QED
  BY <1>4, <1>5 DEF FormInv

LEMMA InputsForm ==
  ASSUME FormInv,
         \/ \E field \in {"enter", "leave"}, date \in EditorPicks : PickDate(field, date)
         \/ \E a \in EditorAreas : ChooseLocation(a)
         \/ \E s \in EditorSpaces : ChooseSpace(s)
         \/ SaveBooking \/ DeleteBooking
  PROVE  FormInv'
<1>1. ASSUME NEW field, NEW date, PickDate(field, date) PROVE FormInv'
  <2>1. canEdit
    BY <1>1 DEF PickDate
  <2>2. bookingLoads["data"] # "pending"
    BY <2>1 DEF FormInv, Unopened
  <2>3. QED
    BY <1>1, <2>2, SameForm DEF PickDate, display, startup, form, offered
<1>2. ASSUME NEW a \in EditorAreas, ChooseLocation(a) PROVE FormInv'
  <2>1. /\ AskSpaces(selectedLocationId', enter, leave) /\ selectedSpaceId' = NoSpace
        /\ UNCHANGED <<spaces, reordered, uncaught, opened, bookingLoads>> /\ canEdit
    BY <1>2 DEF ChooseLocation, SpaceIn, display, startup
  <2>2. Unopened'
    BY <2>1 DEF FormInv, Unopened
  <2>3. QED
    BY <2>1, <2>2, AskedForForm
<1>3. ASSUME NEW s \in EditorSpaces, ChooseSpace(s) PROVE FormInv'
  <2>1. /\ selectedSpaceId' = s /\ early' = (spacesAsked # {}) /\ s \in spaces.free
        /\ UNCHANGED <<opened, bookingLoads, selectedLocationId, spaces, spacesAsked, asks,
                       reordered, uncaught, canEdit, leaveChangeTimer>>
    BY <1>3 DEF ChooseSpace, display, startup, offered, pickers
  <2>2. Listed' /\ Unopened'
    BY <2>1 DEF FormInv, Listed, Unopened
  <2>3. ASSUME ~Excuse'
        PROVE  /\ selectedSpaceId' \in EditorSpaces
               /\ EditorAreaOf[selectedSpaceId'] = selectedLocationId'
               /\ \A r \in spacesAsked' : r.area = selectedLocationId'
               /\ spaces'.n = 0 \/ spaces'.area = selectedLocationId'
    <3>1. spacesAsked = {} /\ ~reordered /\ ~uncaught
      BY <2>1, <2>3 DEF Excuse
    <3>2. spaces.n = asks /\ asks # 0
      BY <2>1, <3>1 DEF FormInv, Listed
    <3>3. spaces.area = selectedLocationId /\ EditorAreaOf[s] = spaces.area
      BY <2>1, <3>2 DEF FormInv, Listed
    <3>4. QED
      BY <2>1, <3>1, <3>3
  <2>4. Chosen'
    BY <2>3 DEF Chosen
  <2>5. QED
    BY <2>2, <2>4 DEF FormInv
<1>4. CASE SaveBooking
  <2>1. UNCHANGED <<uncaught, opened, bookingLoads, selectedLocationId, selectedSpaceId, spaces,
                    spacesAsked, asks, reordered, canEdit, early, leaveChangeTimer>>
    BY <1>4 DEF SaveBooking, startup, offered, pickers
  <2>2. QED
    BY <2>1, SameForm
<1>5. CASE DeleteBooking
  BY <1>5, SameForm DEF DeleteBooking, startup, form, offered, pickers
<1>6. QED
  BY <1>1, <1>2, <1>3, <1>4, <1>5

LEMMA StepForm ==
  ASSUME FormInv, [BookingNext]_bookingVars
  PROVE  FormInv'
<1>1. ASSUME NEW save \in bookingSaves, BookingSaved(save) \/ BookingNotSaved(save) PROVE FormInv'
  <2>1. UNCHANGED <<uncaught, opened, bookingLoads, selectedLocationId, selectedSpaceId, spaces,
                    spacesAsked, asks, reordered, canEdit, early, leaveChangeTimer>>
    <3>1. CASE BookingSaved(save)
      BY <3>1 DEF BookingSaved, startup, form, offered, pickers
    <3>2. CASE BookingNotSaved(save)
      BY <3>2 DEF BookingNotSaved, startup, form, offered, pickers
    <3>3. QED
      BY <1>1, <3>1, <3>2
  <2>2. QED
    BY <2>1, SameForm
<1>2. CASE PickPerformed
  <2>1. leaveChangeTimer # NoTimer
    BY <1>2 DEF PickPerformed
  <2>2. bookingLoads["data"] # "pending"
    BY <2>1 DEF FormInv, Unopened
  <2>3. UNCHANGED <<opened, bookingLoads, selectedLocationId, selectedSpaceId, canEdit, spaces,
                    reordered, early, uncaught>>
    BY <1>2 DEF PickPerformed, shell, display, startup
  <2>4. Unopened'
    BY <2>2, <2>3 DEF FormInv, Unopened
  <2>5. CASE selectedLocationId = NoArea
    BY <1>2, <2>2, <2>3, <2>5, SameForm DEF PickPerformed
  <2>6. CASE selectedLocationId # NoArea
    BY <1>2, <2>3, <2>4, <2>6, AskedForForm DEF PickPerformed
  <2>7. QED
    BY <2>5, <2>6
<1>3. CASE UNCHANGED bookingVars
  BY <1>3, SameForm DEF bookingVars, bookingPage, shell, display, startup, form, offered, pickers
<1>4. QED
  BY <1>1, <1>2, <1>3, LoadsForm, ListsForm, FailsForm, InputsForm
  DEF BookingNext, BookingAnswers, BookingFailures, BookingInputs

\* A booking that is sent is the one that is excused, or the one shown.
LEMMA StepSends ==
  ASSUME FormInv, SentAsShown, [BookingNext]_bookingVars
  PROVE  SentAsShown'
<1>1. CASE SaveBooking
  <2>1. sentBooking' = [space |-> selectedSpaceId, shown |-> ShownSpace, excused |-> Excuse]
    BY <1>1 DEF SaveBooking, Excuse
  <2>2. CASE Excuse
    BY <2>1, <2>2 DEF SentAsShown
  <2>3. CASE ~Excuse
    <3>1. ShownSpace \in {selectedSpaceId, NoSpace}
      <4>1. CASE selectedSpaceId \in InList \cup {NoSpace} \/ spaces.free = {}
        BY <4>1 DEF ShownSpace
      <4>2. CASE selectedSpaceId # NoSpace /\ spaces.free # {}
        <5>1. spaces.n # 0
          BY <4>2 DEF FormInv, Listed
        <5>2. selectedSpaceId \in EditorSpaces /\ EditorAreaOf[selectedSpaceId] = spaces.area
          BY <2>3, <4>2, <5>1 DEF FormInv, Chosen
        <5>3. selectedSpaceId \in InList
          BY <5>2 DEF InList
        <5>4. QED
          BY <4>1, <5>3
      <4>3. QED
        BY <4>1, <4>2
    <3>2. QED
      BY <2>1, <3>1 DEF SentAsShown
  <2>4. QED
    BY <2>2, <2>3
<1>2. CASE ~SaveBooking
  <2>1. UNCHANGED sentBooking
    BY <1>2 DEF BookingNext, BookingAnswers, BookingFailures, BookingInputs, bookingVars,
       bookingPage, stored, BookingLoaded, SpacesListed, BookingSaved, BookingNotLoaded,
       SpacesNotListed, BookingNotSaved, PickPerformed, PickDate, ChooseLocation, ChooseSpace,
       DeleteBooking
  <2>2. QED
    BY <2>1 DEF SentAsShown
<1>3. QED
  BY <1>1, <1>2

LEMMA InitForm == VisitInit /\ ShellInit /\ BookingInit => FormInv /\ SentAsShown
<1> SUFFICES ASSUME ShellInit, BookingInit PROVE FormInv /\ SentAsShown
  OBVIOUS
<1>1. /\ spaces.n = 0 /\ spaces.free = {} /\ spacesAsked = {} /\ asks = 0
      /\ selectedSpaceId = NoSpace
  BY DEF BookingInit, NoSpaces
<1>2. Listed
  BY <1>1 DEF Listed
<1>3. Chosen
  BY <1>1 DEF Chosen
<1>4. bookingLoads \in [BookingLoads -> {"pending", "done", "failed"}]
      /\ (bookingLoads["data"] = "pending" => ~opened.new)
  BY DEF BookingInit, BookingLoads
<1>5. Unopened
  BY <1>1, <1>4 DEF BookingInit, Unopened
<1>6. SentAsShown
  BY DEF BookingInit, NotSent, SentAsShown
<1>7. QED
  BY <1>2, <1>3, <1>5, <1>6 DEF FormInv

\* The space that is sent is the one the form shows, in whatever order lists
\* come: unless it was chosen from an old list, or a list came out of order or
\* not at all.
THEOREM WhatIsShownIsSent == BookingSpec => []SentAsShown
<1>1. FormInv /\ SentAsShown /\ [BookingNext]_bookingVars => (FormInv /\ SentAsShown)'
  BY StepForm, StepSends
<1>2. QED
  BY <1>1, InitForm, PTL DEF BookingSpec
----------------------------------------------------------------------------
(* The list is for the dates of the form.                                  *)

AskedFor(n, t) == IF n = 1 /\ ~opened.new THEN t + BrowserOffset ELSE t
IsForForm(list) == list.enter = AskedFor(list.n, enter) /\ list.leave = AskedFor(list.n, leave)

\* The list with the highest number is for the dates of the form.  Before the
\* page is loaded a new booking has asked for none.
TimesInv ==
  /\ asks = 0 <=> selectedLocationId = NoArea
  /\ ~rounded => /\ \A r \in spacesAsked : r.n = asks => IsForForm(r)
                 /\ spaces.n = asks /\ asks # 0 => IsForForm(spaces)
  /\ loading \/ \A l \in Awaited : bookingLoads[l] = "done"
  /\ IF opened.new THEN bookingLoads["data"] = "done" /\ (loading => asks = 0)
     ELSE ~isNewBooking /\ (bookingLoads["data"] = "done" => asks # 0)

LEMMA SameTimes ==
  ASSUME TimesInv, ~rounded' => ~rounded,
         UNCHANGED <<asks, selectedLocationId, spacesAsked, spaces, loading, opened, bookingLoads,
                     isNewBooking>>,
         UNCHANGED <<enter, leave>> \/ asks = 0 \/ rounded',
         asks = 0 => spacesAsked = {}
  PROVE  TimesInv'
<1>1. ~rounded' =>
        /\ \A r \in spacesAsked' : r.n = asks' => IsForForm(r)'
        /\ spaces'.n = asks' /\ asks' # 0 => IsForForm(spaces)'
  BY DEF TimesInv, IsForForm, AskedFor
<1>2. QED
  BY <1>1 DEF TimesInv

LEMMA NobodyAsked ==
  ASSUME FormInv, asks = 0
  PROVE  spacesAsked = {}
<1>1. \A r \in spacesAsked : r.n \in 1 .. 0
  BY DEF FormInv, Listed
<1>2. QED
  BY <1>1

\* A list is asked for; the first one of an existing booking when it is opened.
LEMMA AskedForTimes ==
  ASSUME FormInv, NEW from, NEW to, AskSpaces(selectedLocationId', from, to),
         from = AskedFor(asks + 1, enter'), to = AskedFor(asks + 1, leave'),
         UNCHANGED <<spaces, opened>>, selectedLocationId' # NoArea
  PROVE  /\ asks' # 0 /\ selectedLocationId' # NoArea
         /\ \A r \in spacesAsked' : r.n = asks' => IsForForm(r)'
         /\ spaces'.n = asks' /\ asks' # 0 => IsForForm(spaces)'
<1>1. PICK new : new = [n |-> asks', area |-> selectedLocationId', enter |-> from, leave |-> to]
  OBVIOUS
<1>2. asks' = asks + 1 /\ spacesAsked' = spacesAsked \cup {new}
  BY <1>1 DEF AskSpaces
<1>3. new.n = asks' /\ new.enter = from /\ new.leave = to
  BY <1>1
<1>4. asks \in Nat /\ spaces.n \in 0 .. asks /\ \A r \in spacesAsked : r.n \in 1 .. asks
  BY DEF FormInv, Listed
<1>5. \A r \in spacesAsked : r.n # asks'
  BY <1>2, <1>4
<1>6. asks' # 0 /\ spaces'.n # asks'
  BY <1>2, <1>4
<1>7. ASSUME NEW r \in spacesAsked', r.n = asks' PROVE IsForForm(r)'
  <2>1. r = new
    BY <1>2, <1>5, <1>7
  <2>2. r.n = asks + 1 /\ r.enter = from /\ r.leave = to
    BY <1>2, <1>3, <2>1
  <2>3. QED
    BY <2>2 DEF IsForForm, AskedFor
<1>8. QED
  BY <1>6, <1>7

LEMMA LoadsTimes ==
  ASSUME FormInv, TimesInv, NEW l \in BookingLoads, BookingLoaded(l)
  PROVE  TimesInv'
<1>1. /\ UNCHANGED <<opened, spaces>>
      /\ bookingLoads[l] = "pending" /\ bookingLoads' = [bookingLoads EXCEPT ![l] = "done"]
      /\ loading' = \E other \in Awaited : bookingLoads'[other] # "done"
  BY DEF BookingLoaded
<1>2. bookingLoads \in [BookingLoads -> {"pending", "done", "failed"}]
  BY DEF FormInv, Unopened
<1>3. loading' \/ \A other \in Awaited : bookingLoads'[other] = "done"
  BY <1>1
<1>4. ~loading => ~loading'
  BY <1>1, <1>2 DEF TimesInv, Awaited
<1>5. CASE l = "data"
  <2>1. BookingOpened /\ ~opened.new
    BY <1>1, <1>5 DEF BookingLoaded, TimesInv
  <2>2. opened.space \in EditorSpaces /\ asks = 0
    BY <1>1, <1>5, EditorAssumption DEF FormInv, Unopened, Opening
  <2>3. /\ selectedLocationId' = EditorAreaOf[opened.space] /\ ~isNewBooking'
        /\ AskSpaces(selectedLocationId', enter' + BrowserOffset, leave' + BrowserOffset)
    BY <2>1 DEF BookingOpened
  <2>4. selectedLocationId' # NoArea
    BY <2>2, <2>3, EditorAssumption
  <2>5. /\ enter' + BrowserOffset = AskedFor(asks + 1, enter')
        /\ leave' + BrowserOffset = AskedFor(asks + 1, leave')
    BY <2>1, <2>2 DEF AskedFor
  <2>6. /\ asks' # 0
        /\ \A r \in spacesAsked' : r.n = asks' => IsForForm(r)'
        /\ spaces'.n = asks' /\ asks' # 0 => IsForForm(spaces)'
    BY <1>1, <2>3, <2>4, <2>5, AskedForTimes
  <2>7. QED
    BY <1>1, <1>3, <2>1, <2>3, <2>4, <2>6 DEF TimesInv
<1>6. CASE l # "data"
  <2>1. UNCHANGED <<selectedLocationId, isNewBooking, asks, spacesAsked, rounded>>
    BY <1>6 DEF BookingLoaded, form
  <2>2. UNCHANGED <<enter, leave>> \/ (isNewBooking /\ loading)
    BY <1>6 DEF BookingLoaded, form
  <2>3. isNewBooking /\ loading => asks = 0
    BY DEF TimesInv
  <2>4. ~rounded' => /\ \A r \in spacesAsked' : r.n = asks' => IsForForm(r)'
                     /\ spaces'.n = asks' /\ asks' # 0 => IsForForm(spaces)'
    <3>1. CASE asks = 0
      BY <2>1, <3>1, NobodyAsked
    <3>2. CASE UNCHANGED <<enter, leave>>
      BY <1>1, <2>1, <3>2 DEF TimesInv, IsForForm, AskedFor
    <3>3. QED
      BY <2>2, <2>3, <3>1, <3>2
  <2>5. bookingLoads'["data"] = bookingLoads["data"]
    BY <1>1, <1>2, <1>6
  <2>6. QED
    BY <1>1, <1>3, <1>4, <2>1, <2>4, <2>5 DEF TimesInv
<1>7. QED
  BY <1>5, <1>6

LEMMA ListsTimes ==
  ASSUME TimesInv, NEW r \in spacesAsked, SpacesListed(r)
  PROVE  TimesInv'
<1>1. /\ spacesAsked' = spacesAsked \ {r}
      /\ UNCHANGED <<opened, bookingLoads, selectedLocationId, asks, enter, leave, loading,
                     isNewBooking, rounded>>
      /\ spaces'.n = r.n /\ spaces'.enter = r.enter /\ spaces'.leave = r.leave
  BY DEF SpacesListed, startup, form, stored, shell, display, waits
<1>2. ~rounded' => /\ \A s \in spacesAsked' : s.n = asks' => IsForForm(s)'
                   /\ spaces'.n = asks' /\ asks' # 0 => IsForForm(spaces)'
  BY <1>1 DEF TimesInv, IsForForm, AskedFor
<1>3. QED
  BY <1>1, <1>2 DEF TimesInv

LEMMA FailsTimes ==
  ASSUME FormInv, TimesInv,
         \/ \E r \in spacesAsked : SpacesNotListed(r)
         \/ \E l \in BookingLoads : BookingNotLoaded(l)
  PROVE  TimesInv'
<1>1. /\ UNCHANGED <<opened, selectedLocationId, asks, enter, leave, spaces, loading, isNewBooking,
                     rounded>>
      /\ spacesAsked' \subseteq spacesAsked
  BY DEF SpacesNotListed, BookingNotLoaded, Unheard, startup, form, offered, stored
<1>2. \A l \in BookingLoads : bookingLoads'[l] = "done" <=> bookingLoads[l] = "done"
  BY DEF SpacesNotListed, BookingNotLoaded, startup, FormInv, Unopened
<1>3. ~rounded' => /\ \A s \in spacesAsked' : s.n = asks' => IsForForm(s)'
                   /\ spaces'.n = asks' /\ asks' # 0 => IsForForm(spaces)'
  BY <1>1 DEF TimesInv, IsForForm, AskedFor
<1>4. QED
  BY <1>1, <1>2, <1>3 DEF TimesInv, Awaited, BookingLoads

LEMMA StepTimes ==
  ASSUME FormInv, TimesInv, [BookingNext]_bookingVars
  PROVE  TimesInv'
<1> USE DEF shell, display, waits, startup, form, offered, stored, pickers
<1>1. ASSUME NEW save \in bookingSaves, BookingSaved(save) \/ BookingNotSaved(save) PROVE TimesInv'
  <2>1. UNCHANGED <<asks, selectedLocationId, spacesAsked, spaces, loading, opened, bookingLoads,
                    rounded, enter, leave>>
    <3>1. CASE BookingSaved(save)
      BY <3>1 DEF BookingSaved
    <3>2. CASE BookingNotSaved(save)
      BY <3>2 DEF BookingNotSaved
    <3>3. QED
      BY <1>1, <3>1, <3>2
  <2>2. isNewBooking' => isNewBooking
    BY <1>1 DEF BookingSaved, BookingNotSaved
  <2>3. ~rounded' => /\ \A r \in spacesAsked' : r.n = asks' => IsForForm(r)'
                     /\ spaces'.n = asks' /\ asks' # 0 => IsForForm(spaces)'
    BY <2>1 DEF TimesInv, IsForForm, AskedFor
  <2>4. QED
    BY <2>1, <2>2, <2>3 DEF TimesInv
<1>2. CASE PickPerformed
  <2>1. UNCHANGED <<opened, bookingLoads, selectedLocationId, spaces, loading, isNewBooking>>
    BY <1>2 DEF PickPerformed
  <2>2. CASE selectedLocationId = NoArea
    BY <1>2, <2>1, <2>2, NobodyAsked, SameTimes DEF PickPerformed, TimesInv
  <2>3. CASE selectedLocationId # NoArea
    <3>1. AskSpaces(selectedLocationId', enter', leave') /\ asks # 0 /\ asks \in Nat
      BY <1>2, <2>1, <2>3 DEF PickPerformed, TimesInv, FormInv, Listed
    <3>2. enter' = AskedFor(asks + 1, enter') /\ leave' = AskedFor(asks + 1, leave')
      BY <3>1 DEF AskedFor
    <3>3. /\ asks' # 0
          /\ \A r \in spacesAsked' : r.n = asks' => IsForForm(r)'
          /\ spaces'.n = asks' /\ asks' # 0 => IsForForm(spaces)'
      BY <2>1, <2>3, <3>1, <3>2, AskedForTimes
    <3>4. QED
      BY <2>1, <2>3, <3>1, <3>3 DEF TimesInv
  <2>4. QED
    BY <2>2, <2>3
<1>3. ASSUME NEW field, NEW date, PickDate(field, date) PROVE TimesInv'
  BY <1>3, NobodyAsked, SameTimes DEF PickDate
<1>4. ASSUME NEW a \in EditorAreas, ChooseLocation(a) PROVE TimesInv'
  <2>1. /\ AskSpaces(selectedLocationId', enter', leave') /\ selectedLocationId' # NoArea
        /\ UNCHANGED <<opened, bookingLoads, spaces, loading, isNewBooking>> /\ ~loading
    BY <1>4, EditorAssumption DEF ChooseLocation, Shown
  <2>2. asks \in Nat /\ (~opened.new => asks # 0)
    BY <2>1 DEF TimesInv, FormInv, Listed, Awaited, BookingLoads
  <2>3. enter' = AskedFor(asks + 1, enter') /\ leave' = AskedFor(asks + 1, leave')
    BY <2>1, <2>2 DEF AskedFor
  <2>4. /\ asks' # 0
        /\ \A r \in spacesAsked' : r.n = asks' => IsForForm(r)'
        /\ spaces'.n = asks' /\ asks' # 0 => IsForForm(spaces)'
    BY <2>1, <2>3, AskedForTimes
  <2>5. QED
    BY <2>1, <2>4 DEF TimesInv
<1>5. ASSUME NEW s \in EditorSpaces, ChooseSpace(s) PROVE TimesInv'
  BY <1>5, NobodyAsked, SameTimes DEF ChooseSpace
<1>6. CASE SaveBooking
  <2>1. /\ UNCHANGED <<asks, selectedLocationId, spacesAsked, spaces, loading, opened,
                       bookingLoads, isNewBooking>>
        /\ rounded' = (rounded \/ <<enter', leave'>> # <<enter, leave>>)
    BY <1>6 DEF SaveBooking
  <2>2. (~rounded' => ~rounded) /\ (UNCHANGED <<enter, leave>> \/ rounded')
    BY <2>1
  <2>3. QED
    BY <2>1, <2>2, NobodyAsked, SameTimes
<1>7. CASE DeleteBooking
  BY <1>7, NobodyAsked, SameTimes DEF DeleteBooking
<1>8. CASE UNCHANGED bookingVars
  BY <1>8, NobodyAsked, SameTimes DEF bookingVars, bookingPage
<1>9. QED
  BY <1>1, <1>2, <1>3, <1>4, <1>5, <1>6, <1>7, <1>8, LoadsTimes, ListsTimes, FailsTimes
  DEF BookingNext, BookingAnswers, BookingFailures, BookingInputs

LEMMA InitTimes == VisitInit /\ ShellInit /\ BookingInit => TimesInv
<1> SUFFICES ASSUME ShellInit, BookingInit PROVE TimesInv
  OBVIOUS
<1>1. asks = 0 /\ selectedLocationId = NoArea /\ spacesAsked = {} /\ loading
  BY DEF BookingInit, ShellInit
<1>2. opened.new => bookingLoads["data"] = "done"
  BY DEF BookingInit, BookingLoads
<1>3. ~opened.new => ~isNewBooking /\ bookingLoads["data"] = "pending"
  BY DEF BookingInit, BookingLoads
<1>4. QED
  BY <1>1, <1>2, <1>3 DEF TimesInv

LEMMA TimesAreForTheForm ==
  ASSUME FormInv, TimesInv
  PROVE  SpacesAreForTheForm
<1>1. SUFFICES ASSUME spacesAsked = {}, selectedLocationId # NoArea, ~reordered, ~rounded, ~uncaught
               PROVE  spaces.area = selectedLocationId /\ IsForForm(spaces)
  BY DEF SpacesAreForTheForm, IsForForm, AskedFor
<1>2. asks # 0 /\ spaces.n = asks
  BY <1>1 DEF FormInv, Listed, TimesInv
<1>3. QED
  BY <1>1, <1>2 DEF FormInv, Listed, TimesInv

\* The list of a form at rest is for the area and the dates it shows, unless one
\* came out of order or not at all, or Save has rounded the dates since; the
\* first list of an existing booking is for dates shifted by the browser's zone.
THEOREM SpacesFitTheForm == BookingSpec => []SpacesAreForTheForm
<1>1. FormInv /\ TimesInv /\ [BookingNext]_bookingVars => (FormInv /\ TimesInv)'
  BY StepForm, StepTimes
<1>2. VisitInit /\ ShellInit /\ BookingInit => FormInv /\ TimesInv
  BY InitForm, InitTimes
<1>3. FormInv /\ TimesInv => SpacesAreForTheForm
  BY TimesAreForTheForm
<1>4. QED
  BY <1>1, <1>2, <1>3, PTL DEF BookingSpec
=============================================================================
