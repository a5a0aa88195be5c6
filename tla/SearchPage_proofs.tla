-------------------------- MODULE SearchPage_proofs ---------------------------
(***************************************************************************)
(* Proofs about the booking page of the web client, for any areas, spaces, *)
(* dates and settings, and any number of inputs and failures.              *)
(*                                                                         *)
(* While loads do not overlap and none fails there is at most one chain of *)
(* requests; and what it is about is what the form shows (OnItsWay), so    *)
(* that the page it leaves behind is, too (Settled).  Of the dialogs: what *)
(* is selected while the confirmation is shown stays what was offered,     *)
(* since whatever might change the area is covered by it (Asked).          *)
(***************************************************************************)
EXTENDS SearchPage, TLAPS

Smooth == ~overlapped /\ ~failed

\* The requests of a page.
ChainFields == {"of", "at", "area", "enter", "leave", "attributes"}
IsChain(c) == DOMAIN c = ChainFields /\ c.of # "none"
Chains == DOMAIN chain = Slots /\ \A s \in Slots : chain[s] = Idle \/ IsChain(chain[s])

\* The list and the map are those of the form; the list's dates, unless there is
\* none for the dates of the form.
ListIsForDates == skipped \/ (data.enter = enter /\ data.leave = leave)
Settled ==
  locationId # NoArea => mapData = locationId /\ data.area = locationId /\ ListIsForDates

\* A chain will leave a page that is settled.
OnItsWay(c) ==
  /\ c.of = "dates" => c.at = "spaces"
  /\ c.at = "search" => c.of = "applySearch"
  /\ c.at = "attributes" =>
       IF c.of = "applySearch" THEN Settled ELSE c.of # "loadItems" => c.area = locationId
  /\ c.at = "location" => c.area = locationId
  /\ c.at = "spaces" =>
       /\ c.area = locationId
       /\ skipped \/ (c.enter = enter /\ c.leave = leave)
       /\ c.of = "dates" => mapData = locationId
  /\ c.at = "map" => c.area = locationId /\ data.area = locationId /\ ListIsForDates
  /\ c.at \in {"buddy", "buddies"} => Settled

Tidy ==
  /\ \A s1, s2 \in Pending : s1 = s2
  /\ ~Booted => Pending = {} /\ locationId = NoArea
  /\ Booted /\ Pending = {} => Settled
  /\ \A s \in Pending : OnItsWay(chain[s])
  /\ ~loading /\ (Pending # {} \/ ~Booted) => skipped

PageInv == DOMAIN boot = Lists /\ Chains /\ (Smooth => Tidy)

\* The space selected is one that was offered for the area and dates shown.
ItemOffered ==
  LET from == selectedSpace.from
  IN  /\ selectedSpace.space \in from.free /\ AreaOf[selectedSpace.space] = locationId
      /\ from.enter = enter /\ from.leave = leave

\* The last chain of loadItems may select the space of a link.
Loading(c) ==
  c.of = "loadItems" =>
    /\ c.at # "map" => data.area = NoArea
    /\ "confirm" \in modals => c.at = "map" /\ skipped
    /\ ~({"search", "confirm"} \subseteq modals)

Asked ==
  /\ ~Booted => "confirm" \notin modals /\ data.area = NoArea
  /\ \A s \in Pending : Loading(chain[s])
  /\ {"search", "confirm"} \subseteq modals => front \in modals /\ front \in {"confirm", "error"}
  /\ "confirm" \in modals /\ ~moved =>
       ItemOffered /\ \A s \in Pending : chain[s].of # "applySearch"

DialogInv == Smooth => Asked
----------------------------------------------------------------------------
(* Chains: one starts, goes on, or ends.                                   *)

LEMMA Launched ==
  ASSUME Chains, NEW c, IsChain(c), Launch(c)
  PROVE  /\ Chains'
         /\ \E s \in Slots \ Pending :
              /\ chain'[s] = c /\ Pending' = Pending \cup {s}
              /\ \A r \in Pending : chain'[r] = chain[r]
<1> DEFINE s == CHOOSE x \in Free : TRUE
<1>1. s \in Free /\ chain' = [chain EXCEPT ![s] = c]
  BY DEF Launch
<1> HIDE DEF s
<1>2. s \in Slots \ Pending
  BY <1>1 DEF Free, Pending
<1>3. DOMAIN chain' = Slots /\ chain'[s] = c /\ \A r \in Slots \ {s} : chain'[r] = chain[r]
  BY <1>1, <1>2 DEF Chains
<1>4. c # Idle
  BY DEF IsChain, Idle
<1>5. Chains'
  BY <1>3 DEF Chains
<1>6. Pending' = Pending \cup {s}
  BY <1>2, <1>3, <1>4 DEF Pending, Free
<1>7. QED
  BY <1>2, <1>3, <1>5, <1>6 DEF Pending

LEMMA Changed ==
  ASSUME Chains, NEW s \in Pending, NEW c, IsChain(c), chain' = [chain EXCEPT ![s] = c]
  PROVE  Chains' /\ Pending' = Pending /\ chain'[s] = c
<1>1. s \in Slots /\ chain[s] # Idle
  BY DEF Pending, Free
<1>2. DOMAIN chain' = Slots /\ chain'[s] = c /\ \A r \in Slots \ {s} : chain'[r] = chain[r]
  BY <1>1 DEF Chains
<1>3. c # Idle
  BY DEF IsChain, Idle
<1>4. Chains'
  BY <1>2 DEF Chains
<1>5. Pending' = Pending
  BY <1>1, <1>2, <1>3 DEF Pending, Free
<1>6. QED
  BY <1>2, <1>4, <1>5

LEMMA Ended ==
  ASSUME Chains, NEW s \in Pending, EndOf(s)
  PROVE  Chains' /\ Pending' = Pending \ {s}
<1>1. s \in Slots
  BY DEF Pending
<1>2. DOMAIN chain' = Slots /\ chain'[s] = Idle /\ \A r \in Slots \ {s} : chain'[r] = chain[r]
  BY <1>1 DEF Chains, EndOf
<1>3. Chains'
  BY <1>2 DEF Chains
<1>4. Pending' = Pending \ {s}
  BY <1>1, <1>2 DEF Pending, Free
<1>5. QED
  BY <1>3, <1>4

LEMMA Busy ==
  ASSUME Chains, NEW s \in Slots, chain[s].of # "none"
  PROVE  s \in Pending /\ IsChain(chain[s])
<1>1. chain[s] # Idle
  BY DEF Idle
<1>2. QED
  BY <1>1 DEF Chains, Pending, Free

LEMMA Continued ==
  ASSUME Chains, NEW s \in Pending, NEW step, Continue(s, step)
  PROVE  /\ Chains' /\ Pending' = Pending
         /\ chain'[s].of = chain[s].of /\ chain'[s].at = step /\ chain'[s].area = chain[s].area
         /\ chain'[s].enter = chain[s].enter /\ chain'[s].leave = chain[s].leave
<1> DEFINE c == [chain[s] EXCEPT !.at = step]
<1>1. s \in Slots /\ IsChain(chain[s])
  BY DEF Pending, Free, Chains
<1>2. IsChain(c)
  BY <1>1 DEF IsChain, ChainFields
<1>3. chain' = [chain EXCEPT ![s] = c]
  BY DEF Continue
<1>4. /\ c.of = chain[s].of /\ c.at = step /\ c.area = chain[s].area
      /\ c.enter = chain[s].enter /\ c.leave = chain[s].leave
  BY <1>1 DEF IsChain, ChainFields
<1> HIDE DEF c
<1>5. QED
  BY <1>2, <1>3, <1>4, Changed

\* A load of its own makes the page start another one only if nothing is pending.
LEMMA StartsAlone ==
  ASSUME Chains, NEW c, IsChain(c), Start(c)
  PROVE  /\ Chains'
         /\ ~overlapped' =>
              /\ ~overlapped /\ Pending = {} /\ Booted
              /\ \E s \in Slots : Pending' = {s} /\ chain'[s] = c
<1>1. Chains' /\ \E s \in Slots \ Pending : chain'[s] = c /\ Pending' = Pending \cup {s}
  BY Launched DEF Start
<1>2. overlapped' = (overlapped \/ Pending # {} \/ ~Booted)
  BY DEF Start
<1>3. QED
  BY <1>1, <1>2

LEMMA SomeChain ==
  ASSUME NEW f, NEW step, NEW area, NEW attributes, f # "none"
  PROVE  /\ IsChain(Chain(f, step, area, attributes))
         /\ Chain(f, step, area, attributes).of = f
         /\ Chain(f, step, area, attributes).at = step
         /\ Chain(f, step, area, attributes).area = area
         /\ Chain(f, step, area, attributes).enter = enter
         /\ Chain(f, step, area, attributes).leave = leave
BY DEF Chain, IsChain, ChainFields

----------------------------------------------------------------------------
(* One chain at a time, and what it is about is what the form shows.       *)

LEMMA Goes ==
  ASSUME Tidy, NEW s \in Pending, Pending' = Pending, UNCHANGED boot,
         OnItsWay(chain[s])', ~loading' => skipped'
  PROVE  Tidy'
BY DEF Tidy, Booted

LEMMA Stops ==
  ASSUME Tidy, NEW s \in Pending, Pending' = Pending \ {s}, UNCHANGED boot, Settled'
  PROVE  Tidy'
<1>1. Booted /\ Booted' /\ Pending' = {}
  BY DEF Tidy, Booted
<1>2. QED
  BY <1>1 DEF Tidy

LEMMA Begins ==
  ASSUME Booted, UNCHANGED boot, NEW s \in Slots, Pending' = {s}, OnItsWay(chain[s])', loading'
  PROVE  Tidy'
<1>1. Booted'
  BY DEF Booted
<1>2. QED
  BY <1>1 DEF Tidy

LEMMA SamePage ==
  ASSUME PageInv, UNCHANGED <<boot, chain, locationId, enter, leave, data, mapData, skipped,
                              overlapped, failed, loading>>
  PROVE  PageInv'
<1>1. Pending' = Pending /\ Booted' = Booted /\ Smooth' = Smooth /\ Settled' = Settled
  BY DEF Pending, Free, Booted, Smooth, Settled, ListIsForDates
<1>2. \A s \in Pending : OnItsWay(chain[s])' <=> OnItsWay(chain[s])
  BY <1>1 DEF OnItsWay, ListIsForDates
<1>3. Chains' /\ DOMAIN boot' = Lists
  BY DEF PageInv, Chains
<1>4. Tidy' <=> Tidy
  BY <1>1, <1>2 DEF Tidy
<1>5. QED
  BY <1>1, <1>3, <1>4 DEF PageInv

LEMMA PageListAnswered ==
  ASSUME PageInv, NEW l \in Lists, ListAnswered(l)
  PROVE  PageInv'
<1>1. /\ boot[l] = "pending" /\ boot' = [boot EXCEPT ![l] = "done"]
      /\ UNCHANGED <<data, mapData, skipped, failed>>
  BY DEF ListAnswered, offer
<1>2. DOMAIN boot' = Lists /\ ~Booted
  BY <1>1 DEF PageInv, Booted
<1>3. Chains
  BY DEF PageInv
<1>4. CASE \A other \in Lists \ {l} : boot[other] = "done"
  <2>1. Started /\ Booted'
    BY <1>1, <1>2, <1>4 DEF ListAnswered, Booted
  <2>2. CASE /\ locationId = NoArea /\ locations' # {} /\ locationId' # NoArea
    <3> DEFINE c == Chain("loadItems", "attributes", locationId', locationId')
    <3>1. Launch(c) /\ overlapped' = (overlapped \/ Pending # {}) /\ UNCHANGED loading
      BY <2>1, <2>2 DEF Started
    <3>2. IsChain(c) /\ c.of = "loadItems" /\ c.at = "attributes"
      BY SomeChain
    <3> HIDE DEF c
    <3>3. Chains' /\ \E s \in Slots \ Pending : chain'[s] = c /\ Pending' = Pending \cup {s}
      BY <1>3, <3>1, <3>2, Launched
    <3>4. ASSUME Smooth' PROVE Tidy'
      <4>1. Smooth /\ Pending = {}
        BY <1>1, <3>1, <3>4 DEF Smooth
      <4>2. Tidy
        BY <4>1 DEF PageInv
      <4>3. PICK s \in Slots : Pending' = {s} /\ chain'[s] = c
        BY <3>3, <4>1
      <4>4. OnItsWay(chain[s])'
        BY <3>2, <4>3 DEF OnItsWay
      <4>5. ~loading' => skipped'
        BY <1>1, <1>2, <3>1, <4>2 DEF Tidy
      <4>6. QED
        BY <2>1, <4>3, <4>4, <4>5 DEF Tidy
    <3>5. QED
      BY <1>2, <3>3, <3>4 DEF PageInv
  <2>3. CASE ~(locationId = NoArea /\ locations' # {} /\ locationId' # NoArea)
    <3>1. UNCHANGED <<chain, overlapped>> /\ (locationId = NoArea => locationId' = NoArea)
      BY <2>1, <2>3 DEF Started
    <3>2. Chains' /\ Pending' = Pending
      BY <1>3, <3>1 DEF Chains, Pending, Free
    <3>3. ASSUME Smooth' PROVE Tidy'
      <4>1. Tidy
        BY <1>1, <3>1, <3>3 DEF Smooth, PageInv
      <4>2. Pending' = {} /\ locationId' = NoArea
        BY <1>2, <3>1, <3>2, <4>1 DEF Tidy
      <4>3. QED
        BY <2>1, <4>2 DEF Tidy, Settled
    <3>4. QED
      BY <1>2, <3>2, <3>3 DEF PageInv
  <2>4. QED
    BY <2>2, <2>3
<1>5. CASE ~(\A other \in Lists \ {l} : boot[other] = "done")
  <2>1. /\ UNCHANGED <<locationId, loading, chain, overlapped>>
    BY <1>5 DEF ListAnswered
  <2>2. ~Booted'
    BY <1>1, <1>2, <1>5 DEF Booted, PageInv
  <2>3. Chains' /\ Pending' = Pending
    BY <1>3, <2>1 DEF Chains, Pending, Free
  <2>4. ASSUME Smooth' PROVE Tidy'
    <3>1. Tidy
      BY <1>1, <2>1, <2>4 DEF Smooth, PageInv
    <3>2. QED
      BY <1>1, <1>2, <2>1, <2>2, <2>3, <3>1 DEF Tidy
  <2>5. QED
    BY <1>2, <2>3, <2>4 DEF PageInv
<1>6. QED
  BY <1>4, <1>5

LEMMA PageListFailed ==
  ASSUME PageInv, NEW l \in Lists, ListFailed(l)
  PROVE  PageInv' /\ ~Smooth'
<1>1. DOMAIN boot' = Lists /\ UNCHANGED chain /\ failed' = TRUE
  BY DEF ListFailed, PageInv
<1>2. QED
  BY <1>1 DEF PageInv, Chains, Smooth

\* What an answer that ends or continues its chain needs to show.
LEMMA AnswerIsTidy ==
  ASSUME PageInv, NEW s \in Pending, UNCHANGED <<boot, overlapped, failed>>, Chains',
         Pending' = Pending \/ Pending' = Pending \ {s},
         Tidy /\ Pending' = Pending => OnItsWay(chain[s])' /\ (~loading' => skipped'),
         Tidy /\ Pending' # Pending => Settled'
  PROVE  PageInv'
<1>1. DOMAIN boot' = Lists /\ Smooth' = Smooth
  BY DEF PageInv, Smooth
<1>2. ASSUME Smooth' PROVE Tidy'
  <2>1. Tidy
    BY <1>1, <1>2 DEF PageInv
  <2>2. CASE Pending' = Pending
    BY <2>1, <2>2, Goes
  <2>3. CASE Pending' = Pending \ {s} /\ Pending' # Pending
    BY <2>1, <2>3, Stops
  <2>4. QED
    BY <2>2, <2>3
<1>3. QED
  BY <1>1, <1>2 DEF PageInv

LEMMA PageAttributesAnswered ==
  ASSUME PageInv, NEW s \in Slots, AttributesAnswered(s)
  PROVE  PageInv'
<1>1. /\ chain[s].of # "none" /\ chain[s].at = "attributes"
      /\ UNCHANGED <<boot, locationId, enter, leave, data, mapData, skipped, overlapped, failed>>
  BY DEF AttributesAnswered, chainless, dates, offer
<1>2. s \in Pending /\ IsChain(chain[s]) /\ Chains
  BY <1>1, Busy DEF PageInv
<1>3. Tidy => OnItsWay(chain[s])
  BY <1>2 DEF Tidy
<1>4. CASE chain[s].of = "applySearch"
  <2>1. Chains' /\ Pending' = Pending \ {s}
    BY <1>2, <1>4, Ended DEF AttributesAnswered
  <2>2. Tidy => Settled'
    BY <1>1, <1>3, <1>4 DEF OnItsWay, Settled, ListIsForDates
  <2>3. QED
    BY <1>1, <1>2, <2>1, <2>2, AnswerIsTidy
<1>5. CASE chain[s].of # "applySearch"
  <2> DEFINE area == IF chain[s].of = "loadItems" THEN locationId ELSE chain[s].area
             c == [chain[s] EXCEPT !.at = "location", !.area = area]
  <2>1. chain' = [chain EXCEPT ![s] = c] /\ loading' = TRUE
    BY <1>5 DEF AttributesAnswered
  <2>2. IsChain(c) /\ c.of = chain[s].of /\ c.at = "location" /\ c.area = area
    BY <1>2 DEF IsChain, ChainFields
  <2> HIDE DEF c
  <2>3. Chains' /\ Pending' = Pending /\ chain'[s] = c
    BY <1>2, <2>1, <2>2, Changed
  <2>4. Tidy => area = locationId
    BY <1>1, <1>3, <1>5 DEF OnItsWay
  <2>5. Tidy => OnItsWay(chain[s])'
    BY <1>1, <1>3, <2>2, <2>3, <2>4 DEF OnItsWay
  <2>6. QED
    BY <1>1, <1>2, <2>1, <2>3, <2>5, AnswerIsTidy
<1>6. QED
  BY <1>4, <1>5

LEMMA PageLocationAnswered ==
  ASSUME PageInv, NEW s \in Slots, LocationAnswered(s)
  PROVE  PageInv'
<1>1. /\ chain[s].of # "none" /\ chain[s].at = "location" /\ loading' = TRUE
      /\ UNCHANGED <<boot, locationId, enter, leave, data, mapData, overlapped, failed>>
  BY DEF LocationAnswered, chainless, dates, offer
<1>2. s \in Pending /\ IsChain(chain[s]) /\ Chains
  BY <1>1, Busy DEF PageInv
<1>3. Tidy => OnItsWay(chain[s])
  BY <1>2 DEF Tidy
<1> DEFINE c == [chain[s] EXCEPT !.at = "spaces", !.enter = enter, !.leave = leave]
<1>4. chain' = [chain EXCEPT ![s] = c]
  BY DEF LocationAnswered
<1>5. /\ IsChain(c) /\ c.of = chain[s].of /\ c.at = "spaces" /\ c.area = chain[s].area
      /\ c.enter = enter /\ c.leave = leave
  BY <1>2 DEF IsChain, ChainFields
<1> HIDE DEF c
<1>6. Chains' /\ Pending' = Pending /\ chain'[s] = c
  BY <1>2, <1>4, <1>5, Changed
<1>7. Tidy => OnItsWay(chain[s])'
  BY <1>1, <1>3, <1>5, <1>6 DEF OnItsWay
<1>8. QED
  BY <1>1, <1>2, <1>6, <1>7, AnswerIsTidy

LEMMA PageSpacesAnswered ==
  ASSUME PageInv, NEW s \in Slots, SpacesAnswered(s)
  PROVE  PageInv'
<1>1. /\ chain[s].of # "none" /\ chain[s].at = "spaces"
      /\ UNCHANGED <<boot, locationId, enter, leave, mapData, skipped, overlapped, failed>>
  BY DEF SpacesAnswered, chainless, dates
<1>2. s \in Pending /\ IsChain(chain[s]) /\ Chains
  BY <1>1, Busy DEF PageInv
<1>3. Tidy => OnItsWay(chain[s])
  BY <1>2 DEF Tidy
<1>4. data'.area = chain[s].area /\ data'.enter = chain[s].enter /\ data'.leave = chain[s].leave
  BY DEF SpacesAnswered
<1>5. Tidy => data'.area = locationId' /\ ListIsForDates'
  BY <1>1, <1>3, <1>4 DEF OnItsWay, ListIsForDates
<1>6. CASE chain[s].of = "dates"
  <2>1. Chains' /\ Pending' = Pending \ {s}
    BY <1>2, <1>6, Ended DEF SpacesAnswered
  <2>2. Tidy => Settled'
    BY <1>1, <1>3, <1>5, <1>6 DEF OnItsWay, Settled
  <2>3. QED
    BY <1>1, <1>2, <2>1, <2>2, AnswerIsTidy
<1>7. CASE chain[s].of # "dates"
  <2>1. Continue(s, "map") /\ UNCHANGED loading
    BY <1>7 DEF SpacesAnswered
  <2>2. /\ Chains' /\ Pending' = Pending
        /\ chain'[s].of = chain[s].of /\ chain'[s].at = "map" /\ chain'[s].area = chain[s].area
    BY <1>2, <2>1, Continued
  <2>3. Tidy => OnItsWay(chain[s])'
    BY <1>1, <1>3, <1>5, <1>7, <2>2 DEF OnItsWay
  <2>4. Tidy => (~loading' => skipped')
    BY <1>1, <1>2, <2>1 DEF Tidy
  <2>5. QED
    BY <1>1, <1>2, <2>2, <2>3, <2>4, AnswerIsTidy
<1>8. QED
  BY <1>6, <1>7

LEMMA PageMapAnswered ==
  ASSUME PageInv, NEW s \in Slots, MapAnswered(s)
  PROVE  PageInv'
<1>1. /\ chain[s].of # "none" /\ chain[s].at = "map" /\ mapData' = chain[s].area
      /\ UNCHANGED <<boot, locationId, enter, leave, data, skipped, overlapped, failed>>
  BY DEF MapAnswered, chainless, dates
<1>2. s \in Pending /\ IsChain(chain[s]) /\ Chains
  BY <1>1, Busy DEF PageInv
<1>3. Tidy => OnItsWay(chain[s])
  BY <1>2 DEF Tidy
<1>4. Tidy => Settled'
  BY <1>1, <1>3 DEF OnItsWay, Settled, ListIsForDates
<1>5. EndOf(s) \/ (chain[s].of = "applySearch" /\ Continue(s, "attributes") /\ UNCHANGED loading)
  BY DEF MapAnswered
<1>6. CASE EndOf(s)
  <2>1. Chains' /\ Pending' = Pending \ {s}
    BY <1>2, <1>6, Ended
  <2>2. QED
    BY <1>1, <1>2, <1>4, <2>1, AnswerIsTidy
<1>7. CASE chain[s].of = "applySearch" /\ Continue(s, "attributes") /\ UNCHANGED loading
  <2>1. /\ Chains' /\ Pending' = Pending
        /\ chain'[s].of = "applySearch" /\ chain'[s].at = "attributes"
    BY <1>2, <1>7, Continued
  <2>2. Tidy => OnItsWay(chain[s])'
    BY <1>4, <2>1 DEF OnItsWay
  <2>3. Tidy => (~loading' => skipped')
    BY <1>1, <1>2, <1>7 DEF Tidy
  <2>4. QED
    BY <1>1, <1>2, <2>1, <2>2, <2>3, AnswerIsTidy
<1>8. QED
  BY <1>5, <1>6, <1>7

LEMMA PageSearchAnswered ==
  ASSUME PageInv, NEW s \in Slots, SearchAnswered(s)
  PROVE  PageInv'
<1>1. /\ chain[s].of # "none" /\ chain[s].at = "search"
      /\ UNCHANGED <<boot, enter, leave, data, mapData, skipped, overlapped, failed>>
  BY DEF SearchAnswered, dates, offer, excuses
<1>2. s \in Pending /\ IsChain(chain[s]) /\ Chains
  BY <1>1, Busy DEF PageInv
<1>3. CASE locationId' = NoArea
  <2>1. Chains' /\ Pending' = Pending \ {s}
    BY <1>2, <1>3, Ended DEF SearchAnswered
  <2>2. Settled'
    BY <1>3 DEF Settled
  <2>3. QED
    BY <1>1, <1>2, <2>1, <2>2, AnswerIsTidy
<1>4. CASE locationId' # NoArea
  <2> DEFINE c == [chain[s] EXCEPT !.at = "location", !.area = locationId']
  <2>1. chain' = [chain EXCEPT ![s] = c] /\ loading' = TRUE
    BY <1>4 DEF SearchAnswered
  <2>2. IsChain(c) /\ c.of = chain[s].of /\ c.at = "location" /\ c.area = locationId'
    BY <1>2 DEF IsChain, ChainFields
  <2> HIDE DEF c
  <2>3. Chains' /\ Pending' = Pending /\ chain'[s] = c
    BY <1>2, <2>1, <2>2, Changed
  <2>4. Tidy => chain[s].of = "applySearch"
    BY <1>1, <1>2 DEF Tidy, OnItsWay
  <2>5. Tidy => OnItsWay(chain[s])'
    BY <2>2, <2>3, <2>4 DEF OnItsWay
  <2>6. QED
    BY <1>1, <1>2, <2>1, <2>3, <2>5, AnswerIsTidy
<1>5. QED
  BY <1>3, <1>4

LEMMA PageBuddyAnswered ==
  ASSUME PageInv, NEW s \in Slots, BuddySaved(s) \/ BuddiesReloaded(s) \/ BuddyNotSaved(s)
  PROVE  PageInv'
<1>1. /\ chain[s].of # "none" /\ chain[s].at \in {"buddy", "buddies"}
      /\ UNCHANGED <<boot, locationId, enter, leave, data, mapData, skipped, overlapped, failed>>
  <2>1. CASE BuddySaved(s)
    BY <2>1 DEF BuddySaved, chainless, dates, offer
  <2>2. CASE BuddiesReloaded(s)
    BY <2>2 DEF BuddiesReloaded, chainless, dates, offer
  <2>3. CASE BuddyNotSaved(s)
    BY <2>3 DEF BuddyNotSaved, chainless, dates, offer
  <2>4. QED
    BY <2>1, <2>2, <2>3
<1>2. s \in Pending /\ IsChain(chain[s]) /\ Chains
  BY <1>1, Busy DEF PageInv
<1>3. Tidy => OnItsWay(chain[s])
  BY <1>2 DEF Tidy
<1>4. Tidy => Settled /\ Settled'
  BY <1>1, <1>3 DEF OnItsWay, Settled, ListIsForDates
<1>5. CASE BuddySaved(s)
  <2>1. Continue(s, "buddies") /\ UNCHANGED loading /\ chain[s].at = "buddy"
    BY <1>5 DEF BuddySaved
  <2>2. Chains' /\ Pending' = Pending /\ chain'[s].of = chain[s].of /\ chain'[s].at = "buddies"
    BY <1>2, <2>1, Continued
  <2>3. Tidy => OnItsWay(chain[s])'
    BY <1>3, <1>4, <2>1, <2>2 DEF OnItsWay
  <2>4. Tidy => (~loading' => skipped')
    BY <1>1, <1>2, <2>1 DEF Tidy
  <2>5. QED
    BY <1>1, <1>2, <2>2, <2>3, <2>4, AnswerIsTidy
<1>6. CASE BuddiesReloaded(s) \/ BuddyNotSaved(s)
  <2>1. EndOf(s)
    BY <1>6 DEF BuddiesReloaded, BuddyNotSaved
  <2>2. Chains' /\ Pending' = Pending \ {s}
    BY <1>2, <2>1, Ended
  <2>3. QED
    BY <1>1, <1>2, <1>4, <2>2, AnswerIsTidy
<1>7. QED
  BY <1>5, <1>6

LEMMA PageChainFailed ==
  ASSUME PageInv, NEW s \in Slots, ChainFailed(s)
  PROVE  PageInv' /\ ~Smooth'
<1>1. s \in Pending /\ Chains
  BY Busy DEF PageInv, ChainFailed
<1>2. Chains' /\ UNCHANGED boot /\ failed' = TRUE
  BY <1>1, Ended DEF ChainFailed, chainless
<1>3. QED
  BY <1>2 DEF PageInv, Smooth

\* The user starts a chain, about the area the form shows then.
LEMMA PageChainStarted ==
  ASSUME PageInv, NEW c, IsChain(c), Start(c), loading',
         UNCHANGED <<boot, enter, leave, data, mapData, skipped, failed>>,
         \/ /\ c.of = "changeLocation" /\ c.at = "attributes" /\ c.area = locationId'
         \/ c.of = "applySearch" /\ c.at = "search"
         \/ c.of = "onAddBuddy" /\ c.at = "buddy" /\ UNCHANGED locationId
         \/ c.of = "refreshPage" /\ c.at = "location" /\ c.area = locationId'
  PROVE  PageInv'
<1>1. Chains
  BY DEF PageInv
<1>2. /\ Chains'
      /\ ~overlapped' =>
           /\ ~overlapped /\ Pending = {} /\ Booted
           /\ \E s \in Slots : Pending' = {s} /\ chain'[s] = c
  BY <1>1, StartsAlone
<1>3. ASSUME Smooth' PROVE Tidy'
  <2>1. Smooth /\ Pending = {} /\ Booted
    BY <1>2, <1>3 DEF Smooth
  <2>2. Settled
    BY <2>1 DEF PageInv, Tidy
  <2>3. PICK s \in Slots : Pending' = {s} /\ chain'[s] = c
    BY <1>2, <1>3 DEF Smooth
  <2>4. UNCHANGED locationId => Settled'
    BY <2>2 DEF Settled, ListIsForDates
  <2>5. OnItsWay(chain[s])'
    BY <2>3, <2>4 DEF OnItsWay
  <2>6. QED
    BY <2>1, <2>3, <2>5, Begins
<1>4. QED
  BY <1>2, <1>3 DEF PageInv

LEMMA PageDatesChanged ==
  ASSUME PageInv, DatesChanged
  PROVE  PageInv'
<1>1. UNCHANGED <<boot, locationId, data, mapData, failed>>
  BY DEF DatesChanged, offer
<1>2. Chains /\ DOMAIN boot' = Lists
  BY <1>1 DEF PageInv
<1>3. CASE canSearch'
  <2> DEFINE c == [Chain("dates", "spaces", locationId, NoArea)
                     EXCEPT !.enter = enter', !.leave = leave']
  <2>1. Start(c) /\ loading' = TRUE
    BY <1>3 DEF DatesChanged
  <2>2. /\ IsChain(c) /\ c.of = "dates" /\ c.at = "spaces" /\ c.area = locationId
        /\ c.enter = enter' /\ c.leave = leave'
    BY DEF Chain, IsChain, ChainFields
  <2> HIDE DEF c
  <2>3. /\ Chains'
        /\ ~overlapped' =>
             /\ ~overlapped /\ Pending = {} /\ Booted
             /\ \E s \in Slots : Pending' = {s} /\ chain'[s] = c
    BY <1>2, <2>1, <2>2, StartsAlone
  <2>4. locationId # NoArea
    BY <1>3 DEF DatesChanged, updateCanSearch
  <2>5. ASSUME Smooth' PROVE Tidy'
    <3>1. Smooth /\ Pending = {} /\ Booted
      BY <1>1, <2>3, <2>5 DEF Smooth
    <3>2. mapData = locationId
      BY <2>4, <3>1 DEF PageInv, Tidy, Settled
    <3>3. PICK s \in Slots : Pending' = {s} /\ chain'[s] = c
      BY <2>3, <2>5 DEF Smooth
    <3>4. OnItsWay(chain[s])'
      BY <1>1, <2>2, <3>2, <3>3 DEF OnItsWay
    <3>5. QED
      BY <1>1, <2>1, <3>1, <3>3, <3>4, Begins
  <2>6. QED
    BY <1>2, <2>3, <2>5 DEF PageInv
<1>4. CASE ~canSearch'
  <2>1. loading' = FALSE /\ skipped' = TRUE /\ UNCHANGED <<chain, overlapped>>
    BY <1>4 DEF DatesChanged
  <2>2. Chains' /\ Pending' = Pending /\ Booted' = Booted /\ Smooth' = Smooth
    BY <1>1, <1>2, <2>1 DEF Chains, Pending, Free, Booted, Smooth
  <2>3. Settled => Settled'
    BY <1>1, <2>1 DEF Settled, ListIsForDates
  <2>4. ASSUME Tidy, NEW s \in Pending PROVE OnItsWay(chain[s])'
    <3>1. OnItsWay(chain[s])
      BY <2>4 DEF Tidy
    <3>2. QED
      BY <1>1, <2>1, <2>3, <3>1 DEF OnItsWay, ListIsForDates
  <2>5. Tidy => Tidy'
    BY <1>1, <2>1, <2>2, <2>3, <2>4 DEF Tidy
  <2>6. QED
    BY <1>2, <2>2, <2>5 DEF PageInv
<1>5. QED
  BY <1>3, <1>4

LEMMA PageAnswered ==
  ASSUME PageInv, NEW s \in Slots, Answered(s)
  PROVE  PageInv'
BY PageAttributesAnswered, PageLocationAnswered, PageSpacesAnswered, PageMapAnswered,
   PageSearchAnswered, PageBuddyAnswered, PageChainFailed DEF Answered

LEMMA StepPage ==
  ASSUME PageInv, [Next]_vars
  PROVE  PageInv'
<1> USE DEF excuses, offer, dates, inputless, quiet, search, toggles
<1>1. ASSUME NEW l \in Lists, ListAnswered(l) \/ ListFailed(l) PROVE PageInv'
  BY <1>1, PageListAnswered, PageListFailed
<1>2. ASSUME NEW s \in Slots, Answered(s) PROVE PageInv'
  BY <1>2, PageAnswered
<1>3. CASE EnterChanged \/ LeaveChanged
  BY <1>3, PageDatesChanged DEF EnterChanged, LeaveChanged
<1>4. CASE UntilChanged \/ CountAnswered \/ CountFailed
  BY <1>4, SamePage DEF UntilChanged, CountAnswered, CountFailed
<1>5. ASSUME NEW d, BookingSaved(d) PROVE PageInv'
  BY <1>5, SamePage DEF BookingSaved
<1>6. ASSUME NEW id \in Areas, changeLocation(id) PROVE PageInv'
  <2>1. Start(Chain("changeLocation", "attributes", id, id)) /\ locationId' = id /\ loading'
    BY <1>6 DEF changeLocation
  <2>2. QED
    BY <1>6, <2>1, SomeChain, PageChainStarted DEF changeLocation
<1>7. ASSUME NEW f \in DateFields, NEW t \in Picks, PickDate(f, t) PROVE PageInv'
  BY <1>7, SamePage DEF PickDate
<1>8. ASSUME NEW value, changeEnterDay(value) PROVE PageInv'
  BY <1>8, SamePage DEF changeEnterDay
<1>9. CASE toggleWeeklyReservation \/ EditFilter
  BY <1>9, SamePage DEF toggleWeeklyReservation, EditFilter
<1>10. ASSUME NEW d, OpenDialog(d) \/ HideDialog(d) PROVE PageInv'
  BY <1>10, SamePage DEF OpenDialog, HideDialog
<1>11. ASSUME NEW reset \in BOOLEAN, applySearch(reset) PROVE PageInv'
  <2>1. Start(Chain("applySearch", "search", NoArea, NoArea)) /\ loading'
    BY <1>11 DEF applySearch
  <2>2. QED
    BY <1>11, <2>1, SomeChain, PageChainStarted DEF applySearch
<1>12. ASSUME NEW s \in Spaces, onSpaceSelect(s) PROVE PageInv'
  BY <1>12, SamePage DEF onSpaceSelect
<1>13. CASE onConfirmBooking
  BY <1>13, SamePage DEF onConfirmBooking
<1>14. CASE onAddBuddy
  <2>1. Start(Chain("onAddBuddy", "buddy", NoArea, NoArea)) /\ loading'
    BY <1>14 DEF onAddBuddy
  <2>2. QED
    BY <1>14, <2>1, SomeChain, PageChainStarted DEF onAddBuddy
<1>15. CASE refreshPage
  <2>1. Start(Chain("refreshPage", "location", locationId, NoArea)) /\ loading'
    BY <1>15 DEF refreshPage
  <2>2. QED
    BY <1>15, <2>1, SomeChain, PageChainStarted DEF refreshPage
<1>16. CASE UNCHANGED vars
  BY <1>16, SamePage DEF vars
<1>17. QED
  BY <1>1, <1>2, <1>3, <1>4, <1>5, <1>6, <1>7, <1>8, <1>9, <1>10, <1>11, <1>12, <1>13, <1>14,
     <1>15, <1>16 DEF Next, Browser, User

LEMMA InitPage ==
  ASSUME Init
  PROVE  PageInv
<1>1. Chains /\ Pending = {} /\ ~Booted /\ DOMAIN boot = Lists
  BY DEF Init, Chains, Pending, Free, Booted, Lists
<1>2. QED
  BY <1>1 DEF Init, PageInv, Tidy

LEMMA PageInvariant == Spec => []PageInv
BY InitPage, StepPage, PTL DEF Spec

\* Once no request and no timer is pending, the spaces and the map on the page
\* are those of the area and the times its form shows: unless two loads have
\* overlapped, one has failed, or the dates allow no search.
THEOREM SettledPageIsConsistentAlways == Spec => []SettledPageIsConsistent
<1>1. ASSUME PageInv PROVE SettledPageIsConsistent
  <2>1. SUFFICES ASSUME Quiet, locationId # NoArea, ~overlapped, ~skipped, ~failed
                 PROVE  /\ mapData = locationId /\ data.area = locationId
                        /\ data.enter = enter /\ data.leave = leave
    BY DEF SettledPageIsConsistent
  <2>2. Settled
    BY <1>1, <2>1 DEF Quiet, PageInv, Smooth, Tidy
  <2>3. QED
    BY <2>1, <2>2 DEF Settled, ListIsForDates
<1>2. QED
  BY <1>1, PageInvariant, PTL

----------------------------------------------------------------------------
(* What is confirmed is what was offered.                                  *)

LEMMA SameDialog ==
  ASSUME Asked, UNCHANGED <<boot, chain, locationId, enter, leave, data, skipped, modals, front,
                            selectedSpace, moved>>
  PROVE  Asked'
<1>1. Pending' = Pending /\ Booted' = Booted /\ ItemOffered' = ItemOffered
  BY DEF Pending, Free, Booted, ItemOffered
<1>2. \A s \in Pending : Loading(chain[s])' <=> Loading(chain[s])
  BY DEF Loading
<1>3. QED
  BY <1>1, <1>2 DEF Asked

LEMMA AskedListAnswered ==
  ASSUME PageInv, DialogInv, NEW l \in Lists, ListAnswered(l), Smooth'
  PROVE  Asked'
<1>1. /\ boot[l] = "pending" /\ boot' = [boot EXCEPT ![l] = "done"]
      /\ UNCHANGED <<data, modals, front, skipped, moved, selectedSpace, failed>>
  BY DEF ListAnswered, offer, dialog
<1>2. ~Booted
  BY <1>1 DEF Booted
<1>3. /\ ~overlapped' => ~overlapped
      /\ UNCHANGED chain \/ Launch(Chain("loadItems", "attributes", locationId', locationId'))
  <2>1. Started \/ UNCHANGED <<chain, overlapped>>
    BY DEF ListAnswered
  <2>2. CASE Started /\ locationId = NoArea /\ locations' # {} /\ locationId' # NoArea
    BY <2>2 DEF Started
  <2>3. CASE Started /\ ~(locationId = NoArea /\ locations' # {} /\ locationId' # NoArea)
    BY <2>3 DEF Started
  <2>4. QED
    BY <2>1, <2>2, <2>3
<1>4. Smooth
  BY <1>1, <1>3 DEF Smooth
<1>5. Tidy /\ Asked /\ Chains
  BY <1>4 DEF PageInv, DialogInv
<1>6. Pending = {} /\ "confirm" \notin modals /\ data.area = NoArea
  BY <1>2, <1>5 DEF Tidy, Asked
<1>7. \A s \in Pending' : Loading(chain[s])'
  <2>1. CASE UNCHANGED chain
    BY <1>6, <2>1 DEF Pending, Free
  <2>2. CASE Launch(Chain("loadItems", "attributes", locationId', locationId'))
    <3> DEFINE c == Chain("loadItems", "attributes", locationId', locationId')
    <3>1. IsChain(c) /\ c.at = "attributes" /\ Launch(c)
      BY <2>2, SomeChain
    <3> HIDE DEF c
    <3>2. PICK s : chain'[s] = c /\ Pending' = {s}
      BY <1>5, <1>6, <3>1, Launched
    <3>3. QED
      BY <1>1, <1>6, <3>1, <3>2 DEF Loading
  <2>3. QED
    BY <1>3, <2>1, <2>2
<1>8. QED
  BY <1>1, <1>5, <1>6, <1>7 DEF Asked

\* An answer that does not touch the dialogs, and what it leaves of its chain.
LEMMA AnswerIsAsked ==
  ASSUME Tidy, Asked, NEW s \in Pending, Pending' = Pending \/ Pending' = Pending \ {s},
         UNCHANGED <<boot, modals, front, moved, selectedSpace, enter, leave>>,
         Pending' = Pending => chain'[s].of = chain[s].of /\ Loading(chain[s])',
         UNCHANGED locationId \/ chain[s].of = "applySearch"
  PROVE  Asked'
<1>1. Pending = {s} /\ Booted /\ Booted'
  BY DEF Tidy, Booted
<1>2. \A r \in Pending' : Loading(chain[r])' /\ chain'[r].of = chain[r].of
  BY <1>1
<1>3. "confirm" \in modals /\ ~moved =>
        ItemOffered' /\ \A r \in Pending' : chain'[r].of # "applySearch"
  BY <1>1, <1>2 DEF Asked, ItemOffered
<1>4. QED
  BY <1>1, <1>2, <1>3 DEF Asked

LEMMA SelectedIsAsked ==
  ASSUME NEW s, Selected(s), Booted', UNCHANGED <<data, locationId, enter, leave>>,
         ~({"search", "confirm"} \subseteq modals),
         "confirm" \in modals => skipped,
         \A r \in Pending' : Loading(chain[r])',
         ~skipped => /\ Pending' = {} /\ AreaOf[s] = locationId
                     /\ data.enter = enter /\ data.leave = leave
  PROVE  Asked'
<1> DEFINE d == IF s \in data.free THEN "confirm" ELSE "names"
<1>1. /\ modals' = modals \cup {d} /\ front' = IF d \in modals THEN front ELSE d
      /\ moved' = skipped /\ selectedSpace' = [space |-> s, from |-> data]
  BY DEF Selected, Show
<1>2. {"search", "confirm"} \subseteq modals' => front' \in modals' /\ front' = "confirm"
  BY <1>1
<1>3. ASSUME "confirm" \in modals', ~moved' PROVE ItemOffered' /\ Pending' = {}
  <2>1. ~skipped
    BY <1>1, <1>3
  <2>2. s \in data.free
    BY <1>1, <1>3, <2>1
  <2>3. QED
    BY <1>1, <2>1, <2>2 DEF ItemOffered
<1>4. QED
  BY <1>2, <1>3 DEF Asked

LEMMA AskedMapAnswered ==
  ASSUME PageInv, Tidy, Asked, NEW s \in Slots, MapAnswered(s)
  PROVE  Asked'
<1>1. /\ chain[s].of # "none" /\ chain[s].at = "map"
      /\ UNCHANGED <<boot, locationId, enter, leave, data, skipped>>
  BY DEF MapAnswered, chainless, dates
<1>2. s \in Pending /\ IsChain(chain[s]) /\ Chains
  BY <1>1, Busy DEF PageInv
<1>3. OnItsWay(chain[s]) /\ Loading(chain[s]) /\ Booted'
  BY <1>1, <1>2 DEF Tidy, Asked, Booted
<1>4. CASE chain[s].of = "loadItems" /\ LinkedSpace \in In(data)
  <2>1. Selected(LinkedSpace) /\ EndOf(s)
    BY <1>4 DEF MapAnswered
  <2>2. Pending' = {}
    BY <1>2, <2>1, Ended DEF Tidy
  <2>3. AreaOf[LinkedSpace] = locationId
    BY <1>1, <1>3, <1>4 DEF In, OnItsWay
  <2>4. ~skipped => data.enter = enter /\ data.leave = leave
    BY <1>1, <1>3 DEF OnItsWay, ListIsForDates
  <2>5. ~({"search", "confirm"} \subseteq modals) /\ ("confirm" \in modals => skipped)
    BY <1>3, <1>4 DEF Loading
  <2>6. QED
    BY <1>1, <1>3, <2>1, <2>2, <2>3, <2>4, <2>5, SelectedIsAsked
<1>5. CASE ~(chain[s].of = "loadItems" /\ LinkedSpace \in In(data))
  <2>1. UNCHANGED <<modals, front, selectedSpace, moved>>
    BY <1>5 DEF MapAnswered
  <2>2. EndOf(s) \/ (chain[s].of = "applySearch" /\ Continue(s, "attributes"))
    BY DEF MapAnswered
  <2>3. CASE EndOf(s)
    <3>1. Pending' = Pending \ {s} /\ Pending' # Pending
      BY <1>2, <2>3, Ended
    <3>2. QED
      BY <1>1, <1>2, <2>1, <3>1, AnswerIsAsked
  <2>4. CASE chain[s].of = "applySearch" /\ Continue(s, "attributes")
    <3>1. Pending' = Pending /\ chain'[s].of = chain[s].of
      BY <1>2, <2>4, Continued
    <3>2. Loading(chain[s])'
      BY <2>4, <3>1 DEF Loading
    <3>3. QED
      BY <1>1, <1>2, <2>1, <3>1, <3>2, AnswerIsAsked
  <2>5. QED
    BY <2>2, <2>3, <2>4
<1>6. QED
  BY <1>4, <1>5

LEMMA AskedAnswered ==
  ASSUME PageInv, DialogInv, NEW s \in Slots, Answered(s), Smooth'
  PROVE  Asked'
<1> USE DEF chainless, dates, offer, dialog, excuses
<1>1. chain[s].of # "none" /\ UNCHANGED <<boot, enter, leave, overlapped>>
  BY DEF Answered, AttributesAnswered, LocationAnswered, SpacesAnswered, MapAnswered,
         SearchAnswered, BuddySaved, BuddiesReloaded, BuddyNotSaved, ChainFailed
<1>2. s \in Pending /\ IsChain(chain[s]) /\ Chains
  BY <1>1, Busy DEF PageInv
<1>3. ~ChainFailed(s)
  BY PageChainFailed
<1>4. UNCHANGED failed
  BY <1>3 DEF Answered, AttributesAnswered, LocationAnswered, SpacesAnswered, MapAnswered,
              SearchAnswered, BuddySaved, BuddiesReloaded, BuddyNotSaved
<1>5. Tidy /\ Asked
  BY <1>1, <1>4 DEF Smooth, PageInv, DialogInv
<1>6. OnItsWay(chain[s]) /\ Loading(chain[s])
  BY <1>2, <1>5 DEF Tidy, Asked
<1>7. CASE AttributesAnswered(s)
  <2>1. UNCHANGED <<locationId, data, modals, front, moved, selectedSpace, skipped>>
    BY <1>7 DEF AttributesAnswered
  <2>2. CASE chain[s].of = "applySearch"
    <3>1. Pending' = Pending \ {s} /\ Pending' # Pending
      BY <1>2, <1>7, <2>2, Ended DEF AttributesAnswered
    <3>2. QED
      BY <1>1, <1>2, <1>5, <2>1, <3>1, AnswerIsAsked
  <2>3. CASE chain[s].of # "applySearch"
    <3> DEFINE area == IF chain[s].of = "loadItems" THEN locationId ELSE chain[s].area
               c == [chain[s] EXCEPT !.at = "location", !.area = area]
    <3>1. chain' = [chain EXCEPT ![s] = c] /\ chain[s].at = "attributes"
      BY <1>7, <2>3 DEF AttributesAnswered
    <3>2. IsChain(c) /\ c.of = chain[s].of /\ c.at = "location"
      BY <1>2 DEF IsChain, ChainFields
    <3> HIDE DEF c
    <3>3. Pending' = Pending /\ chain'[s] = c
      BY <1>2, <3>1, <3>2, Changed
    <3>4. Loading(chain[s])'
      BY <1>6, <2>1, <3>1, <3>2, <3>3 DEF Loading
    <3>5. QED
      BY <1>1, <1>2, <1>5, <2>1, <3>2, <3>3, <3>4, AnswerIsAsked
  <2>4. QED
    BY <2>2, <2>3
<1>8. CASE LocationAnswered(s)
  <2> DEFINE c == [chain[s] EXCEPT !.at = "spaces", !.enter = enter, !.leave = leave]
  <2>1. /\ chain' = [chain EXCEPT ![s] = c] /\ chain[s].at = "location"
        /\ UNCHANGED <<locationId, data, modals, front, moved, selectedSpace>>
    BY <1>8 DEF LocationAnswered
  <2>2. IsChain(c) /\ c.of = chain[s].of /\ c.at = "spaces"
    BY <1>2 DEF IsChain, ChainFields
  <2> HIDE DEF c
  <2>3. Pending' = Pending /\ chain'[s] = c
    BY <1>2, <2>1, <2>2, Changed
  <2>4. Loading(chain[s])'
    BY <1>6, <2>1, <2>2, <2>3 DEF Loading
  <2>5. QED
    BY <1>1, <1>2, <1>5, <2>1, <2>2, <2>3, <2>4, AnswerIsAsked
<1>9. CASE SpacesAnswered(s)
  <2>1. chain[s].at = "spaces" /\ UNCHANGED <<locationId, modals, front, moved, selectedSpace>>
    BY <1>9 DEF SpacesAnswered
  <2>2. EndOf(s) \/ Continue(s, "map")
    BY <1>9 DEF SpacesAnswered
  <2>3. CASE EndOf(s)
    <3>1. Pending' = Pending \ {s} /\ Pending' # Pending
      BY <1>2, <2>3, Ended
    <3>2. QED
      BY <1>1, <1>2, <1>5, <2>1, <3>1, AnswerIsAsked
  <2>4. CASE Continue(s, "map")
    <3>1. Pending' = Pending /\ chain'[s].of = chain[s].of /\ chain'[s].at = "map"
      BY <1>2, <2>4, Continued
    <3>2. Loading(chain[s])'
      BY <1>6, <2>1, <3>1 DEF Loading
    <3>3. QED
      BY <1>1, <1>2, <1>5, <2>1, <3>1, <3>2, AnswerIsAsked
  <2>5. QED
    BY <2>2, <2>3, <2>4
<1>10. CASE MapAnswered(s)
  BY <1>5, <1>10, AskedMapAnswered
<1>11. CASE SearchAnswered(s)
  <2>1. chain[s].at = "search" /\ UNCHANGED <<data, modals, front, moved, selectedSpace>>
    BY <1>11 DEF SearchAnswered
  <2>2. chain[s].of = "applySearch"
    BY <1>6, <2>1 DEF OnItsWay
  <2>3. CASE locationId' = NoArea
    <3>1. Pending' = Pending \ {s} /\ Pending' # Pending
      BY <1>2, <1>11, <2>3, Ended DEF SearchAnswered
    <3>2. QED
      BY <1>1, <1>2, <1>5, <2>1, <2>2, <3>1, AnswerIsAsked
  <2>4. CASE locationId' # NoArea
    <3> DEFINE c == [chain[s] EXCEPT !.at = "location", !.area = locationId']
    <3>1. chain' = [chain EXCEPT ![s] = c]
      BY <1>11, <2>4 DEF SearchAnswered
    <3>2. IsChain(c) /\ c.of = chain[s].of
      BY <1>2 DEF IsChain, ChainFields
    <3> HIDE DEF c
    <3>3. Pending' = Pending /\ chain'[s] = c
      BY <1>2, <3>1, <3>2, Changed
    <3>4. Loading(chain[s])'
      BY <2>2, <3>2, <3>3 DEF Loading
    <3>5. QED
      BY <1>1, <1>2, <1>5, <2>1, <2>2, <3>2, <3>3, <3>4, AnswerIsAsked
  <2>5. QED
    BY <2>3, <2>4
<1>12. CASE BuddySaved(s)
  <2>1. /\ chain[s].at = "buddy" /\ Continue(s, "buddies")
        /\ UNCHANGED <<locationId, data, modals, front, moved, selectedSpace, skipped>>
    BY <1>12 DEF BuddySaved
  <2>2. Pending' = Pending /\ chain'[s].of = chain[s].of /\ chain'[s].at = "buddies"
    BY <1>2, <2>1, Continued
  <2>3. Loading(chain[s])'
    BY <1>6, <2>1, <2>2 DEF Loading
  <2>4. QED
    BY <1>1, <1>2, <1>5, <2>1, <2>2, <2>3, AnswerIsAsked
<1>13. CASE BuddiesReloaded(s)
  <2>1. EndOf(s) /\ UNCHANGED <<locationId, modals, front, moved, selectedSpace>>
    BY <1>13 DEF BuddiesReloaded
  <2>2. Pending' = Pending \ {s} /\ Pending' # Pending
    BY <1>2, <2>1, Ended
  <2>3. QED
    BY <1>1, <1>2, <1>5, <2>1, <2>2, AnswerIsAsked
<1>14. CASE BuddyNotSaved(s)
  <2>1. /\ EndOf(s) /\ UNCHANGED <<locationId, data, moved, selectedSpace>>
        /\ modals' = modals \cup {"error"}
        /\ front' = IF "error" \in modals THEN front ELSE "error"
    BY <1>14 DEF BuddyNotSaved, Show
  <2>2. Pending' = Pending \ {s} /\ Booted' /\ Pending' = {}
    BY <1>1, <1>2, <1>5, <2>1, Ended DEF Tidy, Booted
  <2>3. {"search", "confirm"} \subseteq modals'
          => front' \in modals' /\ front' \in {"confirm", "error"}
    BY <1>5, <2>1 DEF Asked
  <2>4. "confirm" \in modals' /\ ~moved' => ItemOffered'
    BY <1>1, <1>5, <2>1 DEF Asked, ItemOffered
  <2>5. QED
    BY <2>2, <2>3, <2>4 DEF Asked
<1>15. QED
  BY <1>3, <1>7, <1>8, <1>9, <1>10, <1>11, <1>12, <1>13, <1>14 DEF Answered

\* The user starts a chain that is not loadItems'; a search only while no
\* confirmation is shown.
LEMMA AskedChainStarted ==
  ASSUME Chains, DialogInv, NEW c, IsChain(c), Start(c), Smooth', c.of # "loadItems",
         UNCHANGED <<boot, failed, data>>, modals' \subseteq modals,
         {"search", "confirm"} \subseteq modals' => front' \in modals' /\ front' = front,
         "confirm" \in modals' /\ ~moved' =>
           /\ c.of # "applySearch"
           /\ UNCHANGED <<locationId, enter, leave, selectedSpace, moved>>
  PROVE  Asked'
<1>1. /\ ~overlapped /\ Pending = {} /\ Booted
      /\ \E s \in Slots : Pending' = {s} /\ chain'[s] = c
  BY StartsAlone DEF Smooth
<1>2. Booted' /\ \A s \in Pending' : chain'[s] = c
  BY <1>1 DEF Booted
<1>3. Asked
  BY <1>1 DEF Smooth, DialogInv
<1>4. \A s \in Pending' : Loading(chain[s])' /\ ("confirm" \in modals' /\ ~moved' =>
                                                    chain'[s].of # "applySearch")
  BY <1>2 DEF Loading
<1>5. "confirm" \in modals' /\ ~moved' => ItemOffered'
  BY <1>3 DEF Asked, ItemOffered
<1>6. {"search", "confirm"} \subseteq modals'
        => front' \in modals' /\ front' \in {"confirm", "error"}
  BY <1>3 DEF Asked
<1>7. QED
  BY <1>2, <1>4, <1>5, <1>6 DEF Asked

LEMMA AskedDatesChanged ==
  ASSUME Chains, DialogInv, DatesChanged, Smooth'
  PROVE  Asked'
<1>1. UNCHANGED <<boot, locationId, data, modals, front, selectedSpace, failed>>
  BY DEF DatesChanged, offer, dialog
<1>2. "confirm" \in modals' => moved'
  BY <1>1 DEF DatesChanged
<1>3. CASE canSearch'
  <2> DEFINE c == [Chain("dates", "spaces", locationId, NoArea)
                     EXCEPT !.enter = enter', !.leave = leave']
  <2>1. Start(c)
    BY <1>3 DEF DatesChanged
  <2>2. IsChain(c) /\ c.of = "dates"
    BY DEF Chain, IsChain, ChainFields
  <2> HIDE DEF c
  <2>3. ~overlapped
    BY <2>1, <2>2, StartsAlone DEF Smooth
  <2>4. {"search", "confirm"} \subseteq modals' => front' \in modals' /\ front' = front
    BY <1>1, <2>3 DEF Smooth, DialogInv, Asked
  <2>5. QED
    BY <1>1, <1>2, <2>1, <2>2, <2>4, AskedChainStarted
<1>4. CASE ~canSearch'
  <2>1. skipped' = TRUE /\ UNCHANGED <<chain, overlapped>>
    BY <1>4 DEF DatesChanged
  <2>2. Pending' = Pending /\ Booted' = Booted
    BY <1>1, <2>1 DEF Pending, Free, Booted
  <2>3. Asked
    BY <1>1, <2>1 DEF Smooth, DialogInv
  <2>4. \A s \in Pending : Loading(chain[s])'
    BY <1>1, <2>1, <2>3 DEF Asked, Loading
  <2>5. QED
    BY <1>1, <1>2, <2>2, <2>3, <2>4 DEF Asked
<1>5. QED
  BY <1>3, <1>4

LEMMA AskedSpaceSelected ==
  ASSUME Tidy, Asked, NEW s \in Spaces, onSpaceSelect(s)
  PROVE  Asked'
<1>1. /\ modals = {} /\ ~loading /\ locationId # NoArea /\ AreaOf[s] = data.area /\ Selected(s)
      /\ UNCHANGED <<boot, chain, locationId, enter, leave, data, skipped>>
  BY DEF onSpaceSelect, SpacesUsable, FormUsable, In, quiet, inputless, dates, offer
<1>2. Booted /\ Booted' /\ Pending' = Pending
  BY <1>1 DEF Tidy, Booted, Pending, Free
<1>3. data.area # NoArea
  BY <1>1, PageAssumption
<1>4. \A r \in Pending' : Loading(chain[r])'
  <2>1. SUFFICES ASSUME NEW r \in Pending PROVE Loading(chain[r])'
    BY <1>2
  <2>2. Loading(chain[r]) /\ skipped
    BY <1>1, <2>1 DEF Asked, Tidy
  <2>3. chain[r].of = "loadItems" => chain[r].at = "map"
    BY <1>3, <2>2 DEF Loading
  <2>4. ~({"search", "confirm"} \subseteq modals')
    BY <1>1 DEF Selected, Show
  <2>5. QED
    BY <1>1, <2>2, <2>3, <2>4 DEF Loading
<1>5. ~skipped => /\ Pending' = {} /\ data.area = locationId
                  /\ data.enter = enter /\ data.leave = leave
  BY <1>1, <1>2 DEF Tidy, Settled, ListIsForDates
<1>6. QED
  BY <1>1, <1>2, <1>4, <1>5, SelectedIsAsked

\* Dialogs that are opened or closed without a request.
LEMMA AskedDialogs ==
  ASSUME Asked, UNCHANGED <<boot, chain, locationId, enter, leave, data, skipped, moved,
                            selectedSpace>>,
         \/ "confirm" \notin modals'
         \/ modals' \subseteq modals /\ UNCHANGED front /\ (front \in modals => front \in modals')
  PROVE  Asked'
<1>1. Pending' = Pending /\ Booted' = Booted
  BY DEF Pending, Free, Booted
<1>2. \A s \in Pending : Loading(chain[s])'
  BY DEF Asked, Loading
<1>3. ItemOffered' = ItemOffered
  BY DEF ItemOffered
<1>4. QED
  BY <1>1, <1>2, <1>3 DEF Asked

LEMMA StepDialog ==
  ASSUME PageInv, DialogInv, [Next]_vars
  PROVE  DialogInv'
<1> USE DEF excuses, offer, dates, inputless, quiet, search, toggles, dialog
<1>1. SUFFICES ASSUME Smooth' PROVE Asked'
  BY DEF DialogInv
<1>2. Chains
  BY DEF PageInv
<1>3. Smooth => Tidy /\ Asked
  BY DEF PageInv, DialogInv
<1>4. ASSUME NEW l \in Lists, ListAnswered(l) \/ ListFailed(l) PROVE Asked'
  BY <1>1, <1>4, AskedListAnswered, PageListFailed
<1>5. ASSUME NEW s \in Slots, Answered(s) PROVE Asked'
  BY <1>1, <1>5, AskedAnswered
<1>6. CASE EnterChanged \/ LeaveChanged
  BY <1>1, <1>2, <1>6, AskedDatesChanged DEF EnterChanged, LeaveChanged
<1>7. CASE UntilChanged \/ CountAnswered \/ CountFailed
  BY <1>1, <1>3, <1>7, SameDialog DEF UntilChanged, CountAnswered, CountFailed, Smooth
<1>8. ASSUME NEW d \in {"success", "error"}, BookingSaved(d) PROVE Asked'
  <2>1. "confirm" \notin modals'
    BY <1>8 DEF BookingSaved
  <2>2. QED
    BY <1>1, <1>3, <1>8, <2>1, AskedDialogs DEF BookingSaved, Smooth
<1>9. ASSUME NEW id \in Areas, changeLocation(id) PROVE Asked'
  <2>1. Start(Chain("changeLocation", "attributes", id, id)) /\ modals = {} /\ modals' = {}
    BY <1>9 DEF changeLocation, FormUsable
  <2>2. QED
    BY <1>1, <1>2, <1>9, <2>1, SomeChain, AskedChainStarted DEF changeLocation
<1>10. ASSUME NEW f \in DateFields, NEW t \in Picks, PickDate(f, t) PROVE Asked'
  BY <1>1, <1>3, <1>10, SameDialog DEF PickDate, Smooth
<1>11. ASSUME NEW value, changeEnterDay(value) PROVE Asked'
  BY <1>1, <1>3, <1>11, SameDialog DEF changeEnterDay, Smooth
<1>12. CASE toggleWeeklyReservation \/ EditFilter
  BY <1>1, <1>3, <1>12, SameDialog DEF toggleWeeklyReservation, EditFilter, Smooth
<1>13. ASSUME NEW d \in {"search", "details"}, OpenDialog(d) PROVE Asked'
  <2>1. "confirm" \notin modals'
    BY <1>13 DEF OpenDialog, FormUsable, Show
  <2>2. QED
    BY <1>1, <1>3, <1>13, <2>1, AskedDialogs DEF OpenDialog, Smooth
<1>14. ASSUME NEW d \in Dialogs \ {"success", "error"}, HideDialog(d) PROVE Asked'
  <2>1. /\ modals' = modals \ {d} /\ UNCHANGED front /\ (front \in modals => d = front)
        /\ UNCHANGED <<boot, chain, locationId, enter, leave, data, skipped, moved,
                       selectedSpace, overlapped, failed>>
    BY <1>14 DEF HideDialog, Hide, Usable
  <2>2. Tidy /\ Asked
    BY <1>1, <1>3, <2>1 DEF Smooth
  <2>3. CASE front \in modals
    <3>1. ~({"search", "confirm"} \subseteq modals')
      BY <1>14, <2>1, <2>2, <2>3 DEF Asked
    <3>2. Pending' = Pending /\ Booted' = Booted /\ ItemOffered' = ItemOffered
      BY <2>1 DEF Pending, Free, Booted, ItemOffered
    <3>3. \A s \in Pending : Loading(chain[s])'
      BY <2>1, <2>2 DEF Asked, Loading
    <3>4. QED
      BY <2>1, <2>2, <3>1, <3>2, <3>3 DEF Asked
  <2>4. CASE front \notin modals
    BY <2>1, <2>2, <2>4, AskedDialogs
  <2>5. QED
    BY <2>3, <2>4
<1>15. ASSUME NEW reset \in BOOLEAN, applySearch(reset) PROVE Asked'
  <2>1. /\ Start(Chain("applySearch", "search", NoArea, NoArea))
        /\ "search" \in modals /\ (front \in modals => front = "search")
        /\ modals' = modals \ {"search"}
    BY <1>15 DEF applySearch, Usable, Hide
  <2>2. Smooth
    BY <1>1, <1>2, <1>15, <2>1, SomeChain, StartsAlone DEF Smooth, applySearch
  <2>3. "confirm" \notin modals
    BY <1>3, <2>1, <2>2 DEF Asked
  <2>4. QED
    BY <1>1, <1>2, <1>15, <2>1, <2>3, SomeChain, AskedChainStarted DEF applySearch
<1>16. ASSUME NEW s \in Spaces, onSpaceSelect(s) PROVE Asked'
  BY <1>1, <1>3, <1>16, AskedSpaceSelected DEF onSpaceSelect, Smooth
<1>17. CASE onConfirmBooking
  BY <1>1, <1>3, <1>17, SameDialog DEF onConfirmBooking, Smooth
<1>18. CASE onAddBuddy
  <2>1. /\ Start(Chain("onAddBuddy", "buddy", NoArea, NoArea))
        /\ (front \in modals => front = "names")
        /\ modals' = modals \ {"names"} /\ front' = front
    BY <1>18 DEF onAddBuddy, Usable, Hide
  <2>2. Smooth
    BY <1>1, <1>2, <1>18, <2>1, SomeChain, StartsAlone DEF Smooth, onAddBuddy
  <2>3. {"search", "confirm"} \subseteq modals' => front' \in modals' /\ front' = front
    BY <1>3, <2>1, <2>2 DEF Asked
  <2>4. QED
    BY <1>1, <1>2, <1>18, <2>1, <2>3, SomeChain, AskedChainStarted DEF onAddBuddy
<1>19. CASE refreshPage
  <2>1. /\ Start(Chain("refreshPage", "location", locationId, NoArea))
        /\ (front \in modals => front = "success")
        /\ modals' = modals \ {"success"} /\ front' = front
    BY <1>19 DEF refreshPage, Usable, Hide
  <2>2. Smooth
    BY <1>1, <1>2, <1>19, <2>1, SomeChain, StartsAlone DEF Smooth, refreshPage
  <2>3. {"search", "confirm"} \subseteq modals' => front' \in modals' /\ front' = front
    BY <1>3, <2>1, <2>2 DEF Asked
  <2>4. QED
    BY <1>1, <1>2, <1>19, <2>1, <2>3, SomeChain, AskedChainStarted DEF refreshPage
<1>20. CASE UNCHANGED vars
  BY <1>1, <1>3, <1>20, SameDialog DEF vars, Smooth
<1>21. QED
  BY <1>4, <1>5, <1>6, <1>7, <1>8, <1>9, <1>10, <1>11, <1>12, <1>13, <1>14, <1>15, <1>16, <1>17,
     <1>18, <1>19, <1>20 DEF Next, Browser, User

----------------------------------------------------------------------------
(* A booking is saved once.                                                *)

SavesInv == saving \in Nat /\ saving <= 1 /\ (saving > 0 => confirmingBooking)

LEMMA StepSaves ==
  ASSUME SavesInv, [Next]_vars
  PROVE  SavesInv'
<1> USE DEF inputless, quiet, search, toggles, dialog
<1>1. ASSUME NEW l \in Lists, ListAnswered(l) \/ ListFailed(l) PROVE SavesInv'
  BY <1>1 DEF ListAnswered, ListFailed, SavesInv
<1>2. ASSUME NEW s \in Slots, Answered(s) PROVE SavesInv'
  BY <1>2 DEF Answered, AttributesAnswered, LocationAnswered, SpacesAnswered, MapAnswered,
              SearchAnswered, BuddySaved, BuddiesReloaded, BuddyNotSaved, ChainFailed, SavesInv
<1>3. CASE EnterChanged \/ LeaveChanged
  BY <1>3 DEF EnterChanged, LeaveChanged, DatesChanged, SavesInv
<1>4. CASE UntilChanged \/ CountAnswered \/ CountFailed
  BY <1>4 DEF UntilChanged, CountAnswered, CountFailed, SavesInv
<1>5. ASSUME NEW d, BookingSaved(d) PROVE SavesInv'
  BY <1>5 DEF BookingSaved, SavesInv
<1>6. CASE onConfirmBooking
  BY <1>6 DEF onConfirmBooking, SavesInv
<1>7. ASSUME \/ \E id \in Areas : changeLocation(id)
             \/ \E f \in DateFields, t \in Picks : PickDate(f, t)
             \/ \E value \in 0 .. Settings.maxDaysInAdvance : changeEnterDay(value)
             \/ toggleWeeklyReservation \/ EditFilter
             \/ \E d \in {"search", "details"} : OpenDialog(d)
             \/ \E d \in Dialogs \ {"success", "error"} : HideDialog(d)
             \/ \E reset \in BOOLEAN : applySearch(reset)
             \/ \E s \in Spaces : onSpaceSelect(s)
             \/ onAddBuddy \/ refreshPage
      PROVE  SavesInv'
  <2>1. UNCHANGED <<saving, confirmingBooking>>
    BY <1>7 DEF changeLocation, PickDate, changeEnterDay, toggleWeeklyReservation, EditFilter,
                OpenDialog, HideDialog, applySearch, onSpaceSelect, onAddBuddy, refreshPage
  <2>2. QED
    BY <2>1 DEF SavesInv
<1>8. CASE UNCHANGED vars
  BY <1>8 DEF vars, SavesInv
<1>9. QED
  BY <1>1, <1>2, <1>3, <1>4, <1>5, <1>6, <1>7, <1>8 DEF Next, Browser, User

\* The booking is what the dialog shows; its space is what the user selected.
LEMMA StepOffered ==
  ASSUME BookedAsOffered, DialogInv, [Next]_vars
  PROVE  BookedAsOffered'
<1> USE DEF inputless, quiet, search, toggles, dialog
<1>1. CASE onConfirmBooking
  <2>1. /\ sent'.excused = (overlapped \/ failed \/ moved) /\ sent'.item = selectedSpace
        /\ sent'.area = locationId /\ sent'.enter = enter /\ sent'.leave = leave
        /\ "confirm" \in modals
    BY <1>1 DEF onConfirmBooking, Usable
  <2>2. CASE overlapped \/ failed \/ moved
    BY <2>1, <2>2 DEF BookedAsOffered
  <2>3. CASE ~(overlapped \/ failed \/ moved)
    <3>1. ItemOffered
      BY <2>1, <2>3 DEF DialogInv, Smooth, Asked
    <3>2. QED
      BY <2>1, <3>1 DEF BookedAsOffered, ItemOffered
  <2>4. QED
    BY <2>2, <2>3
<1>2. ASSUME NEW l \in Lists, ListAnswered(l) \/ ListFailed(l) PROVE UNCHANGED sent
  BY <1>2 DEF ListAnswered, ListFailed
<1>3. ASSUME NEW s \in Slots, Answered(s) PROVE UNCHANGED sent
  BY <1>3 DEF Answered, AttributesAnswered, LocationAnswered, SpacesAnswered, MapAnswered,
              SearchAnswered, BuddySaved, BuddiesReloaded, BuddyNotSaved, ChainFailed
<1>4. CASE EnterChanged \/ LeaveChanged
  BY <1>4 DEF EnterChanged, LeaveChanged, DatesChanged, BookedAsOffered
<1>5. CASE UntilChanged \/ CountAnswered \/ CountFailed
  BY <1>5 DEF UntilChanged, CountAnswered, CountFailed, BookedAsOffered
<1>6. ASSUME NEW d, BookingSaved(d) PROVE UNCHANGED sent
  BY <1>6 DEF BookingSaved
<1>7. ASSUME \/ \E id \in Areas : changeLocation(id)
             \/ \E f \in DateFields, t \in Picks : PickDate(f, t)
             \/ \E value \in 0 .. Settings.maxDaysInAdvance : changeEnterDay(value)
             \/ toggleWeeklyReservation \/ EditFilter
             \/ \E d \in {"search", "details"} : OpenDialog(d)
             \/ \E d \in Dialogs \ {"success", "error"} : HideDialog(d)
             \/ \E reset \in BOOLEAN : applySearch(reset)
             \/ \E s \in Spaces : onSpaceSelect(s)
             \/ onAddBuddy \/ refreshPage
      PROVE  UNCHANGED sent
  BY <1>7 DEF changeLocation, PickDate, changeEnterDay, toggleWeeklyReservation, EditFilter,
              OpenDialog, HideDialog, applySearch, onSpaceSelect, onAddBuddy, refreshPage
<1>8. CASE UNCHANGED vars
  BY <1>8 DEF vars, BookedAsOffered
<1>9. UNCHANGED sent => BookedAsOffered'
  BY DEF BookedAsOffered
<1>10. QED
  BY <1>1, <1>2, <1>3, <1>4, <1>5, <1>6, <1>7, <1>8, <1>9 DEF Next, Browser, User

\* What the user has confirmed is what is booked, and once: unless loads have
\* overlapped, one has failed, the space was selected while the dates allowed no
\* search, or a timer has changed the dates under the confirmation.
THEOREM BookedAsConfirmedAlways == Spec => []BookedAsConfirmed
<1>1. Init => DialogInv /\ SavesInv /\ BookedAsOffered
  BY DEF Init, DialogInv, Asked, SavesInv, BookedAsOffered, NoBooking, NoList, Pending, Free
<1>2. PageInv /\ DialogInv /\ SavesInv /\ BookedAsOffered /\ [Next]_vars
        => DialogInv' /\ SavesInv' /\ BookedAsOffered'
  BY StepDialog, StepSaves, StepOffered
<1>3. SavesInv /\ BookedAsOffered => BookedAsConfirmed
  BY DEF SavesInv, BookedAsConfirmed, SavedOnce
<1>4. QED
  BY <1>1, <1>2, <1>3, PageInvariant, PTL DEF Spec

=============================================================================
