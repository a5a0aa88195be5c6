--------------------------- MODULE LocationEditor ---------------------------
(***************************************************************************)
(* The page of the administration on which an area is created or changed,  *)
(* with its floor plan, spaces and attributes                              *)
(* (admin-ui/src/pages/locations/[id].tsx), and what the server keeps of   *)
(* the area.                                                               *)
(*                                                                         *)
(* What is typed or drawn is a stamp: the inputs left of the visit, which  *)
(* no other input has.  A space of the page has the id of the server's     *)
(* space, or NoId, and is changed or not; the server's spaces are pairs of *)
(* an id and a stamp.  Saving an area sends, one after the other, the area *)
(* itself, its attributes (one request each, whose answers are not waited  *)
(* for), all changed spaces at once, and the floor plan, if a file has     *)
(* been chosen; only then the page is loaded anew.                         *)
(***************************************************************************)
EXTENDS Page, Sequences

CONSTANTS SpaceAttributes

VARIABLES
  loadsOfArea,   \* loadData and loadTimezones, by what became of them
  areaHasId,     \* entity.id is set
  files,         \* a file has been chosen
  rects,         \* this.state.spaces
  selectedSpace, deleteIds, changed,
  attributeValues, deletedAttributeIds,
  saveStep,      \* the request onSubmit waits for
  bulk,          \* what bulkUpdate has sent
  attributeRequests, \* pending requests of saveAttributes, by the save they belong to
  reloads,       \* the loadData pending: the request waited for, and what it has read
  \* The server.
  serverSpaces, nextId, serverAttributes,
  \* History variables: why the page and the server may differ although the
  \* page has nothing to save.
  editedMeanwhile, \* a space was added, changed or deleted during a save or the loading after it
  orphaned,      \* a space the page created was changed or deleted later
  partly,        \* the server refused some of a bulk update
  attributesRaced, \* attributes were edited, saved or loaded while being saved or loaded
  attributesEdited, \* attributes were edited since the last save
  addedAgain     \* an attribute was deleted and added again before a save

plan == <<rects, selectedSpace, deleteIds>>
attributes == <<attributeValues, deletedAttributeIds, attributesEdited, addedAgain>>
saveProgress == <<saveStep, bulk>>
server == <<serverSpaces, nextId, serverAttributes>>
spaceExcuses == <<editedMeanwhile, orphaned, partly>>
areaPage ==
  <<loadsOfArea, areaHasId, files, changed, plan, attributes, saveProgress,
    attributeRequests, reloads, server, spaceExcuses, attributesRaced>>
areaVars == <<shell, areaPage>>

NoId == 0
NoValue == -1
NoBulk == [creates |-> <<>>, updates |-> {}, deletes |-> {}]
Stamp == visit.count

----------------------------------------------------------------------------
\* /locations/add, or an area with one space and a value for each attribute.
AreaInit ==
  /\ areaHasId \in BOOLEAN
  /\ loadsOfArea = [l \in {"data", "timezones"} |->
                      IF l = "data" /\ ~areaHasId THEN "done" ELSE "pending"]
  /\ files = FALSE /\ changed = FALSE
  /\ rects = <<>> /\ selectedSpace = 0 /\ deleteIds = {}
  /\ attributeValues = <<>> /\ deletedAttributeIds = {}
  /\ attributesEdited = FALSE /\ addedAgain = FALSE
  /\ saveStep = "none" /\ bulk = NoBulk /\ attributeRequests = {}
  /\ reloads = IF areaHasId THEN {[n |-> 0, at |-> "spaces"]} ELSE {}
  /\ serverSpaces = IF areaHasId THEN {[id |-> 1, content |-> 0]} ELSE {}
  /\ nextId = 2
  /\ serverAttributes = IF areaHasId THEN [a \in SpaceAttributes |-> 0] ELSE <<>>
  /\ editedMeanwhile = FALSE /\ orphaned = FALSE /\ partly = FALSE
  /\ attributesRaced = FALSE

----------------------------------------------------------------------------
(* Mutants.                                                                *)

IgnoredDeletion(id) == deleteIds
ForgetDeletion(a) == deletedAttributeIds
StillSubmitting == TRUE

----------------------------------------------------------------------------
(* componentDidMount, loadData.                                            *)

TimezonesLoaded ==
  /\ loadsOfArea["timezones"] = "pending"
  /\ loadsOfArea' = [loadsOfArea EXCEPT !["timezones"] = "done"]
  /\ loading' = (loadsOfArea["data"] # "done")
  /\ UNCHANGED <<visit, submitting, saved, error, goBack, uncaught, areaHasId, files, changed,
                 plan, attributes, saveProgress, attributeRequests, reloads, server,
                 spaceExcuses, attributesRaced>>

\* The server reads its spaces, or later its attribute values, for an answer
\* that is still to arrive.
ReloadRead(r) ==
  /\ r \in reloads /\ r.at \in {"spaces", "values"}
  /\ reloads' =
       (reloads \ {r}) \cup
         {IF r.at = "spaces"
            THEN [n |-> r.n, at |-> "spacesRead", spaces |-> serverSpaces]
            ELSE [n |-> r.n, at |-> "valuesRead", values |-> serverAttributes]}
  /\ attributesRaced' = (attributesRaced \/ attributeRequests # {})
  /\ UNCHANGED <<shell, loadsOfArea, areaHasId, files, changed, plan, attributes, saveProgress,
                 attributeRequests, server, spaceExcuses>>

\* The spaces of the page are replaced, whatever the user has done meanwhile.
SpacesLoaded(r) ==
  /\ r \in reloads /\ r.at = "spacesRead"
  /\ \E order \in [1 .. Cardinality(r.spaces) -> r.spaces] :
       /\ \A i, j \in DOMAIN order : i < j => order[i].id < order[j].id
       /\ rects' = [i \in DOMAIN order |-> [id |-> order[i].id, content |-> order[i].content,
                                            changed |-> FALSE]]
  /\ reloads' = (reloads \ {r}) \cup {[n |-> r.n, at |-> "values"]}
  /\ UNCHANGED <<shell, loadsOfArea, areaHasId, files, changed, selectedSpace, deleteIds,
                 attributes, saveProgress, attributeRequests, server, spaceExcuses,
                 attributesRaced>>

\* The floor plan and the list of attributes come in between.
ValuesLoaded(r) ==
  /\ r \in reloads /\ r.at = "valuesRead" /\ reloads' = reloads \ {r}
  /\ attributeValues' = r.values
  /\ loadsOfArea' = [loadsOfArea EXCEPT !["data"] = "done"] /\ loading' = FALSE
  /\ attributesRaced' = (attributesRaced \/ attributesEdited)
  /\ UNCHANGED <<visit, submitting, saved, error, goBack, uncaught, areaHasId, files, changed, plan,
                 deletedAttributeIds, attributesEdited, addedAgain, saveProgress,
                 attributeRequests, server, spaceExcuses>>

\* Nobody catches it.
ReloadFailed(r) ==
  /\ Failure /\ Unheard /\ r \in reloads /\ reloads' = reloads \ {r}
  /\ UNCHANGED <<loadsOfArea, areaHasId, files, changed, plan, attributes, saveProgress,
                 attributeRequests, server, spaceExcuses, attributesRaced>>
TimezonesFailed ==
  /\ Failure /\ Unheard /\ loadsOfArea["timezones"] = "pending"
  /\ loadsOfArea' = [loadsOfArea EXCEPT !["timezones"] = "failed"]
  /\ UNCHANGED <<areaHasId, files, changed, plan, attributes, saveProgress, attributeRequests,
                 reloads, server, spaceExcuses, attributesRaced>>

----------------------------------------------------------------------------
(* The floor plan, which the page has once the area exists.                *)

NewRect == [id |-> NoId, content |-> Stamp, changed |-> TRUE]
Edited(r) == [r EXCEPT !.content = Stamp, !.changed = TRUE]
ToDelete(id) == deleteIds \cup {id}

\* A space without an id that is not changed has been created by a save.
Orphan(r) == r.id = NoId /\ ~r.changed

PlanEdit(kind) ==
  /\ Shown /\ areaHasId /\ Input(kind) /\ changed' = TRUE
  /\ editedMeanwhile' = (editedMeanwhile \/ saveStep # "none" \/ reloads # {})
  /\ UNCHANGED <<display, loadsOfArea, areaHasId, files, attributes, saveProgress,
                 attributeRequests, reloads, server, partly, attributesRaced>>

addRect ==
  /\ PlanEdit("add") /\ rects' = Append(rects, NewRect)
  /\ UNCHANGED <<selectedSpace, deleteIds, orphaned>>

\* setSpaceName, setSpaceDimensions; and setSpacePosition, which selects it.
SetSpace(i, dragged) ==
  /\ i \in DOMAIN rects /\ PlanEdit(IF dragged THEN "drag" ELSE "edit")
  /\ rects' = [rects EXCEPT ![i] = Edited(@)]
  /\ orphaned' = (orphaned \/ Orphan(rects[i]))
  /\ selectedSpace' = IF dragged THEN i ELSE selectedSpace
  /\ UNCHANGED deleteIds

copySpace ==
  /\ selectedSpace \in DOMAIN rects /\ PlanEdit("copy")
  /\ rects' = Append(rects, NewRect) /\ selectedSpace' = 0
  /\ UNCHANGED <<deleteIds, orphaned>>

deleteSpace ==
  /\ selectedSpace \in DOMAIN rects /\ PlanEdit("remove")
  /\ deleteIds' = IF rects[selectedSpace].id = NoId THEN deleteIds
                  ELSE ToDelete(rects[selectedSpace].id)
  /\ rects' = SubSeq(rects, 1, selectedSpace - 1)
                \o SubSeq(rects, selectedSpace + 1, Len(rects))
  /\ orphaned' = (orphaned \/ Orphan(rects[selectedSpace]))
  /\ selectedSpace' = 0

----------------------------------------------------------------------------
(* The attributes, and the file of the floor plan.                         *)

AttributeEdit(kind) ==
  /\ Shown /\ areaHasId /\ Input(kind) /\ attributesEdited' = TRUE
  /\ attributesRaced' = (attributesRaced \/ reloads # {})
  /\ UNCHANGED <<display, loadsOfArea, areaHasId, files, changed, plan, saveProgress,
                 attributeRequests, reloads, server, spaceExcuses>>

\* The list of deletions keeps an attribute that is added again.
setAttribute(a) ==
  /\ AttributeEdit("value")
  /\ attributeValues' = [b \in DOMAIN attributeValues \cup {a} |->
                           IF b = a THEN Stamp ELSE attributeValues[b]]
  /\ addedAgain' = (addedAgain \/ a \in deletedAttributeIds)
  /\ UNCHANGED deletedAttributeIds

NoteDeletion(a) == deletedAttributeIds \cup {a}

deleteAttribute(a) ==
  /\ a \in DOMAIN attributeValues /\ AttributeEdit("clear")
  /\ attributeValues' = [b \in DOMAIN attributeValues \ {a} |-> attributeValues[b]]
  /\ deletedAttributeIds' = NoteDeletion(a)
  /\ UNCHANGED addedAgain

ChooseFile ==
  /\ Shown /\ ~files /\ Input("file") /\ files' = TRUE
  /\ UNCHANGED <<display, loadsOfArea, areaHasId, changed, plan, attributes, saveProgress,
                 attributeRequests, reloads, server, spaceExcuses, attributesRaced>>

----------------------------------------------------------------------------
(* onSubmit.  Save is disabled until its last request is answered.  A new  *)
(* area needs a file.                                                      *)

SaveArea ==
  /\ Shown /\ ~submitting /\ (areaHasId \/ files) /\ Input("save")
  /\ submitting' = TRUE /\ saveStep' = "area"
  /\ UNCHANGED <<loading, saved, error, goBack, uncaught, loadsOfArea, areaHasId, files, changed,
                 plan, attributes, bulk, attributeRequests, reloads, server, spaceExcuses,
                 attributesRaced>>

\* saveAttributes: a request for every value and every deletion.
AttributeRequests ==
  {[n |-> Stamp, id |-> a, value |-> attributeValues[a]] : a \in DOMAIN attributeValues}
    \cup {[n |-> Stamp, id |-> a, value |-> NoValue] : a \in deletedAttributeIds}

\* saveSpaces: the changed spaces, new ones apart from the others, by their place
\* on the page.
BulkUpdate ==
  LET sent == {i \in DOMAIN rects : rects[i].changed}
      new == {i \in sent : rects[i].id = NoId}
  IN  [creates |-> [i \in new |-> rects[i].content],
       updates |-> {rects[i] : i \in sent \ new},
       deletes |-> deleteIds]

StillSaving == FALSE

\* The spaces are done with: the file follows, or it is over.
SpacesDone ==
  IF files THEN saveStep' = "file" /\ UNCHANGED <<submitting, saved, changed>>
  ELSE /\ saveStep' = "none" /\ submitting' = StillSaving /\ saved' = TRUE /\ changed' = FALSE

\* The lists of a save without attributes are emptied at once; those of
\* others when the last of their requests has been answered.
AreaSaved ==
  /\ saveStep = "area" /\ areaHasId' = TRUE
  /\ attributeRequests' = attributeRequests \cup AttributeRequests
  /\ attributesRaced' = (attributesRaced \/ attributeRequests # {} \/ reloads # {})
  /\ attributesEdited' = FALSE
  /\ IF BulkUpdate = NoBulk
       THEN SpacesDone /\ UNCHANGED bulk
       ELSE saveStep' = "spaces" /\ bulk' = BulkUpdate /\ UNCHANGED <<submitting, saved, changed>>
  /\ UNCHANGED <<visit, loading, error, goBack, uncaught, loadsOfArea, files, plan,
                 attributeValues, deletedAttributeIds, addedAgain, reloads, server,
                 spaceExcuses>>

\* bulkUpdate on the server, operation by operation: those it can do of the
\* deletions, the creations and the updates.
Applied(deletes, creates, updates) ==
  LET left == {s \in serverSpaces : s.id \notin deletes}
      before(i) == {j \in DOMAIN bulk.creates : j < i}
      made == {[id |-> nextId + Cardinality(before(i)), content |-> bulk.creates[i]] :
                 i \in creates}
      of(id) == {u \in updates : u.id = id}
  IN  {s \in left : of(s.id) = {}} \cup made
        \cup {[id |-> u.id, content |-> u.content] :
                u \in {u \in updates : \E s \in left : s.id = u.id}}

\* The ids BulkUpdateResponse.deserialize reads from the answer: it looks for
\* them in the envelope of the answer, and finds none.
DeserializedIds == <<>>

\* All spaces of the page count as saved, the unsaved ones in their order as
\* the ones created.
WithIds ==
  LET unsaved(i) == {j \in 1 .. i : rects[j].changed /\ rects[j].id = NoId}
      id(i) == Cardinality(unsaved(i))
  IN  [i \in DOMAIN rects |->
         [rects[i] EXCEPT !.changed = FALSE,
                          !.id = IF i \in unsaved(i) /\ id(i) \in DOMAIN DeserializedIds
                                   THEN DeserializedIds[id(i)] ELSE @]]

BulkUpdated ==
  /\ saveStep = "spaces"
  /\ \E deletes \in SUBSET bulk.deletes, creates \in SUBSET DOMAIN bulk.creates,
        updates \in SUBSET bulk.updates :
       /\ partly' = (partly \/ <<deletes, creates, updates>>
                                # <<bulk.deletes, DOMAIN bulk.creates, bulk.updates>>)
       /\ (partly' # partly) => visit.failures > 0
       /\ serverSpaces' = Applied(deletes, creates, updates)
  /\ nextId' = nextId + Cardinality(DOMAIN bulk.creates)
  /\ rects' = WithIds /\ deleteIds' = {} /\ bulk' = NoBulk
  /\ SpacesDone
  /\ UNCHANGED <<visit, loading, error, goBack, uncaught, loadsOfArea, areaHasId, files,
                 selectedSpace, attributes, attributeRequests, reloads, serverAttributes,
                 editedMeanwhile, orphaned, attributesRaced>>

\* setMap: the page is loaded anew.
FileUploaded ==
  /\ saveStep = "file" /\ saveStep' = "none"
  /\ reloads' = reloads \cup {[n |-> Stamp, at |-> "spaces"]}
  /\ files' = FALSE /\ saved' = TRUE /\ changed' = FALSE /\ submitting' = FALSE
  /\ attributesRaced' = (attributesRaced \/ attributeRequests # {})
  /\ UNCHANGED <<visit, loading, error, goBack, uncaught, loadsOfArea, areaHasId, plan,
                 attributes, bulk, attributeRequests, server, spaceExcuses>>

\* Nobody catches the failure of a step: Save stays disabled.  What the
\* server has done by then stays done.
SaveFailed ==
  /\ Failure /\ Unheard /\ saveStep # "none" /\ saveStep' = "stuck"
  /\ serverSpaces' \in {serverSpaces, Applied(bulk.deletes, DOMAIN bulk.creates, bulk.updates)}
  /\ nextId' = nextId + Cardinality(DOMAIN bulk.creates)
  /\ UNCHANGED <<loadsOfArea, areaHasId, files, changed, plan, attributes, bulk,
                 attributeRequests, reloads, serverAttributes, spaceExcuses, attributesRaced>>

AttributeAnswered(r) ==
  /\ r \in attributeRequests /\ attributeRequests' = attributeRequests \ {r}
  /\ serverAttributes' =
       IF r.value = NoValue
         THEN [a \in DOMAIN serverAttributes \ {r.id} |-> serverAttributes[a]]
         ELSE [a \in DOMAIN serverAttributes \cup {r.id} |->
                 IF a = r.id THEN r.value ELSE serverAttributes[a]]
  /\ deletedAttributeIds' =
       IF \A other \in attributeRequests' : other.n # r.n THEN {} ELSE deletedAttributeIds
  /\ attributesRaced' = (attributesRaced \/ attributesEdited)
  /\ UNCHANGED <<shell, loadsOfArea, areaHasId, files, changed, plan, attributeValues,
                 attributesEdited, addedAgain, saveProgress, reloads, serverSpaces, nextId,
                 spaceExcuses>>

AttributeRefused(r) ==
  /\ Failure /\ Unheard
  /\ r \in attributeRequests /\ attributeRequests' = attributeRequests \ {r}
  /\ UNCHANGED <<loadsOfArea, areaHasId, files, changed, plan, attributes, saveProgress, reloads,
                 server, spaceExcuses, attributesRaced>>

\* deleteItem, with its answer.
DeleteArea ==
  /\ Shown /\ areaHasId /\ Input("delete") /\ goBack' = TRUE
  /\ UNCHANGED <<waits, saved, error, uncaught, loadsOfArea, areaHasId, files, changed, plan,
                 attributes, saveProgress, attributeRequests, reloads, server, spaceExcuses,
                 attributesRaced>>

----------------------------------------------------------------------------
AreaAnswers ==
  \/ TimezonesLoaded
  \/ \E r \in reloads : ReloadRead(r) \/ SpacesLoaded(r) \/ ValuesLoaded(r)
  \/ AreaSaved \/ BulkUpdated \/ FileUploaded
  \/ \E r \in attributeRequests : AttributeAnswered(r)

AreaFailures ==
  \/ TimezonesFailed \/ SaveFailed
  \/ \E r \in reloads : ReloadFailed(r)
  \/ \E r \in attributeRequests : AttributeRefused(r)

AreaInputs ==
  \/ addRect \/ copySpace \/ deleteSpace
  \/ \E i \in DOMAIN rects, dragged \in BOOLEAN : SetSpace(i, dragged)
  \/ \E a \in SpaceAttributes : setAttribute(a) \/ deleteAttribute(a)
  \/ ChooseFile \/ SaveArea \/ DeleteArea

AreaNext == AreaAnswers \/ AreaFailures \/ AreaInputs
AreaSpec == VisitInit /\ ShellInit /\ AreaInit /\ [][AreaNext]_areaVars

----------------------------------------------------------------------------
AreaTypeOK ==
  /\ loadsOfArea \in [{"data", "timezones"} -> {"pending", "done", "failed"}]
  /\ {areaHasId, files, changed, attributesEdited, addedAgain, editedMeanwhile, orphaned, partly,
      attributesRaced} \subseteq BOOLEAN
  /\ rects \in Seq([id : Nat, content : Nat, changed : BOOLEAN])
  /\ selectedSpace \in Nat /\ deleteIds \subseteq Nat
  /\ DOMAIN attributeValues \subseteq SpaceAttributes
  /\ deletedAttributeIds \subseteq SpaceAttributes
  /\ saveStep \in {"none", "area", "spaces", "file", "stuck"}
  /\ \A s \in serverSpaces : s.id \in 1 .. nextId - 1

\* When the page has nothing to discard (Back asks nothing), the server has the
\* spaces the page shows, as they were drawn last; unless some were edited while
\* a save or the loading after it was under way (the edit is marked as saved, or
\* overwritten), a space created by a save
\* was edited later (the page never learns its id), the server refused one
\* operation of several (the page does not look), or a failure told nothing.
NothingToDiscardIsStored ==
  (/\ Shown /\ ~changed /\ ~submitting
   /\ ~editedMeanwhile /\ ~orphaned /\ ~partly /\ ~uncaught)
    => {rects[i].content : i \in DOMAIN rects} = {s.content : s \in serverSpaces}

\* The attributes shown after a save are those the server has, once their
\* requests are answered; unless they were edited, saved again or loaded in
\* between, or one was deleted and added again (it is then set and deleted, in
\* any order).
AttributesAreStored ==
  (/\ Shown /\ saved /\ ~submitting /\ attributeRequests = {} /\ ~attributesEdited
   /\ ~attributesRaced /\ ~addedAgain /\ ~uncaught)
    => attributeValues = serverAttributes

\* What the table of spaces promises with "Save area to get a valid link": a
\* space that has been saved has an id.
SaveGivesLink ==
  (saved /\ ~submitting /\ ~changed /\ ~uncaught /\ ~partly /\ ~editedMeanwhile)
    => \A i \in DOMAIN rects : rects[i].id # NoId
=============================================================================
