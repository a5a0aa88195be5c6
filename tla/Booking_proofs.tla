--------------------------- MODULE Booking_proofs ---------------------------
(***************************************************************************)
(* Theorems about Booking, for every value of its constants.               *)
(***************************************************************************)
EXTENDS Booking, FiniteSetTheorems, TLAPS

----------------------------------------------------------------------------
(* Dates.                                                                  *)

\* Quotients and remainders of natural numbers are natural numbers.
LEMMA DivMod ==
  ASSUME NEW x \in Nat, NEW d \in Nat \ {0}
  PROVE  x \div d \in Nat /\ x % d \in Nat
  BY SMT

\* A product of natural numbers is one.
LEMMA Product ==
  ASSUME NEW x \in Nat, NEW y \in Nat
  PROVE  x * y \in Nat
  BY SMT

\* A product of positive numbers is one.
LEMMA PositiveProduct ==
  ASSUME NEW x \in Nat \ {0}, NEW y \in Nat \ {0}
  PROVE  x * y \in Nat \ {0}
  BY SMT

\* A week and a day last some minutes.
LEMMA WeekAndDay == Day \in Nat \ {0} /\ Week \in Nat \ {0}
<1>1. Day \in Nat \ {0}
  BY PositiveProduct, CalendarAssumption DEF Day
<1>. QED  BY <1>1, PositiveProduct, CalendarAssumption DEF Week

\* The occurrences of a series are rows like the first one.
LEMMA SeriesTimes ==
  ASSUME NEW first \in Row, NEW k \in Nat
  PROVE  SeriesEnter(first, k) \in Nat /\ SeriesLeave(first, k) \in Nat
<1>. DEFINE e == SeriesEnter(first, k)
<1>0. first.enter \in Nat /\ first.leave \in Nat
  BY DEF Row
<1>1. k * Week \in Nat
  BY WeekAndDay, Product
<1>2. e \in Nat
  BY <1>0, <1>1 DEF SeriesEnter
<1>. HIDE DEF e
<1>3. e \div Day \in Nat /\ first.leave % Day \in Nat
  BY <1>0, <1>2, WeekAndDay, DivMod
<1>4. (e \div Day) * Day \in Nat
  BY <1>3, WeekAndDay, Product
<1>5. (e \div Day) * Day + (first.leave % Day) \in Nat
  BY <1>3, <1>4
<1>. QED  BY <1>2, <1>5 DEF e, SeriesLeave

----------------------------------------------------------------------------
(* Type correctness.                                                       *)

\* A handler that serves a request has its job, and a row to insert has no id.
JobsFit ==
  \A h \in Handlers :
    /\ pc[h] # "idle" => job[h] \in Job
    /\ job[h].op \in {"create", "series"} => job[h].first.id = NoId

TypeInv == TypeOK /\ JobsFit

\* The row a busy handler checks and writes is a row: of its request it has
\* all but the time.
LEMMA BookingIsRow ==
  ASSUME TypeInv, NEW h \in Handlers, pc[h] # "idle"
  PROVE  /\ Booking(job[h]) \in Row
         /\ Booking(job[h]).id = job[h].first.id
         /\ Booking(job[h]).user = job[h].first.user
         /\ Booking(job[h]).space = job[h].first.space
         /\ Booking(job[h]).calDav = job[h].first.calDav
<1>. DEFINE j == job[h]
<1>1. j \in Job
  BY DEF TypeInv, JobsFit
<1>2. j.first \in Row /\ j.made \in Nat
  BY <1>1 DEF Job
<1>3. SeriesEnter(j.first, j.made) \in Nat /\ SeriesLeave(j.first, j.made) \in Nat
  BY <1>2, SeriesTimes
<1>. QED  BY <1>2, <1>3 DEF Booking, Row

\* The service starts well formed.
LEMMA TypeInit == Init => TypeInv
<1>. SUFFICES ASSUME Init PROVE TypeInv
  OBVIOUS
<1>1. TypeOK
  BY BookingAssumption
  DEF Init, TypeOK, Steps, Answers, Event
<1>2. JobsFit
  BY DEF Init, JobsFit, NoJob
<1>. QED  BY <1>1, <1>2 DEF TypeInv

\* Answer, on its own, keeps the handlers well typed.
LEMMA AnswerType ==
  ASSUME TypeInv, NEW h \in Handlers, NEW a \in Answers, Answer(h, a)
  PROVE  /\ pc' \in [Handlers -> Steps]
         /\ job' \in [Handlers -> Job \cup {NoJob}]
         /\ answer' \in [Handlers -> Answers]
         /\ JobsFit'
  BY DEF TypeInv, TypeOK, JobsFit, Answer, Goto, Steps, NoJob

\* So does moving on to the next step.
LEMMA GotoType ==
  ASSUME TypeInv, NEW h \in Handlers, NEW step \in Steps, Goto(h, step),
         pc[h] # "idle", UNCHANGED <<job, answer>>
  PROVE  /\ pc' \in [Handlers -> Steps]
         /\ job' \in [Handlers -> Job \cup {NoJob}]
         /\ answer' \in [Handlers -> Answers]
         /\ JobsFit'
  BY DEF TypeInv, TypeOK, JobsFit, Goto

\* A request is accepted with a job that fits.
LEMMA StartType ==
  ASSUME TypeInv, NEW h \in Handlers, NEW j \in Job, NEW step \in Steps,
         j.op \in {"create", "series"} => j.first.id = NoId,
         job' = [job EXCEPT ![h] = j],
         answer' = [answer EXCEPT ![h] = "none"],
         Goto(h, step)
  PROVE  /\ pc' \in [Handlers -> Steps]
         /\ job' \in [Handlers -> Job \cup {NoJob}]
         /\ answer' \in [Handlers -> Answers]
         /\ JobsFit'
  BY DEF TypeInv, TypeOK, JobsFit, Goto, Answers

\* A goroutine starts well typed, and starting it leaves the calendar alone.
LEMMA SpawnType ==
  ASSUME TypeInv, NEW kind \in {"created", "updated", "deleted"}, NEW row \in Row,
         Spawn(kind, row)
  PROVE  /\ task' \in [Goroutines -> Tasks \cup {NoTask}]
         /\ calendar' \subseteq Event /\ nextEvent' \in 1 .. MaxEvents + 1
  BY DEF TypeInv, TypeOK, Spawn, Free, Tasks, caldav

\* The clock and the number of failures stay within their bounds.
LEMMA FaultType ==
  ASSUME TypeInv, Fault \/ UNCHANGED world
  PROVE  now' \in 0 .. MaxNow /\ faults' \in 0 .. MaxFaults
  BY BookingAssumption DEF TypeInv, TypeOK, Fault, world

\* Receiving a request keeps the state well formed.
LEMMA ReceiveType ==
  ASSUME TypeInv, NEW h \in Handlers, Receive(h)
  PROVE  TypeInv'
<1>1. CASE ReceiveCreate(h)
  <2>1. PICK by \in users, for \in Users, space \in Spaces, w \in Windows,
             until \in Untils \cup {0} :
          ReceiveCreate(h)!(by, for, space, w, until)
    BY <1>1 DEF ReceiveCreate
  <2>. DEFINE row == [id |-> NoId, user |-> for, space |-> space,
                      enter |-> w.enter, leave |-> w.leave, calDav |-> NoId]
              j == [op |-> IF until = 0 THEN "create" ELSE "series",
                    by |-> by, first |-> row, until |-> until, made |-> 0]
  <2>2. row \in Row
    BY BookingAssumption DEF Row, Ranges, NoId
  <2>3. j \in Job /\ j.first.id = NoId
    BY <2>2 DEF Job, Ops, TypeInv, TypeOK
  <2>4. /\ pc' \in [Handlers -> Steps]
        /\ job' \in [Handlers -> Job \cup {NoJob}]
        /\ answer' \in [Handlers -> Answers]
        /\ JobsFit'
    <3>1. CASE for # by /\ by \notin SpaceAdmins
      BY <2>1, <3>1, AnswerType DEF Answers
    <3>2. CASE ~(for # by /\ by \notin SpaceAdmins)
      <4>. HIDE DEF j
      <4>1. (IF for = by THEN "checkRequest" ELSE "bookForUser") \in Steps
        BY DEF Steps
      <4>. QED  BY <2>1, <2>3, <3>2, <4>1, StartType DEF j
    <3>. QED  BY <3>1, <3>2
  <2>. QED  BY <2>1, <2>4 DEF TypeInv, TypeOK, tables, caldav, world, history, Live
<1>2. CASE ReceiveUpdate(h)
  <2>1. PICK by \in users, i \in Ids, for \in Users \cup {Nil}, space \in Spaces, w \in Windows :
          ReceiveUpdate(h)!(by, i, for, space, w)
    BY <1>2 DEF ReceiveUpdate
  <2>. DEFINE other == for \notin {Nil, by}
              row == [id |-> i, user |-> IF other THEN for ELSE bookings[i].user,
                      space |-> space, enter |-> w.enter, leave |-> w.leave,
                      calDav |-> bookings[i].calDav]
              j == [op |-> "update", by |-> by, first |-> row, until |-> 0, made |-> 0]
              refused == \/ i \notin Live
                         \/ by \notin SpaceAdmins /\ (bookings[i].user # by \/ other)
  <2>2. ASSUME i \in Live PROVE j \in Job
    <3>1. bookings[i] \in Row
      BY <2>2 DEF Live, TypeInv, TypeOK
    <3>2. row \in Row
      BY <3>1, BookingAssumption DEF Row, Ranges
    <3>. QED  BY <3>2 DEF Job, Ops, TypeInv, TypeOK
  <2>3. /\ pc' \in [Handlers -> Steps]
        /\ job' \in [Handlers -> Job \cup {NoJob}]
        /\ answer' \in [Handlers -> Answers]
        /\ JobsFit'
    <3>1. CASE refused
      BY <2>1, <3>1, AnswerType DEF Answers
    <3>2. CASE ~refused
      <4>1. (IF other THEN "bookForUser" ELSE "checkRequest") \in Steps
        BY DEF Steps
      <4>2. j \in Job /\ j.op = "update"
        BY <2>2, <3>2
      <4>3. /\ job' = [job EXCEPT ![h] = j]
            /\ answer' = [answer EXCEPT ![h] = "none"]
            /\ Goto(h, IF other THEN "bookForUser" ELSE "checkRequest")
        BY <2>1, <3>2
      <4>. HIDE DEF j, other
      <4>. QED  BY <4>1, <4>2, <4>3, StartType
    <3>. QED  BY <3>1, <3>2
  <2>. QED  BY <2>1, <2>3 DEF TypeInv, TypeOK, tables, caldav, world, history, Live
<1>3. CASE ReceiveDelete(h)
  <2>1. PICK by \in users, i \in Ids : ReceiveDelete(h)!(by, i)
    BY <1>3 DEF ReceiveDelete
  <2>. DEFINE j == [op |-> "delete", by |-> by, first |-> bookings[i], until |-> 0, made |-> 0]
              refused == \/ i \notin Live
                         \/ bookings[i].user # by /\ by \notin SpaceAdmins
                         \/ ~isValidBookingHoursBeforeDelete(bookings[i].enter, by, now)
  <2>2. /\ pc' \in [Handlers -> Steps]
        /\ job' \in [Handlers -> Job \cup {NoJob}]
        /\ answer' \in [Handlers -> Answers]
        /\ JobsFit'
        /\ task' \in [Goroutines -> Tasks \cup {NoTask}]
        /\ calendar' \subseteq Event /\ nextEvent' \in 1 .. MaxEvents + 1
    <3>1. CASE refused
      BY <2>1, <3>1, AnswerType DEF Answers, caldav, TypeInv, TypeOK
    <3>2. CASE ~refused
      <4>1. bookings[i] \in Row
        BY <3>2 DEF Live, TypeInv, TypeOK
      <4>2. j \in Job /\ j.op = "delete"
        BY <4>1 DEF Job, Ops, TypeInv, TypeOK
      <4>3. /\ job' = [job EXCEPT ![h] = j]
            /\ answer' = [answer EXCEPT ![h] = "none"]
            /\ Goto(h, "deleteRow") /\ Spawn("deleted", bookings[i])
        BY <2>1, <3>2
      <4>. HIDE DEF j
      <4>. QED  BY <4>1, <4>2, <4>3, StartType, SpawnType DEF Steps
    <3>. QED  BY <3>1, <3>2
  <2>. QED  BY <2>1, <2>2 DEF TypeInv, TypeOK, tables, world, history, Live
<1>. QED  BY <1>1, <1>2, <1>3 DEF Receive

\* The statements up to the conflict check keep the state well formed.
LEMMA CheckType ==
  ASSUME TypeInv, NEW h \in Handlers,
         \/ BookForUser(h) \/ CountUsers(h) \/ CreateUser(h)
         \/ CheckRequest(h) \/ CheckUpcoming(h) \/ CheckLocation(h) \/ CheckConflicts(h)
  PROVE  TypeInv'
<1>1. /\ pc' \in [Handlers -> Steps]
      /\ job' \in [Handlers -> Job \cup {NoJob}]
      /\ answer' \in [Handlers -> Answers]
      /\ JobsFit'
  <2>1. CASE \E a \in Answers : Answer(h, a)
    BY <2>1, AnswerType
  <2>2. CASE /\ \E step \in Steps : Goto(h, step)
             /\ pc[h] # "idle" /\ UNCHANGED <<job, answer>>
    BY <2>2, GotoType
  <2>. QED
    BY <2>1, <2>2
    DEF BookForUser, CountUsers, CreateUser, CheckRequest, CheckUpcoming, CheckLocation,
        CheckConflicts, Refuse, Steps, Answers
<1>2. /\ now' \in 0 .. MaxNow /\ faults' \in 0 .. MaxFaults
  <2>1. Fault \/ UNCHANGED world
    BY DEF BookForUser, CountUsers, CreateUser, CheckRequest, CheckUpcoming, CheckLocation,
           CheckConflicts, Refuse
  <2>. QED  BY <2>1, FaultType
<1>3. users' \subseteq Users
  <2>1. CASE CreateUser(h)
    <3>1. job[h] \in Job
      BY <2>1 DEF CreateUser, TypeInv, JobsFit
    <3>2. job[h].first.user \in Users
      BY <3>1 DEF Job, Row
    <3>. QED  BY <2>1, <3>2 DEF CreateUser, TypeInv, TypeOK
  <2>2. CASE ~CreateUser(h)
    BY <2>2 DEF BookForUser, CountUsers, CheckRequest, CheckUpcoming, CheckLocation,
                CheckConflicts, tables, TypeInv, TypeOK
  <2>. QED  BY <2>1, <2>2
<1>4. UNCHANGED <<bookings, nextId, caldav, history>>
  BY DEF BookForUser, CountUsers, CreateUser, CheckRequest, CheckUpcoming, CheckLocation,
         CheckConflicts, tables
<1>. QED
  BY <1>1, <1>2, <1>3, <1>4 DEF TypeInv, TypeOK, caldav, history

\* So do the statements that write bookings, or fail to.
LEMMA WriteType ==
  ASSUME TypeInv, NEW h \in Handlers,
         Insert(h) \/ FinishSeries(h) \/ Update(h) \/ FailWrite(h) \/ Delete(h)
  PROVE  TypeInv'
<1>. DEFINE j == job[h]
<1>0. j \in Job /\ j.first \in Row /\ Booking(j) \in Row
  <2>1. pc[h] # "idle"
    BY DEF Insert, FinishSeries, Update, FailWrite, Delete
  <2>. QED  BY <2>1, BookingIsRow DEF TypeInv, JobsFit, Job
<1>1. CASE Insert(h)
  <2>. DEFINE row == [Booking(j) EXCEPT !.id = nextId]
  <2>1. row \in Row
    BY <1>0, <1>1 DEF Row, Insert
  <2>2. bookings' \in [Ids -> Row \cup {Blank}] /\ nextId' \in 1 .. MaxBookings + 1
    <3>1. bookings' = [bookings EXCEPT ![nextId] = row] /\ nextId \in Ids /\ nextId' = nextId + 1
      BY <1>1 DEF Insert
    <3>. HIDE DEF row
    <3>. QED  BY <3>1, <2>1, BookingAssumption DEF TypeInv, TypeOK, Ids
  <2>3. /\ pc' \in [Handlers -> Steps]
        /\ job' \in [Handlers -> Job \cup {NoJob}]
        /\ answer' \in [Handlers -> Answers]
        /\ JobsFit'
        /\ task' \in [Goroutines -> Tasks \cup {NoTask}]
        /\ calendar' \subseteq Event /\ nextEvent' \in 1 .. MaxEvents + 1
    <3>1. CASE j.op = "series"
      <4>1. [j EXCEPT !.made = @ + 1] \in Job
        BY <1>0 DEF Job
      <4>2. job' = [job EXCEPT ![h] = [j EXCEPT !.made = @ + 1]]
        BY <1>1, <3>1 DEF Insert
      <4>3. [j EXCEPT !.made = @ + 1].first = j.first /\ [j EXCEPT !.made = @ + 1].op = j.op
        BY <1>0 DEF Job
      <4>4. pc[h] = "write" /\ pc' = [pc EXCEPT ![h] = "checkRequest"]
            /\ UNCHANGED <<answer, caldav>>
        BY <1>1, <3>1 DEF Insert, Goto
      <4>5. pc' \in [Handlers -> Steps] /\ job' \in [Handlers -> Job \cup {NoJob}]
        BY <4>1, <4>2, <4>4 DEF Steps, TypeInv, TypeOK
      <4>6. JobsFit'
        BY <4>1, <4>2, <4>3, <4>4 DEF JobsFit, TypeInv, TypeOK
      <4>. QED  BY <4>4, <4>5, <4>6 DEF TypeInv, TypeOK, caldav
    <3>2. CASE j.op # "series"
      BY <1>1, <3>2, <2>1, AnswerType, SpawnType DEF Insert, Answers
    <3>. QED  BY <3>1, <3>2
  <2>. QED
    BY <1>1, <2>2, <2>3 DEF Insert, Overtake, WrittenBy, TypeInv, TypeOK, world
<1>2. CASE FinishSeries(h)
  <2>1. Answer(h, "created") /\ Spawn("created", j.first)
    BY <1>2 DEF FinishSeries
  <2>2. UNCHANGED <<tables, world, history>>
    BY <1>2 DEF FinishSeries
  <2>. HIDE DEF j
  <2>. QED
    BY <1>0, <2>1, <2>2, AnswerType, SpawnType
    DEF Answers, TypeInv, TypeOK, tables, world, history
<1>3. CASE Update(h)
  <2>1. Answer(h, "updated") /\ Spawn("updated", j.first)
    BY <1>3 DEF Update
  <2>2. bookings' \in [Ids -> Row \cup {Blank}]
    BY <1>0, <1>3 DEF Update, Stored, Live, TypeInv, TypeOK
  <2>3. late' \subseteq Ids /\ overtaken' \subseteq Handlers
    BY <1>0, <1>3 DEF Update, WrittenBy, Overtake, Live, TypeInv, TypeOK
  <2>4. UNCHANGED <<nextId, users, world>>
    BY <1>3 DEF Update
  <2>. HIDE DEF j
  <2>. QED
    BY <1>0, <2>1, <2>2, <2>3, <2>4, AnswerType, SpawnType DEF Answers, TypeInv, TypeOK, world
<1>4. CASE FailWrite(h)
  <2>1. Answer(h, "error") /\ (Fault \/ UNCHANGED world)
    BY <1>4 DEF FailWrite
  <2>2. overtaken' \subseteq Handlers /\ UNCHANGED <<tables, caldav, late>>
    BY <1>4 DEF FailWrite, TypeInv, TypeOK
  <2>. QED
    BY <2>1, <2>2, AnswerType, FaultType DEF Answers, TypeInv, TypeOK, tables, caldav
<1>5. CASE Delete(h)
  <2>1. (\E a \in Answers : Answer(h, a)) /\ (Fault \/ UNCHANGED world)
    BY <1>5 DEF Delete, Answers
  <2>2. bookings' \in [Ids -> Row \cup {Blank}] /\ late' \subseteq Ids
    BY <1>5 DEF Delete, TypeInv, TypeOK
  <2>3. UNCHANGED <<nextId, users, caldav, overtaken>>
    BY <1>5 DEF Delete
  <2>. QED
    BY <2>1, <2>2, <2>3, AnswerType, FaultType DEF TypeInv, TypeOK, caldav
<1>. QED  BY <1>1, <1>2, <1>3, <1>4, <1>5

\* So do the steps of the calendar goroutines.
LEMMA MirrorType ==
  ASSUME TypeInv, NEW g \in Goroutines, Mirror(g)
  PROVE  TypeInv'
<1>. DEFINE row == task[g].row
<1>0. task[g] \in Tasks /\ row \in Row
  BY DEF Mirror, SendEvent, SaveEvent, RemoveEvent, NoTask, TypeInv, TypeOK, Tasks
<1>1. CASE SendEvent(g)
  <2>. DEFINE id == IF row.calDav = NoId THEN nextEvent ELSE row.calDav
  <2>1. id \in Nat \ {0} /\ nextEvent \in 1 .. MaxEvents + 1
    BY <1>0, BookingAssumption DEF Row, NoId, TypeInv, TypeOK
  <2>2. /\ task' \in [Goroutines -> Tasks \cup {NoTask}]
        /\ calendar' \subseteq Event /\ nextEvent' \in 1 .. MaxEvents + 1
        /\ Fault \/ UNCHANGED world
    <3>1. CASE id > MaxEvents
      BY <1>0, <1>1, <3>1 DEF SendEvent, Done, TypeInv, TypeOK
    <3>2. CASE ~(id > MaxEvents)
      <4>1. id \in 1 .. MaxEvents
        BY <2>1, <3>2, BookingAssumption
      <4>2. WithEvent(row, id) \subseteq Event
        BY <1>0, <4>1 DEF WithEvent, Event, Row, TypeInv, TypeOK
      <4>. DEFINE saving == [kind |-> task[g].kind, stage |-> "save",
                             row |-> [row EXCEPT !.calDav = id]]
      <4>3. saving \in Tasks
        <5>1. [row EXCEPT !.calDav = id] \in Row
          BY <1>0, <4>1 DEF Row
        <5>. QED  BY <1>0, <5>1 DEF Tasks
      <4>4. nextEvent' \in 1 .. MaxEvents + 1
        BY <1>1, <3>2, <2>1, BookingAssumption DEF SendEvent, NoId
      <4>5. /\ calendar' = WithEvent(row, id) \/ calendar' = calendar
            /\ \/ Done(g)
               \/ task' = [task EXCEPT ![g] = saving]
            /\ Fault \/ UNCHANGED world
        BY <1>1, <3>2 DEF SendEvent
      <4>. HIDE DEF id, row, saving
      <4>6. calendar' \subseteq Event
        BY <4>2, <4>5 DEF TypeInv, TypeOK
      <4>7. task' \in [Goroutines -> Tasks \cup {NoTask}]
        BY <4>3, <4>5 DEF Done, TypeInv, TypeOK
      <4>. QED  BY <4>4, <4>5, <4>6, <4>7
    <3>. QED  BY <3>1, <3>2
  <2>3. UNCHANGED <<tables, handlers, history>>
    BY <1>1 DEF SendEvent
  <2>. QED
    BY <2>2, <2>3, FaultType
    DEF TypeInv, TypeOK, JobsFit, tables, handlers, history
<1>2. CASE SaveEvent(g)
  <2>1. bookings' \in [Ids -> Row \cup {Blank}]
    BY <1>0, <1>2 DEF SaveEvent, Stored, Live, TypeInv, TypeOK
  <2>2. late' \subseteq Ids /\ overtaken' \subseteq Handlers
    BY <1>0, <1>2 DEF SaveEvent, Overtake, Live, history, TypeInv, TypeOK
  <2>3. task' \in [Goroutines -> Tasks \cup {NoTask}] /\ (Fault \/ UNCHANGED world)
    BY <1>2 DEF SaveEvent, Done, TypeInv, TypeOK
  <2>4. UNCHANGED <<nextId, users, handlers, calendar, nextEvent>>
    BY <1>2 DEF SaveEvent
  <2>. QED
    BY <2>1, <2>2, <2>3, <2>4, FaultType DEF TypeInv, TypeOK, JobsFit, handlers
<1>3. CASE RemoveEvent(g)
  <2>1. calendar' \subseteq Event /\ (Fault \/ UNCHANGED world)
    BY <1>3 DEF RemoveEvent, TypeInv, TypeOK
  <2>2. task' \in [Goroutines -> Tasks \cup {NoTask}]
    BY <1>3 DEF RemoveEvent, Done, TypeInv, TypeOK
  <2>3. UNCHANGED <<tables, handlers, nextEvent, history>>
    BY <1>3 DEF RemoveEvent
  <2>. QED
    BY <2>1, <2>2, <2>3, FaultType DEF TypeInv, TypeOK, JobsFit, tables, handlers, history
<1>. QED  BY <1>1, <1>2, <1>3 DEF Mirror

\* So does every step.
LEMMA TypeStep == TypeInv /\ [Next]_vars => TypeInv'
<1>. SUFFICES ASSUME TypeInv, [Next]_vars PROVE TypeInv'
  OBVIOUS
<1>1. ASSUME NEW h \in Handlers, Receive(h) \/ Serve(h) PROVE TypeInv'
  BY <1>1, ReceiveType, CheckType, WriteType DEF Serve
<1>2. ASSUME NEW g \in Goroutines, Mirror(g) PROVE TypeInv'
  BY <1>2, MirrorType
<1>3. CASE Crash
  <2>1. JobsFit'
    BY <1>3 DEF Crash, JobsFit, NoJob
  <2>2. now' \in 0 .. MaxNow /\ faults' \in 0 .. MaxFaults
    BY <1>3, FaultType DEF Crash
  <2>. QED
    BY <1>3, <2>1, <2>2 DEF Crash, TypeInv, TypeOK, tables, Steps, Answers
<1>4. CASE Tick
  BY <1>4, BookingAssumption
  DEF Tick, TypeInv, TypeOK, JobsFit, tables, handlers, caldav, history
<1>5. CASE UNCHANGED vars
  BY <1>5 DEF vars, TypeInv, TypeOK, JobsFit, tables, handlers, caldav, world, history
<1>. QED  BY <1>1, <1>2, <1>3, <1>4, <1>5 DEF Next

\* TypeInv, which is inductive, holds throughout.
LEMMA TypeInvariance == Spec => []TypeInv
  BY TypeInit, TypeStep, PTL DEF Spec

\* Whatever requests, goroutines, failures and crashes interleave, the tables
\* and the state of every handler and goroutine stay well formed.
THEOREM TypeCorrect == Spec => []TypeOK
<1>1. TypeInv => TypeOK
  BY DEF TypeInv
<1>. QED  BY <1>1, TypeInvariance, PTL

----------------------------------------------------------------------------
(* Double bookings come from races only.                                   *)

\* GetConflicts' clauses do not care which of the two ranges is the row.
LEMMA ConflictSymmetric ==
  ASSUME NEW a, NEW b
  PROVE  InConflict(a, b.enter, b.leave) <=> InConflict(b, a.enter, a.leave)
  BY DEF InConflict

\* What a handler found by GetConflicts still holds when it writes, unless it
\* was overtaken.
ChecksHold ==
  \A h \in Handlers :
    pc[h] = "write" /\ h \notin overtaken => GetConflicts(Booking(job[h])) = {}

RaceInv == DoubleBookingIsARace /\ ChecksHold

\* There is no booking to start with.
LEMMA RaceInit == Init => RaceInv
  BY DEF Init, RaceInv, DoubleBookingIsARace, ChecksHold, Live

\* A step that adds no booking, moves none, and leaves alone the handlers about
\* to write.
LEMMA QuietStep ==
  ASSUME RaceInv, UNCHANGED <<bookings, late, overtaken>>,
         \A h \in Handlers : pc'[h] = "write" => pc[h] = "write" /\ job'[h] = job[h]
  PROVE  RaceInv'
<1>1. Live' = Live
  BY DEF Live
<1>2. DoubleBookingIsARace'
  BY <1>1 DEF RaceInv, DoubleBookingIsARace, Conflicting
<1>3. ChecksHold'
  BY <1>1 DEF RaceInv, ChecksHold, GetConflicts, Booking
<1>. QED  BY <1>2, <1>3 DEF RaceInv

\* Every other handler about to write is overtaken by a write.
LEMMA Overtaken ==
  ASSUME NEW S, Overtake(S), NEW k \in Handlers, k \notin S, pc[k] = "write"
  PROVE  k \in overtaken'
  BY DEF Overtake

\* A row is written by handler h, found free of conflicts unless h was
\* overtaken; every other handler about to write is overtaken by it.
LEMMA CheckedWrite ==
  ASSUME TypeInv, RaceInv, NEW h \in Handlers, NEW i \in Ids, NEW row \in Row, NEW b,
         b.space = row.space, b.enter = row.enter, b.leave = row.leave,
         b.id \in {NoId, i},
         h \notin overtaken => GetConflicts(b) = {},
         bookings' = [bookings EXCEPT ![i] = row],
         Overtake({h}), WrittenBy(h, i),
         pc'[h] # "write",
         \A k \in Handlers \ {h} : pc'[k] = pc[k]
  PROVE  RaceInv'
<1>1. row # Blank
  BY BookingAssumption DEF Row, Blank
<1>2. Live' = Live \cup {i} /\ bookings'[i] = row /\ \A k \in Ids \ {i} : bookings'[k] = bookings[k]
  BY <1>1 DEF Live, TypeInv, TypeOK
<1>3. ASSUME NEW k \in Live \ {i}, h \notin overtaken
      PROVE  ~Conflicting(i, k)' /\ ~Conflicting(k, i)'
  <2>1. k \in Live \ {b.id}
    BY <1>3 DEF NoId, Live, Ids
  <2>2. ~(bookings[k].space = row.space /\ InConflict(bookings[k], row.enter, row.leave))
    BY <1>3, <2>1 DEF GetConflicts
  <2>3. bookings'[k] = bookings[k]
    BY <1>2 DEF Live
  <2>. QED  BY <1>2, <2>2, <2>3, ConflictSymmetric DEF Conflicting
<1>4. DoubleBookingIsARace'
  <2>. SUFFICES ASSUME NEW k \in Live', NEW m \in Live', Conflicting(k, m)'
                PROVE  k \in late' \/ m \in late'
    BY DEF DoubleBookingIsARace
  <2>1. CASE k # i /\ m # i
    <3>1. k \in Live /\ m \in Live /\ Conflicting(k, m)
      BY <1>2, <2>1 DEF Conflicting, Live
    <3>2. k \in late \/ m \in late
      BY <3>1 DEF RaceInv, DoubleBookingIsARace
    <3>. QED  BY <2>1, <3>2 DEF WrittenBy
  <2>2. CASE (k = i \/ m = i) /\ h \notin overtaken
    <3>1. k # m
      BY DEF Conflicting
    <3>. QED  BY <1>2, <1>3, <2>2, <3>1
  <2>3. CASE (k = i \/ m = i) /\ h \in overtaken
    BY <2>3 DEF WrittenBy
  <2>. QED  BY <2>1, <2>2, <2>3
<1>5. ChecksHold'
  <2>1. ASSUME NEW k \in Handlers, pc'[k] = "write" PROVE k \in overtaken'
    <3>1. k # h /\ pc[k] = "write"
      BY <2>1
    <3>. QED  BY <3>1, Overtaken
  <2>. QED  BY <2>1 DEF ChecksHold
<1>. QED  BY <1>4, <1>5 DEF RaceInv

\* No step of a handler breaks RaceInv.
LEMMA RaceServe ==
  ASSUME TypeInv, RaceInv, NEW h \in Handlers, Receive(h) \/ Serve(h)
  PROVE  RaceInv'
<1>. DEFINE j == job[h]
<1>1. CASE \/ Receive(h) \/ BookForUser(h) \/ CountUsers(h) \/ CreateUser(h)
           \/ CheckRequest(h) \/ CheckUpcoming(h) \/ CheckLocation(h) \/ FinishSeries(h)
  <2>1. UNCHANGED <<bookings, late, overtaken>>
    BY <1>1 DEF Receive, ReceiveCreate, ReceiveUpdate, ReceiveDelete, BookForUser, CountUsers,
                CreateUser, CheckRequest, CheckUpcoming, CheckLocation, FinishSeries,
                tables, history
  <2>2. /\ \E step \in Steps \ {"write"} : Goto(h, step)
        /\ \E x : job' = [job EXCEPT ![h] = x]
    <3>1. CASE \E a : Answer(h, a)
      BY <3>1 DEF Answer, Steps
    <3>2. CASE (\E step \in Steps \ {"write"} : Goto(h, step)) /\ job' = job
      BY <3>2 DEF TypeInv, TypeOK
    <3>3. CASE Receive(h)
      <4>1. CASE ReceiveCreate(h)
        BY <4>1, <3>1 DEF ReceiveCreate, Steps
      <4>2. CASE ReceiveUpdate(h)
        BY <4>2, <3>1 DEF ReceiveUpdate, Steps
      <4>3. CASE ReceiveDelete(h)
        BY <4>3, <3>1 DEF ReceiveDelete, Steps
      <4>. QED  BY <3>3, <4>1, <4>2, <4>3 DEF Receive
    <3>. QED
      BY <1>1, <3>1, <3>2, <3>3
      DEF BookForUser, CountUsers, CreateUser, CheckRequest, CheckUpcoming, CheckLocation,
          FinishSeries, Refuse, Steps
  <2>3. \A k \in Handlers : pc'[k] = "write" => pc[k] = "write" /\ job'[k] = job[k]
    BY <2>2 DEF Goto, TypeInv, TypeOK
  <2>. QED  BY <2>1, <2>3, QuietStep
<1>2. CASE CheckConflicts(h)
  <2>1. CASE GetConflicts(Booking(j)) = {} /\ Goto(h, "write") /\ UNCHANGED job
    <3>1. UNCHANGED <<bookings, late, overtaken>>
      BY <1>2 DEF CheckConflicts, tables, history
    <3>2. Live' = Live
      BY <3>1 DEF Live
    <3>3. DoubleBookingIsARace'
      BY <3>1, <3>2 DEF RaceInv, DoubleBookingIsARace, Conflicting
    <3>4. ASSUME NEW k \in Handlers, pc'[k] = "write", k \notin overtaken'
          PROVE  GetConflicts(Booking(job[k]))' = {}
      <4>1. GetConflicts(Booking(job[k])) = {}
        BY <2>1, <3>1, <3>4 DEF Goto, RaceInv, ChecksHold, TypeInv, TypeOK
      <4>2. job'[k] = job[k]
        BY <2>1
      <4>. QED  BY <3>1, <3>2, <4>1, <4>2 DEF GetConflicts, Booking
    <3>. QED  BY <3>3, <3>4 DEF RaceInv, ChecksHold
  <2>2. CASE \E a \in {"refused", "error"} : Answer(h, a)
    <3>1. UNCHANGED <<bookings, late, overtaken>>
      BY <1>2 DEF CheckConflicts, tables, history
    <3>2. \A k \in Handlers : pc'[k] = "write" => pc[k] = "write" /\ job'[k] = job[k]
      BY <2>2 DEF Answer, Goto, TypeInv, TypeOK
    <3>. QED  BY <3>1, <3>2, QuietStep
  <2>. QED  BY <1>2, <2>1, <2>2 DEF CheckConflicts, Refuse
<1>3. CASE Insert(h)
  <2>. DEFINE b == Booking(j)
              row == [b EXCEPT !.id = nextId]
  <2>1. pc[h] = "write" /\ b \in Row /\ b.id = NoId
    BY <1>3, BookingIsRow DEF Insert, TypeInv, JobsFit
  <2>2. row \in Row /\ b.space = row.space /\ b.enter = row.enter /\ b.leave = row.leave
    BY <1>3, <2>1 DEF Insert, Row
  <2>3. h \notin overtaken => GetConflicts(b) = {}
    BY <2>1 DEF RaceInv, ChecksHold
  <2>4. /\ nextId \in Ids /\ bookings' = [bookings EXCEPT ![nextId] = row]
        /\ Overtake({h}) /\ WrittenBy(h, nextId)
    BY <1>3 DEF Insert
  <2>5. \E step \in Steps \ {"write"} : Goto(h, step)
    BY <1>3 DEF Insert, Answer, Steps
  <2>6. pc'[h] # "write" /\ \A k \in Handlers \ {h} : pc'[k] = pc[k]
    BY <2>5 DEF Goto, TypeInv, TypeOK
  <2>. HIDE DEF b, row
  <2>. QED  BY <2>1, <2>2, <2>3, <2>4, <2>6, CheckedWrite
<1>4. CASE Update(h)
  <2>. DEFINE row == j.first
  <2>1. pc[h] = "write" /\ row \in Row /\ Booking(j) = row
    BY <1>4 DEF Update, Booking, TypeInv, JobsFit, Job
  <2>2. h \notin overtaken => GetConflicts(row) = {}
    BY <2>1 DEF RaceInv, ChecksHold
  <2>3. pc'[h] # "write" /\ \A k \in Handlers \ {h} : pc'[k] = pc[k] /\ job'[k] = job[k]
    BY <1>4 DEF Update, Answer, Goto, TypeInv, TypeOK
  <2>4. CASE row.id \in Live
    <3>1. /\ row.id \in Ids /\ bookings' = [bookings EXCEPT ![row.id] = row]
          /\ Overtake({h}) /\ WrittenBy(h, row.id)
      BY <1>4, <2>4 DEF Update, Stored, Live
    <3>. HIDE DEF row
    <3>. QED  BY <2>1, <2>2, <2>3, <3>1, CheckedWrite
  <2>5. CASE row.id \notin Live
    <3>1. bookings' = bookings /\ late' = late /\ overtaken' = overtaken \ {h}
      BY <1>4, <2>5 DEF Update, Stored
    <3>2. Live' = Live
      BY <3>1 DEF Live
    <3>3. DoubleBookingIsARace'
      BY <3>1, <3>2 DEF RaceInv, DoubleBookingIsARace, Conflicting
    <3>4. ASSUME NEW k \in Handlers, pc'[k] = "write", k \notin overtaken'
          PROVE  GetConflicts(Booking(job[k]))' = {}
      <4>1. k # h /\ GetConflicts(Booking(job[k])) = {} /\ job'[k] = job[k]
        BY <2>3, <3>1, <3>4 DEF RaceInv, ChecksHold
      <4>. QED  BY <3>1, <3>2, <4>1 DEF GetConflicts, Booking
    <3>. QED  BY <3>3, <3>4 DEF RaceInv, ChecksHold
  <2>. QED  BY <2>4, <2>5
<1>5. CASE FailWrite(h) \/ Delete(h)
  <2>1. /\ \A k \in Handlers : pc'[k] = "write" => k # h /\ pc[k] = "write" /\ job'[k] = job[k]
        /\ overtaken \ {h} \subseteq overtaken'
    BY <1>5 DEF FailWrite, Delete, Answer, Goto, TypeInv, TypeOK
  <2>2. \/ bookings' = bookings /\ late' = late
        \/ \E i : bookings' = [bookings EXCEPT ![i] = Blank] /\ late' = late \ {i}
    BY <1>5 DEF FailWrite, Delete, tables
  <2>3. /\ Live' \subseteq Live
        /\ \A i \in Live' : bookings'[i] = bookings[i] /\ (i \in late => i \in late')
    BY <2>2 DEF Live, TypeInv, TypeOK
  <2>4. DoubleBookingIsARace'
    BY <2>3 DEF RaceInv, DoubleBookingIsARace, Conflicting
  <2>5. ASSUME NEW k \in Handlers, pc'[k] = "write", k \notin overtaken'
        PROVE  GetConflicts(Booking(job[k]))' = {}
    <3>1. GetConflicts(Booking(job[k])) = {} /\ job'[k] = job[k]
      BY <2>1, <2>5 DEF RaceInv, ChecksHold
    <3>. QED  BY <2>3, <3>1 DEF GetConflicts, Booking
  <2>. QED  BY <2>4, <2>5 DEF RaceInv, ChecksHold
<1>. QED  BY <1>1, <1>2, <1>3, <1>4, <1>5 DEF Serve

\* A write-back breaks it neither: what it moves it marks as late.
LEMMA RaceMirror ==
  ASSUME TypeInv, RaceInv, NEW g \in Goroutines, Mirror(g)
  PROVE  RaceInv'
<1>. DEFINE row == task[g].row
            Place(b) == <<b.space, b.enter, b.leave>>
            moved == row.id \in Live /\ Place(row) # Place(bookings[row.id])
<1>1. CASE SendEvent(g) \/ RemoveEvent(g)
  BY <1>1, QuietStep DEF SendEvent, RemoveEvent, tables, handlers, history
<1>2. CASE SaveEvent(g) /\ bookings' = bookings /\ UNCHANGED history
  BY <1>2, QuietStep DEF SaveEvent, handlers, history
<1>3. CASE SaveEvent(g) /\ bookings' = Stored(row) /\ moved /\ Overtake({})
           /\ late' = late \cup {row.id}
  <2>1. /\ Live' \subseteq Live \cup {row.id}
        /\ \A i \in Live' \ {row.id} : bookings'[i] = bookings[i]
    BY <1>3 DEF Stored, Live, TypeInv, TypeOK
  <2>2. DoubleBookingIsARace'
    BY <1>3, <2>1 DEF RaceInv, DoubleBookingIsARace, Conflicting
  <2>3. ASSUME NEW k \in Handlers, pc'[k] = "write" PROVE k \in overtaken'
    <3>1. pc[k] = "write"
      BY <1>3, <2>3 DEF SaveEvent, handlers
    <3>. QED  BY <1>3, <3>1, Overtaken
  <2>. QED  BY <2>2, <2>3 DEF RaceInv, ChecksHold
<1>4. CASE SaveEvent(g) /\ bookings' = Stored(row) /\ ~moved /\ UNCHANGED history
  <2>1. row \in Row /\ row # Blank
    BY <1>4, BookingAssumption DEF SaveEvent, NoTask, Tasks, Row, Blank, TypeInv, TypeOK
  <2>2. /\ Live' = Live
        /\ \A i \in Live : Place(bookings'[i]) = Place(bookings[i])
    BY <1>4, <2>1 DEF Stored, Live, TypeInv, TypeOK
  <2>3. \A i \in Live : /\ bookings'[i].space = bookings[i].space
                        /\ bookings'[i].enter = bookings[i].enter
                        /\ bookings'[i].leave = bookings[i].leave
    BY <2>2
  <2>4. UNCHANGED <<pc, job, late, overtaken>>
    BY <1>4 DEF SaveEvent, handlers, history
  <2>5. DoubleBookingIsARace'
    BY <2>2, <2>3, <2>4 DEF RaceInv, DoubleBookingIsARace, Conflicting, InConflict
  <2>6. ChecksHold'
    BY <2>2, <2>3, <2>4 DEF RaceInv, ChecksHold, GetConflicts, Booking, InConflict
  <2>. QED  BY <2>5, <2>6 DEF RaceInv
<1>5. CASE SaveEvent(g)
  BY <1>2, <1>3, <1>4, <1>5 DEF SaveEvent
<1>. QED  BY <1>1, <1>5 DEF Mirror

\* No step at all breaks it.
LEMMA RaceStep == TypeInv /\ RaceInv /\ [Next]_vars => RaceInv'
<1>. SUFFICES ASSUME TypeInv, RaceInv, [Next]_vars PROVE RaceInv'
  OBVIOUS
<1>1. CASE Crash
  <2>1. UNCHANGED <<bookings, late>> /\ \A k \in Handlers : pc'[k] # "write"
    BY <1>1 DEF Crash, tables
  <2>2. Live' = Live
    BY <2>1 DEF Live
  <2>. QED
    BY <2>1, <2>2 DEF RaceInv, ChecksHold, DoubleBookingIsARace, Conflicting
<1>2. CASE Tick \/ UNCHANGED vars
  BY <1>2, QuietStep DEF Tick, vars, tables, handlers, history
<1>. QED
  BY <1>1, <1>2, RaceServe, RaceMirror DEF Next

\* Two bookings of a space overlap only where one of them was written by a
\* handler overtaken between its conflict check and its write, or moved by a
\* calendar write-back: create, series, update and delete, with any number of
\* requests in flight, let no other through.
THEOREM DoubleBookingsAreRaces == Spec => []DoubleBookingIsARace
<1>1. RaceInv => DoubleBookingIsARace
  BY DEF RaceInv
<1>. QED  BY <1>1, TypeInvariance, RaceInit, RaceStep, PTL DEF Spec

----------------------------------------------------------------------------
(* One request at a time and no calendar: no double bookings at all.       *)

OneAtATime == CalDavUsers = {} /\ \A h, k \in Handlers : h = k

NothingLate ==
  late = {} /\ overtaken = {} /\ \A g \in Goroutines : task[g] = NoTask

\* With one handler and no calendar nobody is there to overtake anybody.
LEMMA NothingLateStep ==
  ASSUME OneAtATime, TypeInv, NothingLate, [Next]_vars
  PROVE  NothingLate'
<1>1. ASSUME NEW kind, NEW row, Spawn(kind, row) PROVE UNCHANGED caldav
  BY <1>1 DEF Spawn, OneAtATime
<1>2. ASSUME NEW h \in Handlers, Receive(h) \/ Serve(h) PROVE NothingLate'
  <2>1. UNCHANGED caldav
    BY <1>1, <1>2
    DEF Receive, ReceiveCreate, ReceiveUpdate, ReceiveDelete, Serve, BookForUser, CountUsers,
        CreateUser, CheckRequest, CheckUpcoming, CheckLocation, CheckConflicts, Insert,
        FinishSeries, Update, FailWrite, Delete
  <2>2. Handlers \ {h} = {}
    BY DEF OneAtATime
  <2>3. late' = {} /\ overtaken' = {}
    <3>1. CASE Insert(h)
      BY <2>2, <3>1 DEF Insert, Overtake, WrittenBy, NothingLate
    <3>2. CASE Update(h)
      BY <2>2, <3>2 DEF Update, Overtake, WrittenBy, NothingLate
    <3>3. CASE FailWrite(h) \/ Delete(h)
      BY <3>3 DEF FailWrite, Delete, NothingLate
    <3>4. CASE ~(Insert(h) \/ Update(h) \/ FailWrite(h) \/ Delete(h))
      BY <1>2, <3>4
      DEF Receive, ReceiveCreate, ReceiveUpdate, ReceiveDelete, Serve, BookForUser, CountUsers,
          CreateUser, CheckRequest, CheckUpcoming, CheckLocation, CheckConflicts, FinishSeries,
          history, NothingLate
    <3>. QED  BY <3>1, <3>2, <3>3, <3>4
  <2>. QED  BY <2>1, <2>3 DEF NothingLate, caldav
<1>3. ASSUME NEW g \in Goroutines, Mirror(g) PROVE FALSE
  BY <1>3 DEF Mirror, SendEvent, SaveEvent, RemoveEvent, NothingLate, NoTask
<1>4. CASE Crash
  BY <1>4 DEF Crash, NothingLate
<1>5. CASE Tick \/ UNCHANGED vars
  BY <1>5 DEF Tick, vars, caldav, history, NothingLate
<1>. QED  BY <1>2, <1>3, <1>4, <1>5 DEF Next

\* A service that serves one request at a time, for users without a calendar,
\* never books a space twice for the same time, whatever fails or crashes.
THEOREM NoDoubleBookingOneAtATime ==
  ASSUME OneAtATime
  PROVE  Spec => []NoDoubleBooking
<1>1. Init => NothingLate
  BY DEF Init, NothingLate
<1>2. TypeInv /\ NothingLate /\ [Next]_vars => NothingLate'
  BY NothingLateStep
<1>3. DoubleBookingIsARace /\ NothingLate => NoDoubleBooking
  BY DEF DoubleBookingIsARace, NothingLate, NoDoubleBooking
<1>. QED
  BY <1>1, <1>2, <1>3, TypeInvariance, DoubleBookingsAreRaces, PTL DEF Spec

----------------------------------------------------------------------------
(* The course of a request.                                                *)

\* What a received request starts with: the handler's first row is the one
\* asked for, an update's has the id and event of a stored row, a deletion's is
\* a stored row.
Began(h) ==
  /\ pc[h] = "idle" /\ job'[h] \in Job /\ job'[h].made = 0 /\ answer'[h] = "none"
  /\ \/ /\ job'[h].op \in {"create", "series"}
        /\ pc'[h] \in {"bookForUser", "checkRequest"}
        /\ job'[h].first.id = NoId /\ job'[h].first.calDav = NoId
        /\ job'[h].by = job'[h].first.user \/ job'[h].by \in SpaceAdmins
     \/ /\ job'[h].op = "update"
        /\ pc'[h] \in {"bookForUser", "checkRequest"}
        /\ \E i \in Live : /\ job'[h].first.id = i
                           /\ job'[h].first.calDav = bookings[i].calDav
                           /\ \/ job'[h].by \in SpaceAdmins
                              \/ job'[h].by = bookings[i].user
                                   /\ job'[h].first.user = bookings[i].user
     \/ /\ job'[h].op = "delete" /\ pc'[h] = "deleteRow"
        /\ \E i \in Live : job'[h].first = bookings[i]

GoesOn(h) ==
  /\ pc[h] \notin {"idle", "deleteRow"} /\ pc'[h] \notin {"idle", "deleteRow"}
  /\ answer'[h] = answer[h]
  /\ job'[h].op = job[h].op /\ job'[h].first = job[h].first /\ job'[h].by = job[h].by
  /\ job'[h].until = job[h].until

Ended(h) == pc'[h] = "idle" /\ job'[h] = NoJob

\* A handler touches no other handler, and a request begins, goes on or ends.
LEMMA Course ==
  ASSUME TypeInv, NEW h \in Handlers, Receive(h) \/ Serve(h)
  PROVE  /\ \A k \in Handlers \ {h} : pc'[k] = pc[k] /\ job'[k] = job[k] /\ answer'[k] = answer[k]
         /\ Began(h) \/ GoesOn(h) \/ Ended(h)
<1>. DEFINE Alone == \A k \in Handlers \ {h} :
                       pc'[k] = pc[k] /\ job'[k] = job[k] /\ answer'[k] = answer[k]
<1>0. pc \in [Handlers -> Steps] /\ job \in [Handlers -> Job \cup {NoJob}]
      /\ answer \in [Handlers -> Answers]
  BY DEF TypeInv, TypeOK
<1>1. ASSUME NEW a, Answer(h, a) PROVE Alone /\ Ended(h)
  BY <1>0, <1>1 DEF Answer, Goto, Ended
<1>2. ASSUME NEW step, Goto(h, step), step \notin {"idle", "deleteRow"},
             pc[h] \notin {"idle", "deleteRow"}, UNCHANGED <<job, answer>>
      PROVE  Alone /\ GoesOn(h)
  BY <1>0, <1>2 DEF Goto, GoesOn
<1>3. ASSUME NEW step, Goto(h, step), NEW j, job' = [job EXCEPT ![h] = j],
             answer' = [answer EXCEPT ![h] = "none"]
      PROVE  Alone /\ pc'[h] = step /\ job'[h] = j /\ answer'[h] = "none"
  BY <1>0, <1>3 DEF Goto
<1>4. CASE ReceiveCreate(h)
  <2>1. PICK by \in users, for \in Users, space \in Spaces, w \in Windows,
             until \in Untils \cup {0} :
          ReceiveCreate(h)!(by, for, space, w, until)
    BY <1>4 DEF ReceiveCreate
  <2>. DEFINE row == [id |-> NoId, user |-> for, space |-> space,
                      enter |-> w.enter, leave |-> w.leave, calDav |-> NoId]
              j == [op |-> IF until = 0 THEN "create" ELSE "series",
                    by |-> by, first |-> row, until |-> until, made |-> 0]
              next == IF for = by THEN "checkRequest" ELSE "bookForUser"
  <2>2. CASE for # by /\ by \notin SpaceAdmins
    BY <1>1, <2>1, <2>2
  <2>3. CASE ~(for # by /\ by \notin SpaceAdmins)
    <3>1. row \in Row
      BY BookingAssumption DEF Row, Ranges, NoId
    <3>2. j \in Job
      BY <3>1 DEF Job, Ops, TypeInv, TypeOK
    <3>3. pc[h] = "idle" /\ job' = [job EXCEPT ![h] = j] /\ Goto(h, next)
          /\ answer' = [answer EXCEPT ![h] = "none"]
      BY <2>1, <2>3
    <3>4. /\ j.op \in {"create", "series"} /\ j.made = 0
          /\ j.first.id = NoId /\ j.first.calDav = NoId
          /\ j.by = j.first.user \/ j.by \in SpaceAdmins
          /\ next \in {"bookForUser", "checkRequest"}
      BY <2>3
    <3>. HIDE DEF j, next
    <3>5. Alone /\ pc'[h] = next /\ job'[h] = j /\ answer'[h] = "none"
      BY <1>3, <3>3
    <3>. QED  BY <3>2, <3>3, <3>4, <3>5 DEF Began
  <2>. QED  BY <2>2, <2>3
<1>5. CASE ReceiveUpdate(h)
  <2>1. PICK by \in users, i \in Ids, for \in Users \cup {Nil}, space \in Spaces, w \in Windows :
          ReceiveUpdate(h)!(by, i, for, space, w)
    BY <1>5 DEF ReceiveUpdate
  <2>. DEFINE other == for \notin {Nil, by}
              row == [id |-> i, user |-> IF other THEN for ELSE bookings[i].user,
                      space |-> space, enter |-> w.enter, leave |-> w.leave,
                      calDav |-> bookings[i].calDav]
              j == [op |-> "update", by |-> by, first |-> row, until |-> 0, made |-> 0]
              next == IF other THEN "bookForUser" ELSE "checkRequest"
              refused == \/ i \notin Live
                         \/ by \notin SpaceAdmins /\ (bookings[i].user # by \/ other)
  <2>2. CASE refused
    BY <1>1, <2>1, <2>2
  <2>3. CASE ~refused
    <3>1. bookings[i] \in Row
      BY <2>3 DEF Live, TypeInv, TypeOK
    <3>2. j \in Job
      <4>1. row \in Row
        BY <3>1, BookingAssumption DEF Row, Ranges
      <4>. QED  BY <4>1 DEF Job, Ops, TypeInv, TypeOK
    <3>3. pc[h] = "idle" /\ job' = [job EXCEPT ![h] = j] /\ Goto(h, next)
          /\ answer' = [answer EXCEPT ![h] = "none"]
      BY <2>1, <2>3
    <3>4. /\ j.op = "update" /\ j.made = 0 /\ next \in {"bookForUser", "checkRequest"}
          /\ i \in Live /\ j.first.id = i /\ j.first.calDav = bookings[i].calDav
          /\ \/ j.by \in SpaceAdmins
             \/ j.by = bookings[i].user /\ j.first.user = bookings[i].user
      BY <2>3
    <3>. HIDE DEF j, next
    <3>5. Alone /\ pc'[h] = next /\ job'[h] = j /\ answer'[h] = "none"
      BY <1>3, <3>3
    <3>. QED  BY <3>2, <3>3, <3>4, <3>5 DEF Began
  <2>. QED  BY <2>2, <2>3
<1>6. CASE ReceiveDelete(h)
  <2>1. PICK by \in users, i \in Ids : ReceiveDelete(h)!(by, i)
    BY <1>6 DEF ReceiveDelete
  <2>. DEFINE j == [op |-> "delete", by |-> by, first |-> bookings[i], until |-> 0, made |-> 0]
              refused == \/ i \notin Live
                         \/ bookings[i].user # by /\ by \notin SpaceAdmins
                         \/ ~isValidBookingHoursBeforeDelete(bookings[i].enter, by, now)
  <2>2. CASE refused
    BY <1>1, <2>1, <2>2
  <2>3. CASE ~refused
    <3>1. bookings[i] \in Row /\ i \in Live
      BY <2>3 DEF Live, TypeInv, TypeOK
    <3>2. j \in Job
      BY <3>1 DEF Job, Ops, TypeInv, TypeOK
    <3>3. pc[h] = "idle" /\ job' = [job EXCEPT ![h] = j] /\ Goto(h, "deleteRow")
          /\ answer' = [answer EXCEPT ![h] = "none"]
      BY <2>1, <2>3
    <3>4. j.op = "delete" /\ j.made = 0 /\ j.first = bookings[i]
      OBVIOUS
    <3>. HIDE DEF j
    <3>5. Alone /\ pc'[h] = "deleteRow" /\ job'[h] = j /\ answer'[h] = "none"
      BY <1>3, <3>3
    <3>. QED  BY <3>1, <3>2, <3>3, <3>4, <3>5 DEF Began
  <2>. QED  BY <2>2, <2>3
<1>7. CASE BookForUser(h) \/ CountUsers(h) \/ CreateUser(h)
  BY <1>1, <1>2, <1>7 DEF BookForUser, CountUsers, CreateUser
<1>8. CASE CheckRequest(h) \/ CheckUpcoming(h)
  BY <1>1, <1>2, <1>8 DEF CheckRequest, CheckUpcoming, Refuse
<1>9. CASE CheckLocation(h) \/ CheckConflicts(h)
  BY <1>1, <1>2, <1>9 DEF CheckLocation, CheckConflicts, Refuse
<1>10. CASE Insert(h)
  <2>1. CASE job[h].op = "series"
    <3>1. job[h] \in Job
      BY <1>10 DEF Insert, TypeInv, JobsFit
    <3>2. /\ job' = [job EXCEPT ![h].made = @ + 1] /\ Goto(h, "checkRequest")
          /\ pc[h] = "write" /\ answer' = answer
      BY <1>10, <2>1 DEF Insert
    <3>. QED  BY <1>0, <3>1, <3>2 DEF Goto, GoesOn, Job
  <2>2. CASE job[h].op # "series"
    BY <1>1, <1>10, <2>2 DEF Insert
  <2>. QED  BY <2>1, <2>2
<1>11. CASE FinishSeries(h) \/ Update(h) \/ FailWrite(h) \/ Delete(h)
  BY <1>1, <1>11 DEF FinishSeries, Update, FailWrite, Delete
<1>. QED
  BY <1>4, <1>5, <1>6, <1>7, <1>8, <1>9, <1>10, <1>11 DEF Receive, Serve

\* Bookings change by an INSERT, an UPDATE, a DELETE or a write-back alone, and
\* only an INSERT takes an id.
Writes ==
  \/ \E h \in Handlers : Insert(h) \/ Update(h) \/ Delete(h)
  \/ \E g \in Goroutines : SaveEvent(g)

LEMMA OnlyWritesWrite ==
  ASSUME [Next]_vars
  PROVE  /\ Writes \/ UNCHANGED bookings
         /\ (\E h \in Handlers : Insert(h)) \/ UNCHANGED nextId
<1>1. CASE \E h \in Handlers : Receive(h) \/ Serve(h)
  <2>1. PICK h \in Handlers : Receive(h) \/ Serve(h)
    BY <1>1
  <2>2. CASE Receive(h)
    BY <2>2 DEF Receive, ReceiveCreate, ReceiveUpdate, ReceiveDelete, tables
  <2>3. CASE BookForUser(h) \/ CountUsers(h) \/ CreateUser(h)
    BY <2>3 DEF BookForUser, CountUsers, CreateUser, tables
  <2>4. CASE CheckRequest(h) \/ CheckUpcoming(h)
    BY <2>4 DEF CheckRequest, CheckUpcoming, tables
  <2>5. CASE CheckLocation(h) \/ CheckConflicts(h)
    BY <2>5 DEF CheckLocation, CheckConflicts, tables
  <2>6. CASE FinishSeries(h) \/ FailWrite(h)
    BY <2>6 DEF FinishSeries, FailWrite, tables
  <2>7. CASE Insert(h) \/ Update(h) \/ Delete(h)
    BY <2>7 DEF Writes, Update, Delete
  <2>. QED  BY <2>1, <2>2, <2>3, <2>4, <2>5, <2>6, <2>7 DEF Serve
<1>2. CASE \E g \in Goroutines : Mirror(g)
  BY <1>2 DEF Writes, Mirror, SendEvent, SaveEvent, RemoveEvent, tables
<1>3. CASE Crash \/ Tick \/ UNCHANGED vars
  BY <1>3 DEF Crash, Tick, vars, tables
<1>. QED  BY <1>1, <1>2, <1>3 DEF Next

\* What a handler's step does to the goroutines: it starts one at most.
LEMMA Spawning ==
  ASSUME TypeInv, NEW kind, NEW row, Spawn(kind, row)
  PROVE  /\ \/ task' = task
            \/ /\ row.user \in CalDavUsers
               /\ kind = "deleted" => row.calDav # NoId
               /\ \E g \in Goroutines :
                    /\ task' = [task EXCEPT ![g] = [kind |-> kind, stage |-> "send", row |-> row]]
                    /\ task[g] = NoTask
         /\ UNCHANGED <<calendar, nextEvent>>
BY DEF Spawn, Free, caldav

----------------------------------------------------------------------------
(* Ids.                                                                    *)

\* Rows lie under their own ids, and every id a row, a handler or a goroutine
\* knows was given out; idle handlers hold no job, and those about to delete a
\* row the job to.
IdsInv ==
  /\ \A i \in Live : i < nextId /\ bookings[i].id = i
  /\ \A h \in Handlers :
       /\ pc[h] = "idle" => job[h] = NoJob
       /\ job[h].op = "delete" <=> pc[h] = "deleteRow"
       /\ job[h].op \in {"update", "delete"} =>
            job[h].first.id \in Ids /\ job[h].first.id < nextId
  /\ \A g \in Goroutines : task[g].row.id < nextId

LEMMA IdsInit == Init => IdsInv
BY DEF Init, IdsInv, Live, NoJob, NoTask, Blank, NoId

\* The handler's share of the steps.
LEMMA IdsServe ==
  ASSUME TypeInv, IdsInv, NEW h \in Handlers, Receive(h) \/ Serve(h)
  PROVE  IdsInv'
<1>. DEFINE j == job[h]
<1>0. /\ nextId \in Nat /\ nextId >= 1
      /\ Goroutines = DOMAIN task /\ task \in [Goroutines -> Tasks \cup {NoTask}]
      /\ bookings \in [Ids -> Row \cup {Blank}] /\ pc \in [Handlers -> Steps]
      /\ Blank \notin Row
  BY BookingAssumption DEF TypeInv, TypeOK, Ids, Row, Blank
<1>1. pc[h] # "idle" => j \in Job
  BY DEF TypeInv, JobsFit
<1>2. nextId' \in Nat /\ nextId' >= nextId
  <2>1. nextId' = nextId \/ nextId' = nextId + 1
    BY OnlyWritesWrite DEF Next, Insert
  <2>. QED  BY <1>0, <2>1
<1>3. \A i \in Live' : i < nextId' /\ bookings'[i].id = i
  <2>1. CASE Insert(h)
    <3>1. Booking(j) \in Row
      BY <2>1, BookingIsRow DEF Insert
    <3>. DEFINE row == [Booking(j) EXCEPT !.id = nextId]
    <3>2. row.id = nextId
      BY <3>1 DEF Row
    <3>3. bookings' = [bookings EXCEPT ![nextId] = row] /\ nextId' = nextId + 1
      BY <2>1 DEF Insert
    <3>. HIDE DEF row
    <3>. QED  BY <1>0, <3>2, <3>3 DEF IdsInv, Live, Ids
  <2>2. CASE Update(h)
    <3>1. bookings' = Stored(j.first) /\ nextId' = nextId
      BY <2>2 DEF Update
    <3>. QED  BY <1>0, <3>1 DEF IdsInv, Live, Stored
  <2>3. CASE Delete(h)
    <3>1. bookings' = bookings \/ bookings' = [bookings EXCEPT ![j.first.id] = Blank]
      BY <2>3 DEF Delete
    <3>2. nextId' = nextId
      BY <2>3 DEF Delete
    <3>. QED  BY <1>0, <3>1, <3>2 DEF IdsInv, Live
  <2>4. CASE ~(Insert(h) \/ Update(h) \/ Delete(h))
    <3>1. UNCHANGED <<bookings, nextId>>
      BY <2>4
      DEF Receive, ReceiveCreate, ReceiveUpdate, ReceiveDelete, Serve, BookForUser, CountUsers,
          CreateUser, CheckRequest, CheckUpcoming, CheckLocation, CheckConflicts, FinishSeries,
          FailWrite, tables
    <3>. QED  BY <3>1 DEF IdsInv, Live
  <2>. QED  BY <2>1, <2>2, <2>3, <2>4
<1>4. ASSUME NEW k \in Handlers
      PROVE  /\ pc'[k] = "idle" => job'[k] = NoJob
             /\ job'[k].op = "delete" <=> pc'[k] = "deleteRow"
             /\ job'[k].op \in {"update", "delete"} =>
                  job'[k].first.id \in Ids /\ job'[k].first.id < nextId'
  <2>1. CASE k # h
    BY <1>0, <1>2, <2>1, Course DEF IdsInv, Ids
  <2>2. CASE k = h /\ Began(h)
    <3>1. pc'[h] # "idle"
      BY <2>2 DEF Began
    <3>2. ASSUME job'[h].op \in {"update", "delete"} PROVE job'[h].first.id \in Live
      BY <2>2, <3>2 DEF Began, IdsInv
    <3>3. job'[h].op = "delete" <=> pc'[h] = "deleteRow"
      BY <2>2 DEF Began
    <3>. QED  BY <1>0, <1>2, <2>2, <3>1, <3>2, <3>3 DEF IdsInv, Live, Ids
  <2>3. CASE k = h /\ GoesOn(h)
    BY <1>0, <1>2, <2>3 DEF GoesOn, IdsInv, Ids
  <2>4. CASE k = h /\ Ended(h)
    BY <2>4 DEF Ended, NoJob
  <2>. QED  BY <2>1, <2>2, <2>3, <2>4, Course
<1>5. ASSUME NEW g \in Goroutines PROVE task'[g].row.id < nextId'
  <2>1. CASE task' = task
    BY <1>0, <1>2, <2>1 DEF IdsInv, Tasks, Row, NoTask, Blank, Ids, NoId
  <2>2. CASE \E kind : \E row \in Row : Spawn(kind, row) /\ row.id < nextId'
    <3>1. PICK kind : \E row \in Row : Spawn(kind, row) /\ row.id < nextId'
      BY <2>2
    <3>2. PICK row \in Row : Spawn(kind, row) /\ row.id < nextId'
      BY <3>1
    <3>3. \/ task' = task
          \/ \E f \in Goroutines :
               task' = [task EXCEPT ![f] = [kind |-> kind, stage |-> "send", row |-> row]]
      BY <3>2, Spawning
    <3>4. CASE \E f \in Goroutines :
                 task' = [task EXCEPT ![f] = [kind |-> kind, stage |-> "send", row |-> row]]
      <4>1. task'[g] = task[g] \/ task'[g].row = row
        BY <1>0, <3>4
      <4>2. task[g].row.id < nextId'
        BY <1>0, <1>2 DEF IdsInv, Tasks, Row, NoTask, Blank, Ids, NoId
      <4>. QED  BY <3>2, <4>1, <4>2
    <3>. QED  BY <2>1, <3>3, <3>4
  <2>3. CASE Insert(h)
    <3>1. Booking(j) \in Row
      BY <2>3, BookingIsRow DEF Insert
    <3>. DEFINE row == [Booking(j) EXCEPT !.id = nextId]
    <3>2. row \in Row /\ row.id < nextId'
      BY <1>0, <2>3, <3>1 DEF Insert, Row
    <3>3. Spawn("created", row) \/ task' = task
      BY <2>3 DEF Insert, caldav
    <3>. HIDE DEF row
    <3>. QED  BY <2>1, <2>2, <3>2, <3>3
  <2>4. CASE Update(h)
    <3>1. j.op = "update" /\ j \in Job /\ Spawn("updated", j.first)
      BY <1>1, <2>4 DEF Update
    <3>2. j.first \in Row /\ j.first.id < nextId'
      BY <1>0, <1>2, <3>1 DEF Job, IdsInv, Ids
    <3>. QED  BY <2>2, <3>1, <3>2
  <2>5. CASE FinishSeries(h)
    <3>1. j.op = "series" /\ j \in Job /\ Spawn("created", j.first)
      BY <1>1, <2>5 DEF FinishSeries
    <3>2. j.first \in Row /\ j.first.id = NoId
      BY <3>1 DEF Job, TypeInv, JobsFit
    <3>. QED  BY <1>0, <1>2, <2>2, <3>1, <3>2 DEF NoId
  <2>6. CASE ReceiveDelete(h)
    <3>1. \/ task' = task
          \/ \E i \in Live : Spawn("deleted", bookings[i])
      BY <2>6 DEF ReceiveDelete, caldav
    <3>2. ASSUME NEW i \in Live PROVE bookings[i] \in Row /\ bookings[i].id < nextId'
      BY <1>0, <1>2 DEF IdsInv, Live, Ids
    <3>. QED  BY <2>1, <2>2, <3>1, <3>2
  <2>7. CASE ~(Insert(h) \/ Update(h) \/ FinishSeries(h) \/ ReceiveDelete(h))
    <3>1. task' = task
      BY <2>7
      DEF Receive, ReceiveCreate, ReceiveUpdate, Serve, BookForUser, CountUsers,
          CreateUser, CheckRequest, CheckUpcoming, CheckLocation, CheckConflicts,
          FailWrite, Delete, caldav
    <3>. QED  BY <2>1, <3>1
  <2>. QED  BY <2>3, <2>4, <2>5, <2>6, <2>7
<1>. QED  BY <1>3, <1>4, <1>5 DEF IdsInv

LEMMA IdsStep == TypeInv /\ IdsInv /\ [Next]_vars => IdsInv'
<1>. SUFFICES ASSUME TypeInv, IdsInv, [Next]_vars PROVE IdsInv'
  OBVIOUS
<1>1. ASSUME NEW g \in Goroutines, SendEvent(g) \/ RemoveEvent(g) PROVE IdsInv'
  <2>1. UNCHANGED <<bookings, nextId, pc, job>>
    BY <1>1 DEF SendEvent, RemoveEvent, tables, handlers
  <2>2. \A f \in Goroutines : task'[f].row.id = task[f].row.id \/ task'[f].row.id = NoId
    <3>1. task' = [task EXCEPT ![g] = NoTask]
          \/ \E id : task' = [task EXCEPT ![g] = [kind |-> @.kind, stage |-> "save",
                                                 row |-> [task[g].row EXCEPT !.calDav = id]]]
      BY <1>1 DEF SendEvent, RemoveEvent, Done
    <3>2. task[g] \in Tasks
      BY <1>1 DEF SendEvent, RemoveEvent, NoTask, TypeInv, TypeOK
    <3>. QED
      BY <3>1, <3>2 DEF NoTask, Blank, Tasks, Row, TypeInv, TypeOK
  <2>. QED  BY <2>1, <2>2 DEF IdsInv, Live, TypeInv, TypeOK, NoId
<1>2. ASSUME NEW g \in Goroutines, SaveEvent(g) PROVE IdsInv'
  <2>1. UNCHANGED <<nextId, pc, job>> /\ task' = [task EXCEPT ![g] = NoTask]
    BY <1>2 DEF SaveEvent, handlers, Done
  <2>2. \A f \in Goroutines : task'[f].row.id = task[f].row.id \/ task'[f].row.id = NoId
    BY <2>1 DEF NoTask, Blank, TypeInv, TypeOK
  <2>3. bookings' = bookings \/ bookings' = Stored(task[g].row)
    BY <1>2 DEF SaveEvent
  <2>4. \A i \in Live' : i \in Live /\ bookings'[i].id = i
    BY <2>3, BookingAssumption DEF Stored, Live, IdsInv, TypeInv, TypeOK, Row, Blank
  <2>. QED  BY <2>1, <2>2, <2>4 DEF IdsInv, TypeInv, TypeOK, NoId
<1>3. CASE Crash
  BY <1>3 DEF Crash, IdsInv, tables, Live, NoJob, NoTask, Blank, NoId, TypeInv, TypeOK
<1>4. CASE Tick \/ UNCHANGED vars
  BY <1>4 DEF Tick, vars, tables, handlers, caldav, IdsInv, Live
<1>. QED  BY <1>1, <1>2, <1>3, <1>4, IdsServe DEF Next, Mirror

LEMMA IdsInvariance == Spec => []IdsInv
BY IdsInit, IdsStep, TypeInvariance, PTL DEF Spec

----------------------------------------------------------------------------
(* Counting.  A check that counts rows and the write after it are two      *)
(* steps: what bounds the rows in the end is the number of rows and of     *)
(* requests between the two, together.                                     *)

\* Values that a finite number of u name are finitely many, and not more.
LEMMA NamedByFew ==
  ASSUME NEW U, IsFiniteSet(U), NEW T, NEW f, \A i \in T : \E u \in U : f[u] = i
  PROVE  IsFiniteSet(T) /\ Cardinality(T) <= Cardinality(U)
<1>. DEFINE g == [i \in T |-> CHOOSE u \in U : f[u] = i]
<1>1. \A i \in T : g[i] \in U /\ f[g[i]] = i
  OBVIOUS
<1>2. g \in [T -> U]
  BY <1>1
<1>3. \A i, k \in T : g[i] = g[k] => i = k
  BY <1>1
<1>. HIDE DEF g
<1>4. g \in Injection(T, U)
  BY <1>2, <1>3 DEF Injection, IsInjective
<1>. QED  BY <1>4, FS_Injection

\* Both counts shrink: so does their sum.
LEMMA BothShrink ==
  ASSUME NEW A, NEW N, IsFiniteSet(A), IsFiniteSet(N),
         NEW B \in SUBSET A, NEW M \in SUBSET N
  PROVE  /\ IsFiniteSet(B) /\ IsFiniteSet(M)
         /\ Cardinality(A) + Cardinality(N) \in Nat /\ Cardinality(B) + Cardinality(M) \in Nat
         /\ Cardinality(B) + Cardinality(M) <= Cardinality(A) + Cardinality(N)
<1>1. /\ IsFiniteSet(B) /\ IsFiniteSet(M)
      /\ Cardinality(B) <= Cardinality(A) /\ Cardinality(M) <= Cardinality(N)
  BY FS_Subset
<1>2. /\ Cardinality(A) \in Nat /\ Cardinality(N) \in Nat
      /\ Cardinality(B) \in Nat /\ Cardinality(M) \in Nat
  BY <1>1, FS_CardinalityType
<1>. QED  BY <1>1, <1>2

\* One leaves the second set and one joins the first: the sum does not grow.
LEMMA OneMovesOver ==
  ASSUME NEW A, NEW N, IsFiniteSet(A), IsFiniteSet(N), NEW h \in N, NEW i,
         NEW B \in SUBSET (A \cup {i}), NEW M \in SUBSET (N \ {h})
  PROVE  Cardinality(B) + Cardinality(M) <= Cardinality(A) + Cardinality(N)
<1>1. /\ IsFiniteSet(A \cup {i}) /\ Cardinality(A \cup {i}) <= Cardinality(A) + 1
      /\ IsFiniteSet(N \ {h}) /\ Cardinality(N \ {h}) = Cardinality(N) - 1
  BY FS_AddElement, FS_RemoveElement, FS_CardinalityType
<1>2. Cardinality(B) + Cardinality(M) <= Cardinality(A \cup {i}) + Cardinality(N \ {h})
  BY <1>1, BothShrink
<1>3. /\ Cardinality(A) \in Nat /\ Cardinality(N) \in Nat /\ Cardinality(A \cup {i}) \in Nat
      /\ Cardinality(B) + Cardinality(M) \in Nat
  BY <1>1, BothShrink, FS_CardinalityType
<1>. QED  BY <1>1, <1>2, <1>3

\* The moment a check has counted fewer rows than the limit, at most all
\* requests are between check and write: some name a row they move, the others
\* add one.
LEMMA CheckedCount ==
  ASSUME NEW H, IsFiniteSet(H), NEW U \in SUBSET H, NEW N \in SUBSET H, U \cap N = {},
         NEW A, IsFiniteSet(A), NEW limit \in Nat, Cardinality(A) < limit,
         NEW T, NEW f, \A i \in T : \E u \in U : f[u] = i
  PROVE  Cardinality(A \cup T) + Cardinality(N) <= limit + Cardinality(H) - 1
<1>1. /\ IsFiniteSet(U) /\ IsFiniteSet(N)
      /\ Cardinality(H) \in Nat /\ Cardinality(U) \in Nat /\ Cardinality(N) \in Nat
      /\ Cardinality(A) \in Nat
  BY FS_Subset, FS_CardinalityType
<1>2. IsFiniteSet(T) /\ Cardinality(T) <= Cardinality(U) /\ Cardinality(T) \in Nat
  BY <1>1, NamedByFew, FS_CardinalityType
<1>3. Cardinality(U) + Cardinality(N) <= Cardinality(H)
  <2>1. Cardinality(U \cup N) = Cardinality(U) + Cardinality(N) - Cardinality(U \cap N)
    BY <1>1, FS_Union
  <2>2. Cardinality(U \cap N) = 0
    BY FS_EmptySet
  <2>3. U \cup N \in SUBSET H
    OBVIOUS
  <2>4. Cardinality(U \cup N) <= Cardinality(H)
    BY <2>3, FS_Subset
  <2>. QED  BY <1>1, <2>1, <2>2, <2>4
<1>4. Cardinality(A \cup T) <= Cardinality(A) + Cardinality(T) /\ Cardinality(A \cup T) \in Nat
  <2>1. Cardinality(A \cup T) = Cardinality(A) + Cardinality(T) - Cardinality(A \cap T)
    BY <1>2, FS_Union
  <2>2. IsFiniteSet(A \cup T) /\ IsFiniteSet(A \cap T)
    BY <1>2, FS_Union, FS_Intersection
  <2>3. Cardinality(A \cup T) \in Nat /\ Cardinality(A \cap T) \in Nat
    BY <2>2, FS_CardinalityType
  <2>. QED  BY <1>1, <1>2, <2>1, <2>3
<1>. QED  BY <1>1, <1>2, <1>3, <1>4

\* There are handlers, and finitely many of them and of rows.
LEMMA Finite ==
  /\ IsFiniteSet(Handlers) /\ Cardinality(Handlers) \in Nat \ {0}
  /\ IsFiniteSet(Ids) /\ \A S \in SUBSET Ids : IsFiniteSet(S)
  /\ \A S \in SUBSET Handlers : IsFiniteSet(S)
<1>1. IsFiniteSet(Handlers) /\ Handlers # {}
  BY BookingAssumption
<1>2. Cardinality(Handlers) \in Nat /\ Cardinality(Handlers) # 0
  BY <1>1, FS_CardinalityType, FS_EmptySet
<1>3. IsFiniteSet(Ids)
  <2>1. MaxBookings \in Int
    BY BookingAssumption
  <2>2. IsFiniteSet(1 .. MaxBookings)
    BY <2>1, FS_Interval
  <2>. QED  BY <2>2 DEF Ids
<1>. QED  BY <1>1, <1>2, <1>3, FS_Subset

----------------------------------------------------------------------------
(* No calendar: no goroutine ever runs.                                    *)

NoMirror == \A g \in Goroutines : task[g] = NoTask

LEMMA NoMirrorInvariance ==
  ASSUME CalDavUsers = {}
  PROVE  Spec => []NoMirror
<1>1. Init => NoMirror
  BY DEF Init, NoMirror
<1>2. ASSUME TypeInv, NoMirror, [Next]_vars PROVE NoMirror'
  <2>1. ASSUME NEW kind, NEW row, Spawn(kind, row) PROVE UNCHANGED caldav
    BY <2>1 DEF Spawn
  <2>2. ASSUME NEW h \in Handlers, Receive(h) \/ Serve(h) PROVE UNCHANGED caldav
    BY <2>1, <2>2
    DEF Receive, ReceiveCreate, ReceiveUpdate, ReceiveDelete, Serve, BookForUser, CountUsers,
        CreateUser, CheckRequest, CheckUpcoming, CheckLocation, CheckConflicts, Insert,
        FinishSeries, Update, FailWrite, Delete
  <2>3. ASSUME NEW g \in Goroutines, Mirror(g) PROVE FALSE
    BY <1>2, <2>3 DEF Mirror, SendEvent, SaveEvent, RemoveEvent, NoMirror, NoTask
  <2>4. CASE Crash \/ Tick \/ UNCHANGED vars
    BY <1>2, <2>4 DEF Crash, Tick, vars, caldav, NoMirror
  <2>. QED  BY <1>2, <2>2, <2>3, <2>4 DEF Next, NoMirror, caldav
<1>. QED  BY <1>1, <1>2, TypeInvariance, PTL DEF Spec

----------------------------------------------------------------------------
(* The capacity of a location.                                             *)

\* A booking that minute t lies strictly within, at loc.
AtMinute(b, loc, t) == LocationOf[b.space] = loc /\ b.enter < t /\ t < b.leave

PastLocation(h) == pc[h] \in {"checkConflicts", "write"}

\* Handlers past isValidConcurrent whose row will run at t: updates, inserts.
Moving(loc, t) ==
  {h \in Handlers : /\ PastLocation(h) /\ job[h].op = "update"
                    /\ AtMinute(Booking(job[h]), loc, t)}
Adding(loc, t) ==
  {h \in Handlers : /\ PastLocation(h) /\ job[h].op \in {"create", "series"}
                    /\ AtMinute(Booking(job[h]), loc, t)}

\* The rows that run at t or that an update will make run at t.
Claimed(loc, t) ==
  ActiveAt(loc, t) \cup {i \in Ids : \E h \in Moving(loc, t) : job[h].first.id = i}

SeatsInv ==
  \A loc \in Locations : MaxConcurrentBookings[loc] # 0 => \A t \in Nat :
    Cardinality(Claimed(loc, t)) + Cardinality(Adding(loc, t))
      <= MaxConcurrentBookings[loc] + Cardinality(Handlers) - 1

\* Both sets are finite.
LEMMA SeatsFinite ==
  ASSUME NEW loc, NEW t
  PROVE  /\ IsFiniteSet(Claimed(loc, t)) /\ IsFiniteSet(Adding(loc, t))
         /\ IsFiniteSet(Claimed(loc, t)') /\ IsFiniteSet(Adding(loc, t)')
         /\ Cardinality(Claimed(loc, t)) + Cardinality(Adding(loc, t)) \in Nat
         /\ Cardinality(Claimed(loc, t)') + Cardinality(Adding(loc, t)') \in Nat
<1>1. /\ Claimed(loc, t) \in SUBSET Ids /\ Adding(loc, t) \in SUBSET Handlers
      /\ Claimed(loc, t)' \in SUBSET Ids /\ Adding(loc, t)' \in SUBSET Handlers
  BY DEF Claimed, Adding, ActiveAt, Live
<1>2. /\ IsFiniteSet(Claimed(loc, t)) /\ IsFiniteSet(Adding(loc, t))
      /\ IsFiniteSet(Claimed(loc, t)') /\ IsFiniteSet(Adding(loc, t)')
  BY <1>1, Finite
<1>. QED  BY <1>2, BothShrink

LEMMA SeatsInit == Init => SeatsInv
<1>. SUFFICES ASSUME Init, NEW loc \in Locations, MaxConcurrentBookings[loc] # 0, NEW t \in Nat
              PROVE  Cardinality(Claimed(loc, t)) + Cardinality(Adding(loc, t))
                       <= MaxConcurrentBookings[loc] + Cardinality(Handlers) - 1
  BY DEF SeatsInv
<1>1. Claimed(loc, t) = {} /\ Adding(loc, t) = {}
  BY DEF Init, Claimed, Adding, ActiveAt, Live, Moving, PastLocation
<1>2. MaxConcurrentBookings[loc] \in Nat
  BY BookingAssumption
<1>. QED  BY <1>1, <1>2, Finite, FS_EmptySet

\* What a handler that isValidConcurrent lets through has counted: the other
\* rows that run at a minute strictly within its own are fewer than the limit.
LEMMA ConcurrentCounts ==
  ASSUME TypeInv, NEW b \in Row, isValidConcurrent(b), NEW loc \in Locations, NEW t \in Nat,
         MaxConcurrentBookings[loc] # 0, AtMinute(b, loc, t)
  PROVE  Cardinality(ActiveAt(loc, t) \ {b.id}) < MaxConcurrentBookings[loc]
<1>. DEFINE bs == [i \in InLocation(loc, b.id) |-> bookings[i]]
            limit == MaxConcurrentBookings[loc]
            rows == {i \in DOMAIN bs : InConflict(bs[i], b.enter, b.leave)}
            found == [i \in rows |-> bs[i]]
<1>1. ConcurrentBelow(bs, b.enter, b.leave, limit)
  BY DEF isValidConcurrent, AtMinute
<1>2. b.enter \in Nat /\ b.leave \in Nat /\ b.enter < t /\ t < b.leave
  BY DEF Row, AtMinute
<1>3. NumActive(found, t) < limit
  <2>1. t \in b.enter .. b.leave
    BY <1>2
  <2>. HIDE DEF bs, limit
  <2>. QED  BY <1>1, <2>1 DEF ConcurrentBelow
<1>4. {i \in DOMAIN found : found[i].enter < t /\ t < found[i].leave} = ActiveAt(loc, t) \ {b.id}
  <2>1. \A i \in Live : bookings[i].enter \in Nat /\ bookings[i].leave \in Nat
    BY DEF Live, TypeInv, TypeOK, Row
  <2>2. ASSUME NEW i \in ActiveAt(loc, t) \ {b.id}
        PROVE  i \in rows /\ found[i].enter < t /\ t < found[i].leave
    <3>1. /\ i \in Live /\ i \in InLocation(loc, b.id)
          /\ bookings[i].enter < t /\ t < bookings[i].leave
      BY DEF ActiveAt, InLocation
    <3>2. InConflict(bookings[i], b.enter, b.leave)
      BY <1>2, <2>1, <3>1 DEF InConflict
    <3>. QED  BY <3>1, <3>2
  <2>3. ASSUME NEW i \in rows, found[i].enter < t, t < found[i].leave
        PROVE  i \in ActiveAt(loc, t) \ {b.id}
    BY <2>3 DEF ActiveAt, InLocation
  <2>4. DOMAIN found = rows
    OBVIOUS
  <2>. HIDE DEF found, rows
  <2>. QED  BY <2>2, <2>3, <2>4
<1>. HIDE DEF found, rows
<1>. QED  BY <1>3, <1>4 DEF NumActive

\* Where a handler past its location check comes from.
LEMMA PassesLocation ==
  ASSUME TypeInv, NEW h \in Handlers, Receive(h) \/ Serve(h), PastLocation(h)'
  PROVE  \/ PastLocation(h) /\ job' = job /\ bookings' = bookings
         \/ /\ CheckLocation(h) /\ isValidConcurrent(Booking(job[h]))
            /\ pc[h] = "checkLocation" /\ job' = job /\ bookings' = bookings
<1>. USE DEF PastLocation
<1>0. pc \in [Handlers -> Steps]
  BY DEF TypeInv, TypeOK
<1>1. ASSUME NEW a, Answer(h, a) PROVE FALSE
  BY <1>0, <1>1 DEF Answer, Goto
<1>2. ASSUME NEW step, Goto(h, step), step \notin {"checkConflicts", "write"} PROVE FALSE
  BY <1>0, <1>2 DEF Goto
<1>3. CASE Receive(h)
  <2>1. CASE ReceiveCreate(h)
    BY <1>1, <1>2, <2>1 DEF ReceiveCreate
  <2>2. CASE ReceiveUpdate(h)
    BY <1>1, <1>2, <2>2 DEF ReceiveUpdate
  <2>3. CASE ReceiveDelete(h)
    BY <1>1, <1>2, <2>3 DEF ReceiveDelete
  <2>. QED  BY <1>3, <2>1, <2>2, <2>3 DEF Receive
<1>4. CASE BookForUser(h) \/ CountUsers(h) \/ CreateUser(h)
  BY <1>1, <1>2, <1>4 DEF BookForUser, CountUsers, CreateUser
<1>5. CASE CheckRequest(h) \/ CheckUpcoming(h)
  BY <1>1, <1>2, <1>5 DEF CheckRequest, CheckUpcoming, Refuse
<1>6. CASE CheckLocation(h)
  BY <1>1, <1>6 DEF CheckLocation, Refuse, tables
<1>7. CASE CheckConflicts(h)
  BY <1>1, <1>7 DEF CheckConflicts, Refuse, tables
<1>8. CASE Insert(h)
  BY <1>1, <1>2, <1>8 DEF Insert
<1>9. CASE FinishSeries(h) \/ Update(h) \/ FailWrite(h) \/ Delete(h)
  BY <1>1, <1>9 DEF FinishSeries, Update, FailWrite, Delete
<1>. QED  BY <1>3, <1>4, <1>5, <1>6, <1>7, <1>8, <1>9 DEF Serve

\* A step that neither writes a row nor lets a handler past the check.
LEMMA SeatsQuiet ==
  ASSUME SeatsInv, UNCHANGED bookings,
         \A k \in Handlers : PastLocation(k)' => PastLocation(k) /\ job'[k] = job[k]
  PROVE  SeatsInv'
<1>. SUFFICES ASSUME NEW loc \in Locations, MaxConcurrentBookings[loc] # 0, NEW t \in Nat
              PROVE  Cardinality(Claimed(loc, t)') + Cardinality(Adding(loc, t)')
                       <= MaxConcurrentBookings[loc] + Cardinality(Handlers) - 1
  BY DEF SeatsInv
<1>1. ActiveAt(loc, t)' = ActiveAt(loc, t)
  BY DEF ActiveAt, Live
<1>2. ASSUME NEW k \in Moving(loc, t)' PROVE k \in Moving(loc, t) /\ job'[k] = job[k]
  BY <1>2 DEF Moving, Booking
<1>3. Adding(loc, t)' \subseteq Adding(loc, t)
  BY DEF Adding, Booking
<1>4. Claimed(loc, t)' \subseteq Claimed(loc, t)
  BY <1>1, <1>2 DEF Claimed
<1>5. Cardinality(Claimed(loc, t)') + Cardinality(Adding(loc, t)')
        <= Cardinality(Claimed(loc, t)) + Cardinality(Adding(loc, t))
  BY <1>3, <1>4, BothShrink, SeatsFinite
<1>. QED
  BY <1>5, SeatsFinite, Finite, BookingAssumption DEF SeatsInv

\* A handler passes the check.
LEMMA SeatsPass ==
  ASSUME TypeInv, IdsInv, SeatsInv, NEW h \in Handlers,
         isValidConcurrent(Booking(job[h])), pc[h] = "checkLocation",
         UNCHANGED <<bookings, job>>,
         \A k \in Handlers \ {h} : pc'[k] = pc[k]
  PROVE  SeatsInv'
<1>. SUFFICES ASSUME NEW loc \in Locations, MaxConcurrentBookings[loc] # 0, NEW t \in Nat
              PROVE  Cardinality(Claimed(loc, t)') + Cardinality(Adding(loc, t)')
                       <= MaxConcurrentBookings[loc] + Cardinality(Handlers) - 1
  BY DEF SeatsInv
<1>. DEFINE b == Booking(job[h])
            U == Moving(loc, t)'
            N == Adding(loc, t)'
<1>0. /\ b \in Row /\ b.id = job[h].first.id /\ job[h] \in Job
      /\ MaxConcurrentBookings[loc] \in Nat
  BY BookingIsRow, BookingAssumption DEF TypeInv, JobsFit
<1>1. CASE AtMinute(b, loc, t) /\ PastLocation(h)'
  <2>. DEFINE A == ActiveAt(loc, t) \ {b.id}
              T == {i \in Ids : \E k \in U : job[k].first.id = i}
              f == [k \in U |-> job[k].first.id]
  <2>1. Cardinality(A) < MaxConcurrentBookings[loc] /\ IsFiniteSet(A)
    BY <1>0, <1>1, ConcurrentCounts, Finite DEF ActiveAt, Live
  <2>2. \A i \in T : \E k \in U : f[k] = i
    OBVIOUS
  <2>3. U \in SUBSET Handlers /\ N \in SUBSET Handlers /\ U \cap N = {}
    BY DEF Moving, Adding
  <2>4. Claimed(loc, t)' \subseteq A \cup T
    <3>1. ActiveAt(loc, t)' = ActiveAt(loc, t)
      BY DEF ActiveAt, Live
    <3>2. b.id \in T \/ b.id \notin ActiveAt(loc, t)
      <4>1. CASE job[h].op = "update"
        <5>1. h \in U
          BY <1>1, <4>1 DEF Moving, Booking, AtMinute
        <5>2. b.id \in Ids
          BY <1>0, <4>1 DEF IdsInv
        <5>. QED  BY <1>0, <5>1, <5>2
      <4>2. CASE job[h].op \in {"create", "series"}
        BY <1>0, <4>2 DEF TypeInv, JobsFit, ActiveAt, Live, Ids, NoId
      <4>3. job[h].op # "delete"
        BY DEF IdsInv
      <4>. QED  BY <1>0, <4>1, <4>2, <4>3 DEF Job, Ops
    <3>. QED  BY <3>1, <3>2 DEF Claimed
  <2>. HIDE DEF A, T, f, U, N
  <2>5. Cardinality(A \cup T) + Cardinality(N)
          <= MaxConcurrentBookings[loc] + Cardinality(Handlers) - 1
    BY <1>0, <2>1, <2>2, <2>3, Finite, CheckedCount
  <2>6. IsFiniteSet(A \cup T) /\ IsFiniteSet(N) /\ N \in SUBSET N
    <3>1. T \in SUBSET Ids
      BY DEF T
    <3>. QED  BY <2>1, <2>3, <3>1, Finite, FS_Union
  <2>7. Cardinality(Claimed(loc, t)') + Cardinality(N)
          <= Cardinality(A \cup T) + Cardinality(N)
    BY <2>4, <2>6, BothShrink
  <2>8. Cardinality(A \cup T) + Cardinality(N) \in Nat
    BY <2>6, BothShrink
  <2>. QED  BY <1>0, <2>5, <2>7, <2>8, Finite, SeatsFinite DEF N
<1>2. CASE ~(AtMinute(b, loc, t) /\ PastLocation(h)')
  <2>1. ActiveAt(loc, t)' = ActiveAt(loc, t)
    BY DEF ActiveAt, Live
  <2>2. U \subseteq Moving(loc, t) /\ N \subseteq Adding(loc, t)
    BY <1>2 DEF Moving, Adding, Booking, PastLocation, AtMinute
  <2>3. Claimed(loc, t)' \subseteq Claimed(loc, t)
    BY <2>1, <2>2 DEF Claimed
  <2>4. Cardinality(Claimed(loc, t)') + Cardinality(N)
          <= Cardinality(Claimed(loc, t)) + Cardinality(Adding(loc, t))
    BY <2>2, <2>3, BothShrink, SeatsFinite
  <2>. QED  BY <1>0, <2>4, SeatsFinite, Finite DEF SeatsInv
<1>. QED  BY <1>1, <1>2

\* An INSERT: the request leaves those between check and write, its row joins.
LEMMA SeatsInsert ==
  ASSUME TypeInv, IdsInv, SeatsInv, NEW h \in Handlers, Insert(h)
  PROVE  SeatsInv'
<1>. SUFFICES ASSUME NEW loc \in Locations, MaxConcurrentBookings[loc] # 0, NEW t \in Nat
              PROVE  Cardinality(Claimed(loc, t)') + Cardinality(Adding(loc, t)')
                       <= MaxConcurrentBookings[loc] + Cardinality(Handlers) - 1
  BY DEF SeatsInv
<1>. DEFINE b == Booking(job[h])
            row == [b EXCEPT !.id = nextId]
<1>0. /\ b \in Row /\ MaxConcurrentBookings[loc] \in Nat
      /\ row.space = b.space /\ row.enter = b.enter /\ row.leave = b.leave
      /\ pc[h] = "write" /\ job[h].op \in {"create", "series"}
  BY BookingIsRow, BookingAssumption DEF Insert, Row
<1>1. bookings' = [bookings EXCEPT ![nextId] = row] /\ nextId \in Ids
      /\ bookings \in [Ids -> Row \cup {Blank}]
  BY DEF Insert, TypeInv, TypeOK
<1>2. /\ \A k \in Handlers \ {h} : pc'[k] = pc[k] /\ job'[k] = job[k]
      /\ pc'[h] \notin {"checkConflicts", "write"}
  <2>1. pc'[h] \notin {"checkConflicts", "write"}
    BY DEF Insert, Answer, Goto, TypeInv, TypeOK
  <2>. QED  BY <2>1, Course DEF Serve
<1>. HIDE DEF row, b
<1>3. ActiveAt(loc, t)' \subseteq ActiveAt(loc, t)
        \cup (IF AtMinute(b, loc, t) THEN {nextId} ELSE {})
  BY <1>0, <1>1 DEF ActiveAt, Live, AtMinute
<1>4. /\ Moving(loc, t)' \subseteq Moving(loc, t)
      /\ \A k \in Moving(loc, t)' : job'[k] = job[k]
      /\ Adding(loc, t)' \subseteq Adding(loc, t) \ {h}
  BY <1>2 DEF Moving, Adding, Booking, PastLocation
<1>5. Claimed(loc, t)' \subseteq Claimed(loc, t)
        \cup (IF AtMinute(b, loc, t) THEN {nextId} ELSE {})
  BY <1>3, <1>4 DEF Claimed
<1>6. Cardinality(Claimed(loc, t)') + Cardinality(Adding(loc, t)')
        <= Cardinality(Claimed(loc, t)) + Cardinality(Adding(loc, t))
  <2>1. CASE AtMinute(b, loc, t)
    <3>1. h \in Adding(loc, t)
      BY <1>0, <2>1 DEF Adding, PastLocation, b
    <3>. QED  BY <1>4, <1>5, <2>1, <3>1, SeatsFinite, OneMovesOver
  <2>2. CASE ~AtMinute(b, loc, t)
    BY <1>4, <1>5, <2>2, SeatsFinite, BothShrink
  <2>. QED  BY <2>1, <2>2
<1>. QED  BY <1>0, <1>6, SeatsFinite, Finite DEF SeatsInv

\* An UPDATE: the row that now runs at t was claimed.
LEMMA SeatsUpdate ==
  ASSUME TypeInv, IdsInv, SeatsInv, NEW h \in Handlers, Update(h) \/ Delete(h)
  PROVE  SeatsInv'
<1>. SUFFICES ASSUME NEW loc \in Locations, MaxConcurrentBookings[loc] # 0, NEW t \in Nat
              PROVE  Cardinality(Claimed(loc, t)') + Cardinality(Adding(loc, t)')
                       <= MaxConcurrentBookings[loc] + Cardinality(Handlers) - 1
  BY DEF SeatsInv
<1>0. bookings \in [Ids -> Row \cup {Blank}] /\ MaxConcurrentBookings[loc] \in Nat
  BY BookingAssumption DEF TypeInv, TypeOK
<1>1. /\ \A k \in Handlers \ {h} : pc'[k] = pc[k] /\ job'[k] = job[k]
      /\ pc'[h] \notin {"checkConflicts", "write"}
  <2>1. pc'[h] \notin {"checkConflicts", "write"}
    BY DEF Update, Delete, Answer, Goto, TypeInv, TypeOK
  <2>. QED  BY <2>1, Course DEF Serve
<1>2. /\ Moving(loc, t)' \subseteq Moving(loc, t)
      /\ \A k \in Moving(loc, t)' : job'[k] = job[k]
      /\ Adding(loc, t)' \subseteq Adding(loc, t)
  BY <1>1 DEF Moving, Adding, Booking, PastLocation
<1>3. ActiveAt(loc, t)' \subseteq Claimed(loc, t)
  <2>1. CASE Update(h)
    <3>. DEFINE row == job[h].first
    <3>1. bookings' = Stored(row) /\ pc[h] = "write" /\ job[h].op = "update"
          /\ Booking(job[h]) = row
      BY <2>1 DEF Update, Booking
    <3>2. AtMinute(row, loc, t) => h \in Moving(loc, t)
      BY <3>1 DEF Moving, PastLocation
    <3>3. ASSUME NEW i \in ActiveAt(loc, t)'
          PROVE  i \in ActiveAt(loc, t) \/ (i = row.id /\ AtMinute(row, loc, t) /\ i \in Ids)
      BY <1>0, <3>1, <3>3 DEF ActiveAt, Live, Stored, AtMinute
    <3>. QED  BY <3>2, <3>3 DEF Claimed
  <2>2. CASE Delete(h)
    <3>1. bookings' = bookings \/ bookings' = [bookings EXCEPT ![job[h].first.id] = Blank]
      BY <2>2 DEF Delete
    <3>. QED  BY <1>0, <3>1 DEF ActiveAt, Live, Claimed
  <2>. QED  BY <2>1, <2>2
<1>4. Claimed(loc, t)' \subseteq Claimed(loc, t)
  BY <1>2, <1>3 DEF Claimed
<1>5. Cardinality(Claimed(loc, t)') + Cardinality(Adding(loc, t)')
        <= Cardinality(Claimed(loc, t)) + Cardinality(Adding(loc, t))
  BY <1>2, <1>4, BothShrink, SeatsFinite
<1>. QED  BY <1>0, <1>5, SeatsFinite, Finite DEF SeatsInv

\* No step of a service without calendars breaks SeatsInv.
LEMMA SeatsStep ==
  ASSUME TypeInv, IdsInv, NoMirror, SeatsInv, [Next]_vars
  PROVE  SeatsInv'
<1>1. ASSUME NEW h \in Handlers, Receive(h) \/ Serve(h) PROVE SeatsInv'
  <2>1. CASE Insert(h)
    BY <2>1, SeatsInsert
  <2>2. CASE Update(h) \/ Delete(h)
    BY <2>2, SeatsUpdate
  <2>3. CASE ~(Insert(h) \/ Update(h) \/ Delete(h))
    <3>1. UNCHANGED bookings
      BY <1>1, <2>3
      DEF Receive, ReceiveCreate, ReceiveUpdate, ReceiveDelete, Serve, BookForUser, CountUsers,
          CreateUser, CheckRequest, CheckUpcoming, CheckLocation, CheckConflicts, FinishSeries,
          FailWrite, tables
    <3>2. \A k \in Handlers \ {h} : pc'[k] = pc[k] /\ job'[k] = job[k]
      BY <1>1, Course
    <3>3. CASE isValidConcurrent(Booking(job[h])) /\ pc[h] = "checkLocation" /\ job' = job
      BY <3>1, <3>2, <3>3, SeatsPass
    <3>4. CASE PastLocation(h)' => PastLocation(h) /\ job' = job
      BY <3>1, <3>2, <3>4, SeatsQuiet DEF PastLocation
    <3>. QED  BY <1>1, <3>3, <3>4, PassesLocation
  <2>. QED  BY <2>1, <2>2, <2>3
<1>2. ASSUME NEW g \in Goroutines, Mirror(g) PROVE FALSE
  BY <1>2 DEF Mirror, SendEvent, SaveEvent, RemoveEvent, NoMirror, NoTask
<1>3. CASE Crash
  BY <1>3, SeatsQuiet DEF Crash, tables, PastLocation
<1>4. CASE Tick \/ UNCHANGED vars
  BY <1>4, SeatsQuiet DEF Tick, vars, tables, handlers, PastLocation
<1>. QED  BY <1>1, <1>2, <1>3, <1>4 DEF Next

LEMMA SeatsInvariance ==
  ASSUME CalDavUsers = {}
  PROVE  Spec => []SeatsInv
BY SeatsInit, SeatsStep, TypeInvariance, IdsInvariance, NoMirrorInvariance, PTL DEF Spec

\* However n requests interleave, and whatever fails or crashes, they take a
\* location n - 1 bookings over its capacity at most: where no calendar
\* goroutine moves bookings without a check.
THEOREM CapacityExceededByOneLess ==
  ASSUME CalDavUsers = {}
  PROVE  Spec => []CapacityExceededByRacesOnly
<1>1. ASSUME TypeInv, SeatsInv PROVE CapacityExceededByRacesOnly
  <2>. SUFFICES ASSUME NEW i \in Live, MaxConcurrentBookings[LocationOf[bookings[i].space]] # 0,
                       NEW t \in bookings[i].enter .. bookings[i].leave
                PROVE  LET loc == LocationOf[bookings[i].space] IN
                         Cardinality(ActiveAt(loc, t))
                           <= MaxConcurrentBookings[loc] + Cardinality(Handlers) - 1
    BY DEF CapacityExceededByRacesOnly
  <2>. DEFINE loc == LocationOf[bookings[i].space]
  <2>1. bookings[i] \in Row
    BY <1>1 DEF Live, TypeInv, TypeOK
  <2>2. loc \in Locations /\ t \in Nat /\ MaxConcurrentBookings[loc] \in Nat
    BY <2>1, BookingAssumption DEF Row
  <2>. HIDE DEF loc
  <2>3. Cardinality(Claimed(loc, t)) + Cardinality(Adding(loc, t))
          <= MaxConcurrentBookings[loc] + Cardinality(Handlers) - 1
    BY <1>1, <2>2 DEF SeatsInv, loc
  <2>4. ActiveAt(loc, t) \in SUBSET Claimed(loc, t)
    BY DEF Claimed
  <2>5. /\ Cardinality(ActiveAt(loc, t)) <= Cardinality(Claimed(loc, t))
        /\ Cardinality(ActiveAt(loc, t)) \in Nat /\ Cardinality(Claimed(loc, t)) \in Nat
        /\ Cardinality(Adding(loc, t)) \in Nat
    BY <2>4, SeatsFinite, FS_Subset, FS_CardinalityType
  <2>. QED  BY <2>2, <2>3, <2>5, Finite DEF loc
<1>. QED  BY <1>1, TypeInvariance, SeatsInvariance, PTL

----------------------------------------------------------------------------
(* Reservations: one request at a time and no calendar, the service keeps  *)
(* its promises.                                                           *)

\* What Reservations sees of the table.
Held ==
  [i \in Ids |->
     IF i \in Live
     THEN [user |-> bookings[i].user, space |-> bookings[i].space,
           enter |-> bookings[i].enter, leave |-> bookings[i].leave]
     ELSE Nil]

\* Ranges that share an instant are in conflict, whichever ends they have.
LEMMA ShareConflicts ==
  ASSUME NEW a, NEW b, a.enter \in Nat, a.leave \in Nat, b.enter \in Nat, b.leave \in Nat,
         a.enter <= b.leave, b.enter <= a.leave
  PROVE  InConflict(a, b.enter, b.leave)
BY DEF InConflict

\* What is held is taken, and it is a reservation.
LEMMA HeldRows ==
  ASSUME TypeInv
  PROVE  /\ Promise!Taken(Held) = Live
         /\ \A i \in Live : /\ Held[i] \in Promise!Reservation
                            /\ Held[i].space = bookings[i].space
                            /\ Held[i].enter = bookings[i].enter
                            /\ Held[i].leave = bookings[i].leave
<1>1. ASSUME NEW i \in Live
      PROVE  /\ Held[i] \in Promise!Reservation /\ Held[i] # Nil
             /\ Held[i].space = bookings[i].space
             /\ Held[i].enter = bookings[i].enter
             /\ Held[i].leave = bookings[i].leave
  <2>1. i \in Ids /\ bookings[i] \in Row
    BY DEF Live, TypeInv, TypeOK
  <2>. DEFINE r == [user |-> bookings[i].user, space |-> bookings[i].space,
                    enter |-> bookings[i].enter, leave |-> bookings[i].leave]
  <2>2. Held[i] = r
    BY <2>1 DEF Held
  <2>3. r \in Promise!Reservation
    BY <2>1 DEF Promise!Reservation, Row
  <2>4. r # Nil
    BY <2>1, BookingAssumption DEF Row
  <2>. QED  BY <2>2, <2>3, <2>4
<1>2. \A i \in Ids \ Live : Held[i] = Nil
  BY DEF Held
<1>3. Live \subseteq Ids
  BY DEF Live
<1>. QED  BY <1>1, <1>2, <1>3 DEF Promise!Taken

\* The promise counts what it holds as this module counts.
LEMMA SameCount == \A S : Promise!Cardinality(S) = Cardinality(S)
BY Zenon DEF Promise!Cardinality, Cardinality

\* Every row is held as a reservation, and the reservations are kept.
HeldInv ==
  /\ \A i \in Live : Held[i] \in Promise!Reservation
  /\ Promise!Kept(Held)

\* Without double bookings and within capacity the reservations are kept.
LEMMA InvariantsKeep ==
  ASSUME TypeInv, NoDoubleBooking, SeatsInv, Cardinality(Handlers) = 1
  PROVE  HeldInv
<1>0. \A i \in Live : bookings[i].enter \in Nat /\ bookings[i].leave \in Nat
  BY DEF Live, TypeInv, TypeOK, Row
<1>1. Promise!Exclusive(Held)
  <2>. SUFFICES ASSUME NEW i \in Live, NEW k \in Live, i # k,
                       bookings[i].space = bookings[k].space, Promise!Share(Held[i], Held[k])
                PROVE  FALSE
    BY HeldRows DEF Promise!Exclusive
  <2>1. bookings[i].enter <= bookings[k].leave /\ bookings[k].enter <= bookings[i].leave
    BY HeldRows DEF Promise!Share
  <2>2. InConflict(bookings[i], bookings[k].enter, bookings[k].leave)
    BY <1>0, <2>1, ShareConflicts
  <2>. QED  BY <2>2 DEF NoDoubleBooking, Conflicting
<1>2. Promise!WithinCapacity(Held)
  <2>. SUFFICES ASSUME NEW loc \in Locations, MaxConcurrentBookings[loc] # 0,
                       NEW i \in Live, NEW t \in Held[i].enter .. Held[i].leave
                PROVE  Cardinality(Promise!Running(Held, loc, t)) <= MaxConcurrentBookings[loc]
    BY HeldRows, SameCount DEF Promise!WithinCapacity
  <2>1. t \in Nat /\ MaxConcurrentBookings[loc] \in Nat
    BY <1>0, HeldRows, BookingAssumption
  <2>2. Promise!Running(Held, loc, t) = ActiveAt(loc, t)
    BY HeldRows DEF Promise!Running, ActiveAt
  <2>3. Cardinality(Claimed(loc, t)) + Cardinality(Adding(loc, t)) <= MaxConcurrentBookings[loc]
    BY <2>1 DEF SeatsInv
  <2>4. ActiveAt(loc, t) \in SUBSET Claimed(loc, t)
    BY DEF Claimed
  <2>5. /\ Cardinality(ActiveAt(loc, t)) <= Cardinality(Claimed(loc, t))
        /\ Cardinality(ActiveAt(loc, t)) \in Nat /\ Cardinality(Claimed(loc, t)) \in Nat
        /\ Cardinality(Adding(loc, t)) \in Nat
    BY <2>4, SeatsFinite, FS_Subset, FS_CardinalityType
  <2>. QED  BY <2>1, <2>2, <2>3, <2>5
<1>. QED  BY <1>1, <1>2, HeldRows DEF HeldInv, Promise!Kept

\* A write is a Put and a deletion a Release; every other step is none.
LEMMA PromiseStep ==
  ASSUME TypeInv, TypeInv', IdsInv, NoMirror, HeldInv', [Next]_vars
  PROVE  [Promise!Next]_Held
<1>0. /\ bookings \in [Ids -> Row \cup {Blank}]
      /\ Blank \notin Row /\ DOMAIN Held = Ids
  BY BookingAssumption DEF TypeInv, TypeOK, Row, Blank, Held
<1>1. CASE bookings' = bookings
  BY <1>1 DEF Held, Live
<1>2. ASSUME NEW i \in Ids, NEW row \in Row, bookings' = [bookings EXCEPT ![i] = row]
      PROVE  Promise!Next
  <2>1. i \in Live' /\ Live' = Live \cup {i}
    BY <1>0, <1>2 DEF Live
  <2>2. Held'[i] \in Promise!Reservation
    BY <2>1 DEF HeldInv
  <2>3. Held' = [Held EXCEPT ![i] = Held'[i]]
    <3>1. \A k \in Ids \ {i} : Held'[k] = Held[k]
      BY <1>0, <1>2, <2>1 DEF Held
    <3>. QED  BY <1>0, <3>1 DEF Held
  <2>4. Promise!Kept(Held')
    BY DEF HeldInv
  <2>. QED  BY <2>2, <2>3, <2>4 DEF Promise!Next, Promise!Put, Held
<1>3. ASSUME NEW i, bookings' = [bookings EXCEPT ![i] = Blank]
      PROVE  Promise!Next \/ bookings' = bookings
  <2>1. CASE i \in Ids
    <3>1. Live' = Live \ {i}
      BY <1>0, <1>3, <2>1 DEF Live
    <3>2. Held' = [Held EXCEPT ![i] = Nil]
      BY <1>0, <1>3, <2>1, <3>1 DEF Held
    <3>. QED  BY <2>1, <3>2 DEF Promise!Next, Promise!Release, Held
  <2>2. CASE i \notin Ids
    BY <1>0, <1>3, <2>2
  <2>. QED  BY <2>1, <2>2
<1>4. ASSUME NEW h \in Handlers, Insert(h) PROVE Promise!Next
  <2>1. Booking(job[h]) \in Row /\ nextId \in Ids
    BY <1>4, BookingIsRow DEF Insert
  <2>. DEFINE row == [Booking(job[h]) EXCEPT !.id = nextId]
  <2>2. row \in Row
    BY <2>1 DEF Row
  <2>3. bookings' = [bookings EXCEPT ![nextId] = row]
    BY <1>4 DEF Insert
  <2>. HIDE DEF row
  <2>. QED  BY <1>2, <2>1, <2>2, <2>3
<1>5. ASSUME NEW h \in Handlers, Update(h) PROVE Promise!Next \/ bookings' = bookings
  <2>1. job[h].first \in Row
    BY <1>5 DEF Update, TypeInv, JobsFit, Job
  <2>2. bookings' = Stored(job[h].first)
    BY <1>5 DEF Update
  <2>. QED  BY <1>2, <2>1, <2>2 DEF Stored, Live
<1>6. ASSUME NEW h \in Handlers, Delete(h) PROVE Promise!Next \/ bookings' = bookings
  BY <1>3, <1>6 DEF Delete
<1>7. ASSUME NEW g \in Goroutines, SaveEvent(g) PROVE FALSE
  BY <1>7 DEF SaveEvent, NoMirror, NoTask
<1>. QED
  BY <1>1, <1>4, <1>5, <1>6, <1>7, OnlyWritesWrite DEF Writes

\* A service that serves one request at a time, for users without a calendar,
\* does nothing but make, move and give up reservations, each in one step that
\* leaves no two of a space overlapping and no location over its capacity.
THEOREM ServiceKeepsPromise ==
  ASSUME OneAtATime
  PROVE  Spec => KeepsPromise
<1>0. Cardinality(Handlers) = 1 /\ CalDavUsers = {}
  <2>1. PICK h \in Handlers : TRUE
    BY BookingAssumption
  <2>2. Handlers = {h}
    BY <2>1 DEF OneAtATime
  <2>. QED  BY <2>2, FS_Singleton DEF OneAtATime
<1>1. Init => Promise!Init
  BY DEF Init, Promise!Init, Live
<1>2. TypeInv /\ NoDoubleBooking /\ SeatsInv => HeldInv
  BY <1>0, InvariantsKeep
<1>3. TypeInv /\ TypeInv' /\ IdsInv /\ NoMirror /\ HeldInv' /\ [Next]_vars
      => [Promise!Next]_Held
  BY PromiseStep
<1>4. ASSUME [Promise!Next]_Held
      PROVE  [Promise!Next]_[i \in Ids |->
             IF i \in Live
             THEN [user |-> bookings[i].user, space |-> bookings[i].space,
                   enter |-> bookings[i].enter, leave |-> bookings[i].leave]
             ELSE Nil]
  BY <1>4 DEF Held
<1>. QED
  BY <1>0, <1>1, <1>2, <1>3, <1>4, TypeInvariance, IdsInvariance, NoMirrorInvariance,
     SeatsInvariance, NoDoubleBookingOneAtATime, PTL DEF Spec, KeepsPromise, Promise!Spec

----------------------------------------------------------------------------
(* Events: rows, handlers and goroutines hold copies of rows, each with    *)
(* the id of its event.                                                    *)

\* The copies of rows the system holds.
Copies ==
  {bookings[i] : i \in Live} \cup {job[h].first : h \in Handlers}
    \cup {task[g].row : g \in Goroutines}

\* Event ids were given out, no two bookings have the same, and a request for a
\* new booking has none.
OwnersInv ==
  /\ \A c \in Copies : c.calDav < nextEvent
  /\ \A c, d \in Copies : c.calDav # NoId /\ c.calDav = d.calDav => c.id = d.id
  /\ \A h \in Handlers : job[h].op \in {"create", "series"} => job[h].first.calDav = NoId

Gone(i) == i \notin Live /\ i < nextId
Removing(i) == \E h \in Handlers : pc[h] = "deleteRow" /\ job[h].first.id = i
OnCalendar(id) == \E e \in calendar : e.id = id

\* The event of a copy is there, unless its booking is no more or about to go.
EventOf(c) == c.calDav = NoId \/ Gone(c.id) \/ Removing(c.id) \/ OnCalendar(c.calDav)

\* What a goroutine is to remove from the calendar is on its way out.
RemovalsFit ==
  \A g \in Goroutines : task[g].kind = "deleted" =>
    Gone(task[g].row.id) \/ Removing(task[g].row.id)

EventsInv == faults = 0 => (\A c \in Copies : EventOf(c)) /\ RemovalsFit

\* A row with the id and the event of a copy there was before, or without event.
Derived(c) == c.calDav = NoId \/ \E d \in Copies : d.id = c.id /\ d.calDav = c.calDav

\* The same for all copies after a step.
AllDerived ==
  /\ \A i \in Live' : Derived(bookings'[i])
  /\ \A h \in Handlers : Derived(job'[h].first)
  /\ \A g \in Goroutines : Derived(task'[g].row)

LEMMA CopiesTyped ==
  ASSUME TypeInv
  PROVE  /\ \A c \in Copies : c.id \in Nat /\ c.calDav \in Nat
         /\ nextEvent \in Nat /\ nextEvent >= 1
<1>1. Row \cup {Blank} \subseteq [id : Nat, user : Users \cup {Nil}, space : Spaces \cup {Nil},
                                  enter : Nat, leave : Nat, calDav : Nat]
  BY BookingAssumption DEF Row, Blank, Ids, NoId
<1>2. \A i \in Live : bookings[i] \in Row \cup {Blank}
  BY DEF TypeInv, TypeOK, Live
<1>3. \A h \in Handlers : job[h].first \in Row \cup {Blank}
  BY DEF TypeInv, TypeOK, Job, NoJob
<1>4. \A g \in Goroutines : task[g].row \in Row \cup {Blank}
  BY DEF TypeInv, TypeOK, Tasks, NoTask
<1>5. nextEvent \in Nat /\ nextEvent >= 1
  BY BookingAssumption DEF TypeInv, TypeOK
<1>. QED  BY <1>1, <1>2, <1>3, <1>4, <1>5 DEF Copies

\* What a handler's step leaves is derived.
LEMMA HandlerCopies ==
  ASSUME TypeInv, IdsInv, OwnersInv, NEW h \in Handlers, Receive(h) \/ Serve(h)
  PROVE  AllDerived
<1>. DEFINE j == job[h]
<1>0. /\ bookings \in [Ids -> Row \cup {Blank}] /\ Blank \notin Row
      /\ task \in [Goroutines -> Tasks \cup {NoTask}]
  BY BookingAssumption DEF TypeInv, TypeOK, Row, Blank
<1>1. /\ \A i \in Live : Derived(bookings[i])
      /\ \A k \in Handlers : Derived(job[k].first)
      /\ \A g \in Goroutines : Derived(task[g].row)
  BY DEF Derived, Copies
<1>2. \A i \in Live : bookings[i].id = i
  BY DEF IdsInv
<1>3. \A i \in Live' : Derived(bookings'[i])
  <2>1. CASE Insert(h)
    <3>1. Booking(j) \in Row /\ Booking(j).calDav = j.first.calDav
      BY <2>1, BookingIsRow DEF Insert
    <3>. DEFINE row == [Booking(j) EXCEPT !.id = nextId]
    <3>2. row.calDav = NoId
      BY <2>1, <3>1 DEF Insert, OwnersInv, Row
    <3>3. bookings' = [bookings EXCEPT ![nextId] = row]
      BY <2>1 DEF Insert
    <3>. HIDE DEF row
    <3>. QED  BY <1>0, <1>1, <3>2, <3>3 DEF Live, Derived
  <2>2. CASE Update(h)
    <3>1. bookings' = Stored(j.first)
      BY <2>2 DEF Update
    <3>. QED  BY <1>0, <1>1, <3>1 DEF Live, Stored
  <2>3. CASE Delete(h)
    <3>1. bookings' = bookings \/ bookings' = [bookings EXCEPT ![j.first.id] = Blank]
      BY <2>3 DEF Delete
    <3>. QED  BY <1>0, <1>1, <3>1 DEF Live
  <2>4. CASE ~(Insert(h) \/ Update(h) \/ Delete(h))
    <3>1. UNCHANGED bookings
      BY <2>4
      DEF Receive, ReceiveCreate, ReceiveUpdate, ReceiveDelete, Serve, BookForUser, CountUsers,
          CreateUser, CheckRequest, CheckUpcoming, CheckLocation, CheckConflicts, FinishSeries,
          FailWrite, tables
    <3>. QED  BY <1>1, <3>1 DEF Live
  <2>. QED  BY <2>1, <2>2, <2>3, <2>4
<1>4. ASSUME NEW k \in Handlers PROVE Derived(job'[k].first)
  <2>1. CASE k # h
    BY <1>1, <2>1, Course
  <2>2. CASE k = h /\ Began(h)
    <3>1. \/ job'[h].first.calDav = NoId
          \/ \E i \in Live : /\ job'[h].first.id = i
                             /\ job'[h].first.calDav = bookings[i].calDav
          \/ \E i \in Live : job'[h].first = bookings[i]
      BY <2>2 DEF Began
    <3>. QED  BY <1>2, <2>2, <3>1 DEF Derived, Copies
  <2>3. CASE k = h /\ GoesOn(h)
    BY <1>1, <2>3 DEF GoesOn
  <2>4. CASE k = h /\ Ended(h)
    BY <2>4 DEF Ended, NoJob, Blank, Derived
  <2>. QED  BY <2>1, <2>2, <2>3, <2>4, Course
<1>5. ASSUME NEW g \in Goroutines PROVE Derived(task'[g].row)
  <2>1. CASE task' = task
    BY <1>1, <2>1
  <2>2. ASSUME NEW kind, NEW row, Spawn(kind, row), Derived(row) PROVE Derived(task'[g].row)
    <3>1. \/ task' = task
          \/ \E f \in Goroutines :
               task' = [task EXCEPT ![f] = [kind |-> kind, stage |-> "send", row |-> row]]
      BY <2>2, Spawning
    <3>2. task'[g] = task[g] \/ task'[g].row = row
      BY <1>0, <3>1
    <3>. QED  BY <1>1, <2>2, <3>2
  <2>3. CASE Insert(h)
    <3>1. Booking(j) \in Row /\ Booking(j).calDav = j.first.calDav
      BY <2>3, BookingIsRow DEF Insert
    <3>. DEFINE row == [Booking(j) EXCEPT !.id = nextId]
    <3>2. row.calDav = NoId
      BY <2>3, <3>1 DEF Insert, OwnersInv, Row
    <3>3. Spawn("created", row) \/ task' = task
      BY <2>3 DEF Insert, caldav
    <3>. HIDE DEF row
    <3>. QED  BY <2>1, <2>2, <3>2, <3>3 DEF Derived
  <2>4. CASE Update(h)
    BY <1>1, <2>2, <2>4 DEF Update
  <2>5. CASE FinishSeries(h)
    BY <1>1, <2>2, <2>5 DEF FinishSeries
  <2>6. CASE ReceiveDelete(h)
    <3>1. \/ task' = task
          \/ \E i \in Live : Spawn("deleted", bookings[i])
      BY <2>6 DEF ReceiveDelete, caldav
    <3>. QED  BY <1>1, <2>1, <2>2, <3>1
  <2>7. CASE ~(Insert(h) \/ Update(h) \/ FinishSeries(h) \/ ReceiveDelete(h))
    <3>1. task' = task
      BY <2>7
      DEF Receive, ReceiveCreate, ReceiveUpdate, Serve, BookForUser, CountUsers,
          CreateUser, CheckRequest, CheckUpcoming, CheckLocation, CheckConflicts,
          FailWrite, Delete, caldav
    <3>. QED  BY <2>1, <3>1
  <2>. QED  BY <2>3, <2>4, <2>5, <2>6, <2>7
<1>. QED  BY <1>3, <1>4, <1>5 DEF AllDerived

\* A handler changes no calendar, and a step without it writes derived rows.
LEMMA OwnersKept ==
  ASSUME TypeInv, OwnersInv, AllDerived, nextEvent' \in Nat, nextEvent' >= nextEvent,
         \A h \in Handlers : job'[h].op \in {"create", "series"} => job'[h].first.calDav = NoId
  PROVE  OwnersInv'
<1>1. \A c \in Copies' : Derived(c)
  BY DEF AllDerived, Copies
<1>2. \A c \in Copies' : c.calDav < nextEvent'
  BY <1>1, CopiesTyped DEF Derived, OwnersInv, NoId
<1>3. \A c, d \in Copies' : c.calDav # NoId /\ c.calDav = d.calDav => c.id = d.id
  BY <1>1 DEF Derived, OwnersInv
<1>. QED  BY <1>2, <1>3 DEF OwnersInv

\* A deleted row stays deleted.
LEMMA GoneStays ==
  ASSUME TypeInv, [Next]_vars, NEW i \in Nat, Gone(i)
  PROVE  Gone(i)'
<1>0. /\ bookings \in [Ids -> Row \cup {Blank}] /\ nextId \in Nat
  BY BookingAssumption DEF TypeInv, TypeOK
<1>1. nextId' \in Nat /\ nextId' >= nextId
  <2>1. nextId' = nextId \/ nextId' = nextId + 1
    BY OnlyWritesWrite DEF Insert
  <2>. QED  BY <1>0, <2>1
<1>2. \/ bookings' = bookings
      \/ \E row : bookings' = Stored(row)
      \/ \E k : bookings' = [bookings EXCEPT ![k] = Blank]
      \/ \E row : bookings' = [bookings EXCEPT ![nextId] = row]
  BY OnlyWritesWrite DEF Writes, Insert, Update, Delete, SaveEvent
<1>3. i \notin Live'
  <2>1. CASE \E row : bookings' = Stored(row)
    BY <1>0, <2>1 DEF Gone, Live, Stored
  <2>2. CASE \E k : bookings' = [bookings EXCEPT ![k] = Blank]
    BY <1>0, <2>2 DEF Gone, Live
  <2>3. CASE \E row : bookings' = [bookings EXCEPT ![nextId] = row]
    BY <1>0, <2>3 DEF Gone, Live
  <2>4. CASE bookings' = bookings
    BY <2>4 DEF Gone, Live
  <2>. QED  BY <1>2, <2>1, <2>2, <2>3, <2>4
<1>. QED  BY <1>0, <1>1, <1>3 DEF Gone

\* No handler or goroutine brings back a row once it is gone.
THEOREM DeletedStaysDeleted == Spec => NoResurrection
<1>1. ASSUME TypeInv, [Next]_vars, NEW i \in Ids, i < nextId, i \notin Live
      PROVE  bookings'[i] = Blank
  BY <1>1, GoneStays DEF Gone, Live, Ids
<1>2. TypeInv /\ [Next]_vars
        => [\A i \in Ids : i < nextId /\ i \notin Live => bookings'[i] = Blank]_vars
  BY <1>1
<1>. QED  BY <1>2, TypeInvariance, PTL DEF Spec, NoResurrection

\* As long as nothing fails, a deletion under way ends with the row gone.
LEMMA RemovingEnds ==
  ASSUME TypeInv, IdsInv, [Next]_vars, faults = 0, faults' = 0, NEW i \in Nat, Removing(i)
  PROVE  Removing(i)' \/ Gone(i)'
<1>0. PICK h \in Handlers : pc[h] = "deleteRow" /\ job[h].first.id = i
  BY DEF Removing
<1>1. CASE UNCHANGED <<pc, job>>
  BY <1>0, <1>1 DEF Removing
<1>2. ASSUME NEW k \in Handlers, Receive(k) \/ Serve(k) PROVE Removing(i)' \/ Gone(i)'
  <2>1. CASE k # h
    BY <1>0, <1>2, <2>1, Course DEF Removing
  <2>2. CASE k = h
    <3>1. Delete(h)
      BY <1>0, <1>2, <2>2
      DEF Receive, ReceiveCreate, ReceiveUpdate, ReceiveDelete, Serve, BookForUser, CountUsers,
          CreateUser, CheckRequest, CheckUpcoming, CheckLocation, CheckConflicts, Insert,
          FinishSeries, Update, FailWrite
    <3>2. bookings' = [bookings EXCEPT ![i] = Blank] /\ nextId' = nextId
      BY <1>0, <3>1 DEF Delete, Fault
    <3>3. i < nextId /\ i \in Ids
      BY <1>0 DEF IdsInv
    <3>. QED  BY <3>2, <3>3 DEF Gone, Live, TypeInv, TypeOK
  <2>. QED  BY <2>1, <2>2
<1>3. CASE \E g \in Goroutines : Mirror(g)
  BY <1>1, <1>3 DEF Mirror, SendEvent, SaveEvent, RemoveEvent, handlers
<1>4. CASE Tick \/ UNCHANGED vars
  BY <1>1, <1>4 DEF Tick, vars, handlers
<1>5. CASE Crash
  BY <1>5 DEF Crash, Fault
<1>. QED  BY <1>2, <1>3, <1>4, <1>5 DEF Next

\* A PUT under a new id gives that id to one copy.
LEMMA SendOwners ==
  ASSUME TypeInv, OwnersInv, NEW g \in Goroutines, SendEvent(g)
  PROVE  OwnersInv'
<1>. DEFINE row == task[g].row
<1>0. /\ UNCHANGED <<bookings, job>> /\ task[g] \in Tasks
      /\ task \in [Goroutines -> Tasks \cup {NoTask}]
  BY DEF SendEvent, tables, handlers, TypeInv, TypeOK, NoTask
<1>1. /\ \A i \in Live' : Derived(bookings'[i])
      /\ \A h \in Handlers : Derived(job'[h].first)
      /\ \A f \in Goroutines : Derived(task[f].row)
      /\ \A h \in Handlers : job'[h].op \in {"create", "series"} => job'[h].first.calDav = NoId
  BY <1>0 DEF Derived, Copies, Live, OwnersInv
<1>2. nextEvent' \in Nat /\ nextEvent' >= nextEvent /\ nextEvent \in Nat /\ nextEvent >= 1
  BY CopiesTyped DEF SendEvent
<1>3. CASE task' = [task EXCEPT ![g] = NoTask]
  <2>1. \A f \in Goroutines : Derived(task'[f].row)
    BY <1>0, <1>1, <1>3 DEF Derived, NoTask, Blank
  <2>. QED  BY <1>1, <1>2, <2>1, OwnersKept DEF AllDerived
<1>4. ASSUME NEW id, id = IF row.calDav = NoId THEN nextEvent ELSE row.calDav,
             task' = [task EXCEPT ![g] = [kind |-> @.kind, stage |-> "save",
                                          row |-> [row EXCEPT !.calDav = id]]],
             nextEvent' = IF row.calDav = NoId THEN nextEvent + 1 ELSE nextEvent
      PROVE  OwnersInv'
  <2>1. /\ \A f \in Goroutines \ {g} : task'[f] = task[f]
        /\ task'[g].row.id = row.id /\ task'[g].row.calDav = id
    BY <1>0, <1>4 DEF Tasks, Row
  <2>2. CASE row.calDav # NoId
    <3>1. Derived(task'[g].row)
      BY <1>4, <2>1, <2>2 DEF Derived, Copies
    <3>2. AllDerived
      BY <1>1, <2>1, <3>1 DEF AllDerived
    <3>. QED  BY <1>1, <1>2, <3>2, OwnersKept
  <2>3. CASE row.calDav = NoId
    <3>. DEFINE new == task'[g].row
    <3>1. \A c \in Copies' : Derived(c) \/ c = new
      BY <1>1, <2>1 DEF Copies
    <3>2. new.calDav = nextEvent /\ nextEvent' = nextEvent + 1
      BY <1>4, <2>1, <2>3
    <3>3. ASSUME NEW c, Derived(c) PROVE c.calDav < nextEvent
      BY <1>2, <3>3 DEF Derived, OwnersInv, NoId
    <3>4. ASSUME NEW c \in Copies' PROVE c.calDav < nextEvent'
      <4>1. CASE Derived(c)
        <5>1. c.calDav \in Nat
          BY <4>1, CopiesTyped DEF Derived, NoId
        <5>. QED  BY <1>2, <3>2, <3>3, <4>1, <5>1
      <4>2. CASE c = new
        BY <1>2, <3>2, <4>2
      <4>. QED  BY <3>1, <4>1, <4>2
    <3>5. ASSUME NEW c \in Copies', NEW d \in Copies', c.calDav # NoId, c.calDav = d.calDav
          PROVE  c.id = d.id
      <4>1. CASE Derived(c) /\ Derived(d)
        BY <3>5, <4>1 DEF Derived, OwnersInv
      <4>2. CASE c = new /\ d = new
        BY <4>2
      <4>3. CASE (Derived(c) /\ d = new) \/ (c = new /\ Derived(d))
        <5>1. nextEvent < nextEvent
          BY <3>2, <3>3, <3>5, <4>3
        <5>. QED  BY <1>2, <5>1
      <4>. QED  BY <3>1, <4>1, <4>2, <4>3
    <3>. QED  BY <1>1, <3>4, <3>5 DEF OwnersInv
  <2>. QED  BY <2>2, <2>3
<1>. QED  BY <1>3, <1>4 DEF SendEvent, Done

LEMMA OwnersInit == Init => OwnersInv
<1>. SUFFICES ASSUME Init PROVE OwnersInv
  OBVIOUS
<1>1. \A c \in Copies : c = Blank
  BY DEF Init, Copies, Live, NoJob, NoTask
<1>. QED  BY <1>1 DEF Init, OwnersInv, Blank, NoId, NoJob

LEMMA OwnersStep ==
  ASSUME TypeInv, IdsInv, OwnersInv, [Next]_vars
  PROVE  OwnersInv'
<1>0. nextEvent \in Nat
  BY CopiesTyped
<1>1. ASSUME NEW h \in Handlers, Receive(h) \/ Serve(h) PROVE OwnersInv'
  <2>1. nextEvent' = nextEvent
    BY <1>1
    DEF Receive, ReceiveCreate, ReceiveUpdate, ReceiveDelete, Serve, BookForUser, CountUsers,
        CreateUser, CheckRequest, CheckUpcoming, CheckLocation, CheckConflicts, Insert,
        FinishSeries, Update, FailWrite, Delete, Spawn, caldav
  <2>2. \A k \in Handlers : job'[k].op \in {"create", "series"} => job'[k].first.calDav = NoId
    <3>1. Began(h) \/ GoesOn(h) \/ Ended(h)
      BY <1>1, Course
    <3>2. job'[h].op \in {"create", "series"} => job'[h].first.calDav = NoId
      BY <3>1 DEF Began, GoesOn, Ended, OwnersInv, NoJob
    <3>. QED  BY <1>1, <3>2, Course DEF OwnersInv
  <2>. QED  BY <1>0, <1>1, <2>1, <2>2, HandlerCopies, OwnersKept
<1>2. ASSUME NEW g \in Goroutines, SaveEvent(g) \/ RemoveEvent(g) PROVE OwnersInv'
  <2>1. UNCHANGED <<job, nextEvent>> /\ task' = [task EXCEPT ![g] = NoTask]
    BY <1>2 DEF SaveEvent, RemoveEvent, handlers, Done
  <2>2. bookings' = bookings \/ bookings' = Stored(task[g].row)
    BY <1>2 DEF SaveEvent, RemoveEvent, tables
  <2>3. \A i \in Live' : bookings'[i] \in Copies
    BY <2>2 DEF Copies, Live, Stored, TypeInv, TypeOK
  <2>4. AllDerived
    BY <2>1, <2>3 DEF AllDerived, Derived, Copies, NoTask, Blank, TypeInv, TypeOK
  <2>. QED  BY <1>0, <2>1, <2>4, OwnersKept DEF OwnersInv
<1>3. CASE Crash
  <2>1. AllDerived
    BY <1>3 DEF Crash, tables, AllDerived, Derived, Copies, Live, NoJob, NoTask, Blank
  <2>. QED  BY <1>0, <1>3, <2>1, OwnersKept DEF Crash, NoJob
<1>4. CASE Tick \/ UNCHANGED vars
  <2>1. AllDerived
    BY <1>4 DEF Tick, vars, tables, handlers, caldav, AllDerived, Derived, Copies, Live
  <2>. QED  BY <1>0, <1>4, <2>1, OwnersKept DEF Tick, vars, handlers, caldav, OwnersInv
<1>. QED  BY <1>1, <1>2, <1>3, <1>4, SendOwners DEF Next, Mirror

LEMMA OwnersInvariance == Spec => []OwnersInv
BY OwnersInit, OwnersStep, TypeInvariance, IdsInvariance, PTL DEF Spec

\* What a copy says of its event stays true as long as nothing fails.
LEMMA EventOfStays ==
  ASSUME TypeInv, IdsInv, OwnersInv, EventsInv, [Next]_vars, faults = 0, faults' = 0,
         NEW d \in Copies
  PROVE  EventOf(d)'
<1>0. EventOf(d) /\ d.id \in Nat
  BY CopiesTyped DEF EventsInv
<1>1. CASE Gone(d.id)
  BY <1>0, <1>1, GoneStays DEF EventOf
<1>2. CASE Removing(d.id)
  BY <1>0, <1>2, RemovingEnds DEF EventOf
<1>3. CASE OnCalendar(d.calDav) /\ calendar' = calendar
  BY <1>3 DEF EventOf, OnCalendar
<1>4. ASSUME NEW g \in Goroutines, SendEvent(g), OnCalendar(d.calDav) PROVE EventOf(d)'
  <2>1. calendar' = calendar \/ \E id : calendar' = WithEvent(task[g].row, id)
    BY <1>4 DEF SendEvent
  <2>. QED  BY <1>4, <2>1 DEF EventOf, OnCalendar, WithEvent
<1>5. ASSUME NEW g \in Goroutines, RemoveEvent(g), OnCalendar(d.calDav), d.calDav # NoId
      PROVE  EventOf(d)'
  <2>. DEFINE row == task[g].row
  <2>1. task[g].kind = "deleted" /\ row \in Copies
    BY <1>5 DEF RemoveEvent, Copies
  <2>2. CASE d.calDav = row.calDav
    <3>1. Gone(d.id) \/ Removing(d.id)
      BY <1>5, <2>1, <2>2 DEF EventsInv, RemovalsFit, OwnersInv
    <3>. QED  BY <1>1, <1>2, <3>1
  <2>3. CASE d.calDav # row.calDav
    <3>1. PICK e \in calendar : e.id = d.calDav
      BY <1>5 DEF OnCalendar
    <3>2. e \in calendar'
      BY <1>5, <2>3, <3>1 DEF RemoveEvent
    <3>. QED  BY <3>1, <3>2 DEF EventOf, OnCalendar
  <2>. QED  BY <2>2, <2>3
<1>6. ASSUME ~\E g \in Goroutines : SendEvent(g) \/ RemoveEvent(g) PROVE calendar' = calendar
  <2>1. ASSUME NEW h \in Handlers, Receive(h) \/ Serve(h) PROVE calendar' = calendar
    BY <2>1
    DEF Receive, ReceiveCreate, ReceiveUpdate, ReceiveDelete, Serve, BookForUser, CountUsers,
        CreateUser, CheckRequest, CheckUpcoming, CheckLocation, CheckConflicts, Insert,
        FinishSeries, Update, FailWrite, Delete, Spawn, caldav
  <2>2. CASE \E g \in Goroutines : SaveEvent(g)
    BY <2>2 DEF SaveEvent
  <2>3. CASE Crash \/ Tick \/ UNCHANGED vars
    BY <2>3 DEF Crash, Tick, vars, caldav
  <2>. QED  BY <1>6, <2>1, <2>2, <2>3 DEF Next, Mirror
<1>7. CASE d.calDav = NoId
  BY <1>7 DEF EventOf
<1>. QED  BY <1>0, <1>1, <1>2, <1>3, <1>4, <1>5, <1>6, <1>7 DEF EventOf

LEMMA EventsInit == Init => EventsInv
<1>. SUFFICES ASSUME Init PROVE EventsInv
  OBVIOUS
<1>1. \A c \in Copies : c = Blank
  BY DEF Init, Copies, Live, NoJob, NoTask
<1>. QED  BY <1>1 DEF Init, EventsInv, RemovalsFit, EventOf, Blank, NoTask

\* The count of failures never falls.
LEMMA FaultsGrow ==
  ASSUME TypeInv, [Next]_vars, faults' = 0
  PROVE  faults = 0
<1>0. faults \in Nat
  BY BookingAssumption DEF TypeInv, TypeOK
<1>1. Fault \/ UNCHANGED world \/ UNCHANGED faults
  <2>1. ASSUME NEW h \in Handlers, Receive(h) PROVE UNCHANGED world
    BY <2>1 DEF Receive, ReceiveCreate, ReceiveUpdate, ReceiveDelete
  <2>2. ASSUME NEW h \in Handlers, Serve(h) PROVE Fault \/ UNCHANGED world
    BY <2>2
    DEF Serve, BookForUser, CountUsers, CreateUser, CheckRequest, CheckUpcoming, CheckLocation,
        CheckConflicts, Insert, FinishSeries, Update, FailWrite, Delete, Refuse
  <2>3. ASSUME NEW g \in Goroutines, Mirror(g) PROVE Fault \/ UNCHANGED world
    BY <2>3 DEF Mirror, SendEvent, SaveEvent, RemoveEvent
  <2>4. CASE Crash \/ Tick \/ UNCHANGED vars
    BY <2>4 DEF Crash, Tick, vars
  <2>. QED  BY <2>1, <2>2, <2>3, <2>4 DEF Next
<1>. QED  BY <1>0, <1>1 DEF Fault, world

\* As long as nothing fails, no step loses the event of a copy.
LEMMA EventsStep ==
  ASSUME TypeInv, IdsInv, OwnersInv, EventsInv, [Next]_vars
  PROVE  EventsInv'
<1>. SUFFICES ASSUME faults' = 0 PROVE (\A c \in Copies' : EventOf(c)') /\ RemovalsFit'
  BY DEF EventsInv
<1>0. faults = 0 /\ task \in [Goroutines -> Tasks \cup {NoTask}]
  BY FaultsGrow DEF TypeInv, TypeOK
<1>1. \A d \in Copies : EventOf(d)'
  BY <1>0, EventOfStays
<1>2. ASSUME NEW c, Derived(c) PROVE EventOf(c)'
  BY <1>1, <1>2 DEF Derived, EventOf
<1>3. ASSUME AllDerived PROVE \A c \in Copies' : EventOf(c)'
  BY <1>2, <1>3 DEF AllDerived, Copies
<1>4. ASSUME NEW i \in Nat, Gone(i) \/ Removing(i) PROVE Gone(i)' \/ Removing(i)'
  BY <1>0, <1>4, GoneStays, RemovingEnds
<1>5. ASSUME NEW g \in Goroutines, task[g].kind = "deleted", NEW i, i = task[g].row.id
      PROVE  Gone(i)' \/ Removing(i)'
  <2>1. i \in Nat
    BY <1>5, CopiesTyped DEF Copies
  <2>2. Gone(i) \/ Removing(i)
    BY <1>0, <1>5 DEF EventsInv, RemovalsFit
  <2>. QED  BY <1>4, <2>1, <2>2
<1>6. ASSUME \A g \in Goroutines : task'[g].kind = "deleted" =>
               \/ task[g].kind = "deleted" /\ task'[g].row = task[g].row
               \/ \E i : i = task'[g].row.id /\ Removing(i)'
      PROVE  RemovalsFit'
  <2>. SUFFICES ASSUME NEW g \in Goroutines, task'[g].kind = "deleted",
                       NEW i, i = task'[g].row.id
                PROVE  Gone(i)' \/ Removing(i)'
    BY DEF RemovalsFit, Gone, Removing
  <2>1. CASE task[g].kind = "deleted" /\ task'[g].row = task[g].row
    BY <1>5, <2>1
  <2>2. CASE \E k : k = task'[g].row.id /\ Removing(k)'
    BY <2>2
  <2>. QED  BY <1>6, <2>1, <2>2
<1>7. ASSUME NEW h \in Handlers, Receive(h) \/ Serve(h) PROVE RemovalsFit'
  <2>1. CASE ReceiveDelete(h)
    <3>1. CASE task' = task
      BY <1>6, <3>1
    <3>2. CASE task' # task
      <4>1. PICK i \in Live : /\ Spawn("deleted", bookings[i])
                              /\ job'[h].first = bookings[i] /\ pc'[h] = "deleteRow"
        BY <2>1, <3>2 DEF ReceiveDelete, caldav, Goto, TypeInv, TypeOK
      <4>2. bookings[i].id = i /\ Removing(i)'
        BY <4>1 DEF IdsInv, Removing
      <4>3. \A g \in Goroutines : task'[g] = task[g] \/ task'[g].row = bookings[i]
        BY <1>0, <4>1, Spawning
      <4>. QED  BY <1>6, <4>2, <4>3
    <3>. QED  BY <3>1, <3>2
  <2>2. CASE Insert(h) \/ FinishSeries(h) \/ Update(h)
    <3>1. task' = task \/ \E kind : kind # "deleted" /\ \E row : Spawn(kind, row)
      BY <2>2 DEF Insert, FinishSeries, Update, caldav
    <3>2. \A g \in Goroutines : task'[g].kind = "deleted" => task'[g] = task[g]
      BY <1>0, <3>1, Spawning
    <3>. QED  BY <1>6, <3>2
  <2>3. CASE ~(Insert(h) \/ Update(h) \/ FinishSeries(h) \/ ReceiveDelete(h))
    <3>1. task' = task
      BY <1>7, <2>3
      DEF Receive, ReceiveCreate, ReceiveUpdate, Serve, BookForUser, CountUsers,
          CreateUser, CheckRequest, CheckUpcoming, CheckLocation, CheckConflicts,
          FailWrite, Delete, caldav
    <3>. QED  BY <1>6, <3>1
  <2>. QED  BY <2>1, <2>2, <2>3
<1>8. CASE \E h \in Handlers : Receive(h) \/ Serve(h)
  BY <1>3, <1>7, <1>8, HandlerCopies
<1>9. ASSUME NEW g \in Goroutines, Mirror(g)
      PROVE  (\A c \in Copies' : EventOf(c)') /\ RemovalsFit'
  <2>. DEFINE row == task[g].row
              id == IF row.calDav = NoId THEN nextEvent ELSE row.calDav
              sent == [kind |-> task[g].kind, stage |-> "save", row |-> [row EXCEPT !.calDav = id]]
  <2>1. CASE task' = [task EXCEPT ![g] = NoTask]
    <3>1. bookings' = bookings \/ bookings' = Stored(row)
      BY <1>9, <2>1 DEF Mirror, SendEvent, SaveEvent, RemoveEvent, tables
    <3>2. \A i \in Live' : bookings'[i] \in Copies
      BY <3>1 DEF Copies, Live, Stored, TypeInv, TypeOK
    <3>3. \A h \in Handlers : job'[h].first \in Copies
      BY <1>9 DEF Mirror, SendEvent, SaveEvent, RemoveEvent, handlers, Copies
    <3>4. \A f \in Goroutines : task'[f] = task[f] \/ task'[f] = NoTask
      BY <1>0, <2>1
    <3>5. AllDerived
      BY <3>2, <3>3, <3>4 DEF AllDerived, Derived, Copies, NoTask, Blank
    <3>. QED  BY <1>3, <1>6, <3>4, <3>5 DEF NoTask
  <2>2. CASE SendEvent(g) /\ task' # [task EXCEPT ![g] = NoTask]
    <3>1. /\ calendar' = WithEvent(row, id) /\ task' = [task EXCEPT ![g] = sent]
          /\ UNCHANGED <<bookings, job>> /\ task[g].kind # "deleted"
      BY <2>2 DEF SendEvent, Done, tables, handlers
    <3>2. sent.row.calDav = id /\ sent.kind # "deleted"
      BY <2>2, <3>1 DEF SendEvent, TypeInv, TypeOK, Tasks, Row, NoTask
    <3>. HIDE DEF sent, id
    <3>3. \E e \in calendar' : e.id = id
      <4>. DEFINE new == [user |-> row.user, id |-> id, enter |-> row.enter, leave |-> row.leave]
      <4>1. new \in calendar'
        BY <3>1 DEF WithEvent
      <4>2. new.id = id
        OBVIOUS
      <4>. QED  BY <4>1, <4>2
    <3>4. \A f \in Goroutines : task'[f] = task[f] \/ task'[f] = sent
      BY <1>0, <3>1
    <3>5. ASSUME NEW c \in Copies' PROVE EventOf(c)'
      <4>1. c \in Copies \/ c = sent.row
        BY <3>1, <3>4 DEF Copies, Live
      <4>2. CASE c = sent.row
        BY <3>2, <3>3, <4>2 DEF EventOf, OnCalendar
      <4>. QED  BY <1>1, <4>1, <4>2
    <3>. QED  BY <1>6, <3>2, <3>4, <3>5
  <2>. QED  BY <1>9, <2>1, <2>2 DEF Mirror, SaveEvent, RemoveEvent, Done
<1>10. CASE Tick \/ UNCHANGED vars
  <2>1. UNCHANGED <<bookings, job, task>>
    BY <1>10 DEF Tick, vars, tables, handlers, caldav
  <2>2. AllDerived
    BY <2>1 DEF AllDerived, Derived, Copies, Live
  <2>. QED  BY <1>3, <1>6, <2>1, <2>2
<1>11. CASE Crash
  BY <1>0, <1>11 DEF Crash, Fault
<1>. QED  BY <1>8, <1>9, <1>10, <1>11 DEF Next

\* As long as nothing fails, every booking with an event id has its event on
\* the calendar, but while its deletion is under way.
THEOREM NoEventIsLost == Spec => []EventsExist
<1>1. ASSUME TypeInv, IdsInv, EventsInv PROVE EventsExist
  <2>. SUFFICES ASSUME faults = 0, NEW i \in Live PROVE
                  \/ bookings[i].calDav = NoId
                  \/ \E e \in calendar : e.id = bookings[i].calDav
                  \/ \E h \in Handlers : pc[h] = "deleteRow" /\ job[h].first.id = i
    BY DEF EventsExist
  <2>1. EventOf(bookings[i]) /\ bookings[i].id = i
    BY <1>1 DEF EventsInv, Copies, IdsInv
  <2>. QED  BY <2>1 DEF EventOf, Gone, Removing, OnCalendar
<1>2. Spec => []EventsInv
  BY EventsInit, EventsStep, TypeInvariance, IdsInvariance, OwnersInvariance, PTL DEF Spec
<1>. QED  BY <1>1, <1>2, TypeInvariance, IdsInvariance, PTL

----------------------------------------------------------------------------
(* Series.                                                                 *)

\* The dates up to a last one, a number of weeks after the first each, are the
\* occurrences before the first that is past the last.
LEMMA DatesAreOccurrences ==
  ASSUME NEW e \in Nat, NEW w \in Nat \ {0}, NEW t \in Int, t >= e, (t - e) % w = 0,
         NEW made \in Nat, t < e + made * w
  PROVE  \E k \in 0 .. made - 1 : t = e + k * w
<1>. DEFINE k == (t - e) \div w
<1>1. t - e \in Nat
  OBVIOUS
<1>2. k \in Nat
  BY <1>1, DivMod
<1>3. k * w \in Nat /\ t = e + k * w
  <2>1. t - e = k * w + ((t - e) % w)
    BY <1>1, SMT
  <2>2. k * w \in Nat
    BY <1>2, Product
  <2>. HIDE DEF k
  <2>. QED  BY <2>1, <2>2
<1>4. ASSUME k >= made PROVE FALSE
  <2>1. PICK d \in Nat : k = made + d
    BY <1>2, <1>4
  <2>2. k * w = made * w + d * w /\ d * w \in Nat /\ made * w \in Nat
    BY <2>1, Product
  <2>. QED  BY <1>3, <2>2
<1>. HIDE DEF k
<1>5. k \in 0 .. made - 1
  BY <1>2, <1>4
<1>. QED  BY <1>3, <1>5

OneHandler == \A h, k \in Handlers : h = k

\* Occurrence k of a series lies in the table, out of any goroutine's reach.
Booked(first, k) ==
  \E i \in Live : /\ bookings[i].user = first.user /\ bookings[i].space = first.space
                  /\ bookings[i].enter = SeriesEnter(first, k)
                  /\ \A g \in Goroutines : task[g].row.id # i

SeriesInv ==
  \A h \in Handlers : job[h].op = "series" =>
    \A k \in 0 .. job[h].made - 1 : Booked(job[h].first, k)

\* The rows of a series stay while its only handler adds none and ends none.
LEMMA SeriesKept ==
  ASSUME SeriesInv, NEW h \in Handlers, OneHandler,
         job'[h].op = "series" =>
           /\ job[h].op = "series" /\ job'[h].made = job[h].made /\ job'[h].first = job[h].first
           /\ \A i \in Live : (\A g \in Goroutines : task[g].row.id # i) =>
                i \in Live' /\ bookings'[i] = bookings[i]
           /\ \A g \in Goroutines : task'[g].row.id \in {NoId, task[g].row.id}
  PROVE  SeriesInv'
<1>. SUFFICES ASSUME job'[h].op = "series", NEW k \in 0 .. job'[h].made - 1
              PROVE  \E i \in Live' : /\ bookings'[i].user = job'[h].first.user
                                      /\ bookings'[i].space = job'[h].first.space
                                      /\ bookings'[i].enter = SeriesEnter(job'[h].first, k)
                                      /\ \A g \in Goroutines : task'[g].row.id # i
  BY DEF SeriesInv, Booked, OneHandler
<1>1. PICK i \in Live : /\ bookings[i].user = job[h].first.user
                        /\ bookings[i].space = job[h].first.space
                        /\ bookings[i].enter = SeriesEnter(job[h].first, k)
                        /\ \A g \in Goroutines : task[g].row.id # i
  BY DEF SeriesInv, Booked
<1>2. i # NoId
  BY DEF Live, Ids, NoId
<1>. QED  BY <1>1, <1>2

\* An INSERT adds the next occurrence, under an id no goroutine knows.
LEMMA SeriesInsert ==
  ASSUME TypeInv, IdsInv, SeriesInv, NEW h \in Handlers, OneHandler, Insert(h)
  PROVE  SeriesInv'
<1>1. CASE job[h].op # "series"
  <2>1. job'[h] = NoJob
    BY <1>1 DEF Insert, Answer, TypeInv, TypeOK
  <2>. QED  BY <2>1, SeriesKept DEF NoJob
<1>2. CASE job[h].op = "series"
  <2>. DEFINE j == job[h]
              row == [Booking(j) EXCEPT !.id = nextId]
  <2>1. j \in Job /\ j.first \in Row /\ j.made \in Nat /\ Booking(j) \in Row
        /\ Booking(j).user = j.first.user /\ Booking(j).space = j.first.space
        /\ nextId \in Ids
    BY BookingIsRow DEF Insert, TypeInv, JobsFit, Job
  <2>2. /\ row.user = j.first.user /\ row.space = j.first.space
        /\ row.enter = SeriesEnter(j.first, j.made) /\ row # Blank
    <3>1. Booking(j).enter = SeriesEnter(j.first, j.made)
      BY <1>2, <2>1 DEF Booking, Row
    <3>2. row.id # Blank.id
      BY <2>1 DEF Row, Blank, Ids, NoId
    <3>. QED  BY <2>1, <3>1, <3>2 DEF Row
  <2>3. /\ bookings' = [bookings EXCEPT ![nextId] = row]
        /\ job' = [job EXCEPT ![h].made = @ + 1] /\ task' = task
    BY <1>2 DEF Insert, caldav
  <2>4. job'[h].made = j.made + 1 /\ job'[h].first = j.first
    BY <2>1, <2>3 DEF Job, TypeInv, TypeOK
  <2>5. bookings'[nextId] = row /\ nextId \in Live'
        /\ \A i \in Live : i \in Live' /\ bookings'[i] = bookings[i]
    <3>1. \A i \in Live : i < nextId
      BY DEF IdsInv
    <3>. HIDE DEF row
    <3>. QED  BY <2>1, <2>2, <2>3, <3>1 DEF Live, TypeInv, TypeOK, Ids
  <2>6. \A g \in Goroutines : task[g].row.id # nextId
    BY <2>1 DEF IdsInv, Ids
  <2>. HIDE DEF row
  <2>. SUFFICES ASSUME NEW k \in 0 .. job'[h].made - 1
                PROVE  \E i \in Live' : /\ bookings'[i].user = job'[h].first.user
                                        /\ bookings'[i].space = job'[h].first.space
                                        /\ bookings'[i].enter = SeriesEnter(job'[h].first, k)
                                        /\ \A g \in Goroutines : task'[g].row.id # i
    BY DEF SeriesInv, Booked, OneHandler
  <2>7. CASE k = j.made
    BY <2>2, <2>3, <2>4, <2>5, <2>6, <2>7
  <2>8. CASE k # j.made
    <3>1. k \in 0 .. j.made - 1
      BY <2>1, <2>4, <2>8
    <3>2. PICK i \in Live : /\ bookings[i].user = j.first.user
                            /\ bookings[i].space = j.first.space
                            /\ bookings[i].enter = SeriesEnter(j.first, k)
                            /\ \A g \in Goroutines : task[g].row.id # i
      BY <1>2, <3>1 DEF SeriesInv, Booked
    <3>. QED  BY <2>3, <2>4, <2>5, <3>2
  <2>. QED  BY <2>7, <2>8
<1>. QED  BY <1>1, <1>2

LEMMA SeriesStep ==
  ASSUME TypeInv, IdsInv, SeriesInv, OneHandler, [Next]_vars
  PROVE  SeriesInv'
<1>1. ASSUME NEW h \in Handlers, Receive(h) \/ Serve(h) PROVE SeriesInv'
  <2>1. CASE Insert(h)
    BY <2>1, SeriesInsert
  <2>2. CASE Began(h)
    <3>1. job'[h].made = 0
      BY <2>2 DEF Began
    <3>. QED  BY <3>1 DEF SeriesInv, OneHandler
  <2>3. CASE Ended(h)
    BY <2>3, SeriesKept DEF Ended, NoJob
  <2>4. CASE GoesOn(h) /\ ~Insert(h)
    <3>1. CASE Receive(h)
      BY <2>4, <3>1 DEF GoesOn, Receive, ReceiveCreate, ReceiveUpdate, ReceiveDelete
    <3>2. CASE Serve(h)
      <4>1. ASSUME NEW a, Answer(h, a) PROVE FALSE
        BY <2>4, <4>1 DEF Answer, Goto, GoesOn, TypeInv, TypeOK
      <4>2. UNCHANGED <<bookings, job, task>>
        BY <2>4, <3>2, <4>1
        DEF Serve, BookForUser, CountUsers, CreateUser, CheckRequest, CheckUpcoming,
            CheckLocation, CheckConflicts, FinishSeries, Update, FailWrite, Delete, Refuse,
            tables, caldav
      <4>. QED  BY <4>2, SeriesKept DEF Live
    <3>. QED  BY <1>1, <3>1, <3>2
  <2>. QED  BY <1>1, <2>1, <2>2, <2>3, <2>4, Course
<1>2. ASSUME UNCHANGED job, NEW h \in Handlers,
             \A i \in Live : (\A g \in Goroutines : task[g].row.id # i) =>
               i \in Live' /\ bookings'[i] = bookings[i],
             \A g \in Goroutines : task'[g].row.id \in {NoId, task[g].row.id}
      PROVE  SeriesInv'
  BY <1>2, SeriesKept
<1>3. ASSUME NEW h \in Handlers, NEW g \in Goroutines, SendEvent(g) \/ RemoveEvent(g)
      PROVE  SeriesInv'
  <2>1. UNCHANGED <<bookings, job>>
    BY <1>3 DEF SendEvent, RemoveEvent, tables, handlers
  <2>2. \A f \in Goroutines : task'[f].row.id \in {NoId, task[f].row.id}
    <3>1. task' = [task EXCEPT ![g] = NoTask]
          \/ \E id : task' = [task EXCEPT ![g] = [kind |-> @.kind, stage |-> "save",
                                                 row |-> [task[g].row EXCEPT !.calDav = id]]]
      BY <1>3 DEF SendEvent, RemoveEvent, Done
    <3>2. task[g] \in Tasks
      BY <1>3 DEF SendEvent, RemoveEvent, NoTask, TypeInv, TypeOK
    <3>. QED
      BY <3>1, <3>2 DEF NoTask, Blank, Tasks, Row, TypeInv, TypeOK
  <2>. QED  BY <1>2, <2>1, <2>2 DEF Live
<1>4. ASSUME NEW h \in Handlers, NEW g \in Goroutines, SaveEvent(g) PROVE SeriesInv'
  <2>1. /\ UNCHANGED job /\ task' = [task EXCEPT ![g] = NoTask]
        /\ bookings' = bookings \/ bookings' = Stored(task[g].row)
    BY <1>4 DEF SaveEvent, handlers, Done
  <2>2. \A f \in Goroutines : task'[f].row.id \in {NoId, task[f].row.id}
    BY <2>1 DEF NoTask, Blank, TypeInv, TypeOK
  <2>3. ASSUME NEW i \in Live, task[g].row.id # i PROVE i \in Live' /\ bookings'[i] = bookings[i]
    BY <2>1, <2>3 DEF Stored, Live, TypeInv, TypeOK
  <2>. QED  BY <1>2, <2>1, <2>2, <2>3
<1>5. ASSUME NEW h \in Handlers, Crash PROVE SeriesInv'
  BY <1>5, SeriesKept DEF Crash, NoJob
<1>6. ASSUME NEW h \in Handlers, Tick \/ UNCHANGED vars PROVE SeriesInv'
  BY <1>2, <1>6 DEF Tick, vars, tables, handlers, caldav, Live
<1>7. Handlers # {}
  BY BookingAssumption
<1>. QED  BY <1>1, <1>3, <1>4, <1>5, <1>6, <1>7 DEF Next, Mirror

\* Where one request is served at a time, a series that is answered "created"
\* has been booked from its first date to its last, whatever failed on the way,
\* and no calendar goroutine undoes it meanwhile.
THEOREM SeriesAreBooked ==
  ASSUME OneHandler
  PROVE  Spec => SeriesComplete
<1>1. Init => SeriesInv
  BY DEF Init, SeriesInv, NoJob
<1>2. ASSUME TypeInv, IdsInv, SeriesInv, [Next]_vars, NEW h \in Handlers,
             job[h].op = "series", answer'[h] = "created", pc'[h] = "idle"
      PROVE  \A t \in job[h].first.enter .. job[h].until + ZoneOffset :
               (t - job[h].first.enter) % Week = 0 =>
                 \E i \in Live : /\ bookings[i].user = job[h].first.user
                                 /\ bookings[i].space = job[h].first.space
                                 /\ bookings[i].enter = t
  <2>. DEFINE j == job[h]
  <2>1. pc[h] # "idle" /\ j \in Job /\ j.first \in Row
    BY <1>2 DEF IdsInv, TypeInv, JobsFit, NoJob, Job
  <2>2. FinishSeries(h)
    <3>1. ASSUME NEW a, Answer(h, a), a # "created" PROVE FALSE
      BY <1>2, <3>1 DEF Answer, TypeInv, TypeOK
    <3>2. ASSUME NEW step, Goto(h, step), step # "idle" PROVE FALSE
      BY <1>2, <3>2 DEF Goto, TypeInv, TypeOK
    <3>3. ASSUME NEW k \in Handlers, Receive(k) PROVE FALSE
      <4>1. pc[k] = "idle"
        BY <3>3 DEF Receive, ReceiveCreate, ReceiveUpdate, ReceiveDelete
      <4>. QED  BY <1>2, <2>1, <4>1 DEF OneHandler
    <3>4. ASSUME Serve(h) PROVE FinishSeries(h)
      BY <1>2, <3>1, <3>2, <3>4
      DEF Serve, BookForUser, CountUsers, CreateUser, CheckRequest, CheckUpcoming,
          CheckLocation, CheckConflicts, Insert, Update, FailWrite, Delete, Refuse
    <3>5. ASSUME UNCHANGED pc PROVE FALSE
      BY <1>2, <2>1, <3>5
    <3>6. CASE \E g \in Goroutines : Mirror(g)
      BY <3>5, <3>6 DEF Mirror, SendEvent, SaveEvent, RemoveEvent, handlers
    <3>7. CASE Crash
      BY <1>2, <3>7 DEF Crash
    <3>8. CASE Tick \/ UNCHANGED vars
      BY <3>5, <3>8 DEF Tick, vars, handlers
    <3>. QED  BY <1>2, <3>3, <3>4, <3>6, <3>7, <3>8 DEF Next, OneHandler
  <2>. SUFFICES ASSUME NEW t \in j.first.enter .. j.until + ZoneOffset,
                       (t - j.first.enter) % Week = 0
                PROVE  \E i \in Live : /\ bookings[i].user = j.first.user
                                       /\ bookings[i].space = j.first.space
                                       /\ bookings[i].enter = t
    OBVIOUS
  <2>3. /\ j.first.enter \in Nat /\ j.made \in Nat /\ j.until \in Nat
        /\ j.made * Week \in Nat /\ ZoneOffset \in Int /\ Week \in Nat \ {0}
    BY <2>1, WeekAndDay, Product, BookingAssumption, CalendarAssumption DEF Job, Row
  <2>4. t < j.first.enter + j.made * Week /\ t \in Int /\ t >= j.first.enter
    BY <2>2, <2>3 DEF FinishSeries, InSeries, SeriesEnter, Instant
  <2>5. PICK k \in 0 .. j.made - 1 : t = j.first.enter + k * Week
    <3>. DEFINE e == j.first.enter
                made == j.made
    <3>1. /\ e \in Nat /\ made \in Nat /\ t \in Int /\ Week \in Nat \ {0}
          /\ t >= e /\ (t - e) % Week = 0 /\ t < e + made * Week
      BY <2>3, <2>4
    <3>. HIDE DEF e, made
    <3>2. \E k \in 0 .. made - 1 : t = e + k * Week
      BY <3>1, DatesAreOccurrences, Zenon
    <3>. QED  BY <3>2 DEF e, made
  <2>. QED  BY <1>2, <2>5 DEF SeriesInv, Booked, SeriesEnter
<1>3. TypeInv /\ IdsInv /\ SeriesInv /\ [Next]_vars
        => [\A h \in Handlers :
              job[h].op = "series" /\ answer'[h] = "created" /\ pc'[h] = "idle" =>
                \A t \in job[h].first.enter .. job[h].until + ZoneOffset :
                  (t - job[h].first.enter) % Week = 0 =>
                    \E i \in Live : /\ bookings[i].user = job[h].first.user
                                    /\ bookings[i].space = job[h].first.space
                                    /\ bookings[i].enter = t]_vars
  BY <1>2
<1>4. TypeInv /\ IdsInv /\ SeriesInv /\ [Next]_vars => SeriesInv'
  BY SeriesStep
<1>. QED
  BY <1>1, <1>3, <1>4, TypeInvariance, IdsInvariance, PTL DEF Spec, SeriesComplete

----------------------------------------------------------------------------
(* The limits of a user, where nobody may book for somebody else.          *)

\* A request is its own user's, and a stored row it moves as well.
UsersInv ==
  \A h \in Handlers : job[h].op \in {"create", "series", "update"} =>
    /\ job[h].by = job[h].first.user
    /\ job[h].op = "update" /\ job[h].first.id \in Live =>
         bookings[job[h].first.id].user = job[h].first.user

LEMMA UsersStep ==
  ASSUME SpaceAdmins = {}, TypeInv, IdsInv, NoMirror, UsersInv, [Next]_vars
  PROVE  UsersInv'
<1>0. bookings \in [Ids -> Row \cup {Blank}] /\ Blank \notin Row
  BY BookingAssumption DEF TypeInv, TypeOK, Row, Blank
<1>1. ASSUME NEW h \in Handlers, Receive(h) \/ Serve(h) PROVE UsersInv'
  <2>1. /\ \A i \in Live' : \/ i \in Live /\ bookings'[i].user = bookings[i].user
                            \/ i = nextId
        /\ \A k \in Handlers \ {h} : job'[k] = job[k]
    <3>1. CASE Insert(h)
      <4>1. \E row : bookings' = [bookings EXCEPT ![nextId] = row]
        BY <3>1 DEF Insert
      <4>. QED  BY <1>0, <1>1, <4>1, Course DEF Live
    <3>2. CASE Update(h)
      <4>1. bookings' = Stored(job[h].first)
            /\ (job[h].first.id \in Live =>
                  bookings[job[h].first.id].user = job[h].first.user)
        BY <3>2 DEF Update, UsersInv
      <4>. QED  BY <1>0, <1>1, <4>1, Course DEF Stored, Live
    <3>3. CASE Delete(h)
      <4>1. bookings' = bookings \/ bookings' = [bookings EXCEPT ![job[h].first.id] = Blank]
        BY <3>3 DEF Delete
      <4>. QED  BY <1>0, <1>1, <4>1, Course DEF Live
    <3>4. CASE ~(Insert(h) \/ Update(h) \/ Delete(h))
      <4>1. UNCHANGED bookings
        BY <1>1, <3>4
        DEF Receive, ReceiveCreate, ReceiveUpdate, ReceiveDelete, Serve, BookForUser, CountUsers,
            CreateUser, CheckRequest, CheckUpcoming, CheckLocation, CheckConflicts, FinishSeries,
            FailWrite, tables
      <4>. QED  BY <1>1, <4>1, Course DEF Live
    <3>. QED  BY <3>1, <3>2, <3>3, <3>4
  <2>2. ASSUME NEW k \in Handlers, job'[k].op \in {"create", "series", "update"},
               job[k].op = job'[k].op, job[k].by = job'[k].by, job[k].first = job'[k].first
        PROVE  /\ job'[k].by = job'[k].first.user
               /\ job'[k].op = "update" /\ job'[k].first.id \in Live' =>
                    bookings'[job'[k].first.id].user = job'[k].first.user
    <3>1. nextId \in Nat /\ (job[k].op = "update" => job[k].first.id # nextId)
      BY BookingAssumption DEF IdsInv, TypeInv, TypeOK, Ids
    <3>. QED  BY <2>1, <2>2, <3>1 DEF UsersInv
  <2>3. ASSUME Began(h), job'[h].op \in {"create", "series", "update"}
        PROVE  /\ job'[h].by = job'[h].first.user
               /\ job'[h].op = "update" /\ job'[h].first.id \in Live' =>
                    bookings'[job'[h].first.id].user = job'[h].first.user
    <3>1. \/ job'[h].op # "update" /\ job'[h].by = job'[h].first.user
          \/ \E i \in Live : /\ job'[h].first.id = i /\ job'[h].by = bookings[i].user
                             /\ job'[h].first.user = bookings[i].user
      BY <2>3 DEF Began
    <3>2. ASSUME NEW i \in Live PROVE i # nextId
      BY <3>2, BookingAssumption DEF IdsInv, TypeInv, TypeOK, Live, Ids
    <3>. QED  BY <2>1, <3>1, <3>2
  <2>4. ASSUME NEW k \in Handlers, job'[k].op \in {"create", "series", "update"}
        PROVE  /\ job'[k].by = job'[k].first.user
               /\ job'[k].op = "update" /\ job'[k].first.id \in Live' =>
                    bookings'[job'[k].first.id].user = job'[k].first.user
    <3>1. CASE k # h
      BY <2>1, <2>2, <2>4, <3>1
    <3>2. CASE k = h /\ Began(h)
      BY <2>3, <2>4, <3>2
    <3>3. CASE k = h /\ GoesOn(h)
      BY <2>2, <2>4, <3>3 DEF GoesOn
    <3>4. CASE k = h /\ Ended(h)
      BY <2>4, <3>4 DEF Ended, NoJob
    <3>. QED  BY <1>1, <3>1, <3>2, <3>3, <3>4, Course
  <2>. QED  BY <2>4 DEF UsersInv
<1>2. ASSUME NEW g \in Goroutines, Mirror(g) PROVE FALSE
  BY <1>2 DEF Mirror, SendEvent, SaveEvent, RemoveEvent, NoMirror, NoTask
<1>3. CASE Crash
  BY <1>3 DEF Crash, UsersInv, NoJob
<1>4. CASE Tick \/ UNCHANGED vars
  BY <1>4 DEF Tick, vars, tables, handlers, UsersInv, Live
<1>. QED  BY <1>1, <1>2, <1>3, <1>4 DEF Next

\* Without administrators every request and row is its user's own.
LEMMA UsersInvariance ==
  ASSUME SpaceAdmins = {}, CalDavUsers = {}
  PROVE  Spec => []UsersInv
<1>1. Init => UsersInv
  BY DEF Init, UsersInv, NoJob
<1>2. TypeInv /\ IdsInv /\ NoMirror /\ UsersInv /\ [Next]_vars => UsersInv'
  BY UsersStep
<1>. QED  BY <1>1, <1>2, TypeInvariance, IdsInvariance, NoMirrorInvariance, PTL DEF Spec

----------------------------------------------------------------------------
(* Bookings a user has at a time: counted like the seats of a location.    *)

\* A booking of u in whose range minute t lies, its end excluded.
During(b, u, t) == b.user = u /\ b.enter <= t /\ t < b.leave

PastRequest(h) == pc[h] \in {"checkUpcoming", "checkLocation", "checkConflicts", "write"}

MovingFor(u, t) ==
  {h \in Handlers : PastRequest(h) /\ job[h].op = "update" /\ During(Booking(job[h]), u, t)}
AddingFor(u, t) ==
  {h \in Handlers : /\ PastRequest(h) /\ job[h].op \in {"create", "series"}
                    /\ During(Booking(job[h]), u, t)}
ClaimedFor(u, t) ==
  HeldAt(u, t) \cup {i \in Ids : \E h \in MovingFor(u, t) : job[h].first.id = i}

HoldingInv ==
  Settings.maxConcurrentBookingsPerUser # 0 /\ faults = 0 => \A u \in Users, t \in Nat :
    Cardinality(ClaimedFor(u, t)) + Cardinality(AddingFor(u, t))
      <= Settings.maxConcurrentBookingsPerUser + Cardinality(Handlers) - 1

\* Both sets are finite.
LEMMA HoldingFinite ==
  ASSUME NEW u, NEW t
  PROVE  /\ IsFiniteSet(ClaimedFor(u, t)) /\ IsFiniteSet(AddingFor(u, t))
         /\ IsFiniteSet(ClaimedFor(u, t)') /\ IsFiniteSet(AddingFor(u, t)')
         /\ Cardinality(ClaimedFor(u, t)) + Cardinality(AddingFor(u, t)) \in Nat
         /\ Cardinality(ClaimedFor(u, t)') + Cardinality(AddingFor(u, t)') \in Nat
<1>1. /\ ClaimedFor(u, t) \in SUBSET Ids /\ AddingFor(u, t) \in SUBSET Handlers
      /\ ClaimedFor(u, t)' \in SUBSET Ids /\ AddingFor(u, t)' \in SUBSET Handlers
  BY DEF ClaimedFor, AddingFor, HeldAt, Live
<1>2. /\ IsFiniteSet(ClaimedFor(u, t)) /\ IsFiniteSet(AddingFor(u, t))
      /\ IsFiniteSet(ClaimedFor(u, t)') /\ IsFiniteSet(AddingFor(u, t)')
  BY <1>1, Finite
<1>. QED  BY <1>2, BothShrink

\* The limits are numbers.
LEMMA Limits ==
  /\ Settings.maxConcurrentBookingsPerUser \in Nat
  /\ Settings.maxBookingsPerUser \in Nat
BY SettingsAssumption

\* What a request that isValidMaxConcurrentBookingsForUser lets through has
\* counted: the other rows at a minute of its own are fewer than the limit.
LEMMA RequestCounts ==
  ASSUME SpaceAdmins = {}, TypeInv, Settings.maxConcurrentBookingsPerUser # 0,
         NEW b \in Row, NEW u, NEW t \in Nat, During(b, u, t),
         isValidMaxConcurrentBookingsForUser(u, b, FALSE)
  PROVE  Cardinality(HeldAt(u, t) \ {b.id}) < Settings.maxConcurrentBookingsPerUser
<1>1. HeldAt(u, t) \ {b.id} \in SUBSET GetTimeRangeByUser(u, b)
  <2>. SUFFICES ASSUME NEW i \in HeldAt(u, t) \ {b.id} PROVE i \in GetTimeRangeByUser(u, b)
    OBVIOUS
  <2>1. bookings[i] \in Row /\ i \in Live
    BY DEF HeldAt, Live, TypeInv, TypeOK
  <2>. QED  BY <2>1 DEF HeldAt, GetTimeRangeByUser, InUserRange, During, Row
<1>2. IsFiniteSet(GetTimeRangeByUser(u, b))
  BY Finite DEF GetTimeRangeByUser, Live
<1>3. /\ Cardinality(HeldAt(u, t) \ {b.id}) <= Cardinality(GetTimeRangeByUser(u, b))
      /\ Cardinality(HeldAt(u, t) \ {b.id}) \in Nat
      /\ Cardinality(GetTimeRangeByUser(u, b)) \in Nat
  BY <1>1, <1>2, FS_Subset, FS_CardinalityType
<1>4. Cardinality(GetTimeRangeByUser(u, b)) < Settings.maxConcurrentBookingsPerUser
  BY DEF isValidMaxConcurrentBookingsForUser, Unrestricted
<1>. QED  BY <1>3, <1>4, Limits

\* Where a handler past checkRequest comes from, as long as nothing fails.
LEMMA PassesRequest ==
  ASSUME TypeInv, NEW h \in Handlers, Receive(h) \/ Serve(h), faults = 0, faults' = 0,
         PastRequest(h)'
  PROVE  \/ PastRequest(h) /\ job' = job /\ bookings' = bookings
         \/ /\ isValidMaxConcurrentBookingsForUser(job[h].by, Booking(job[h]), FALSE)
            /\ pc[h] = "checkRequest" /\ job' = job /\ bookings' = bookings
<1>. USE DEF PastRequest
<1>0. pc \in [Handlers -> Steps]
  BY DEF TypeInv, TypeOK
<1>1. ASSUME NEW a, Answer(h, a) PROVE FALSE
  BY <1>0, <1>1 DEF Answer, Goto
<1>2. ASSUME NEW step, Goto(h, step),
             step \notin {"checkUpcoming", "checkLocation", "checkConflicts", "write"}
      PROVE  FALSE
  BY <1>0, <1>2 DEF Goto
<1>3. CASE Receive(h)
  <2>1. CASE ReceiveCreate(h)
    BY <1>1, <1>2, <2>1 DEF ReceiveCreate
  <2>2. CASE ReceiveUpdate(h)
    BY <1>1, <1>2, <2>2 DEF ReceiveUpdate
  <2>3. CASE ReceiveDelete(h)
    BY <1>1, <1>2, <2>3 DEF ReceiveDelete
  <2>. QED  BY <1>3, <2>1, <2>2, <2>3 DEF Receive
<1>4. CASE BookForUser(h) \/ CountUsers(h) \/ CreateUser(h)
  BY <1>1, <1>2, <1>4 DEF BookForUser, CountUsers, CreateUser
<1>5. CASE CheckRequest(h)
  <2>1. /\ pc[h] = "checkRequest" /\ job' = job /\ bookings' = bookings
        /\ \/ isValidMaxConcurrentBookingsForUser(job[h].by, Booking(job[h]), FALSE)
           \/ Fault
    BY <1>1, <1>5 DEF CheckRequest, Refuse, tables
  <2>2. ~Fault
    BY DEF Fault
  <2>. QED  BY <2>1, <2>2
<1>6. CASE CheckUpcoming(h)
  BY <1>1, <1>6 DEF CheckUpcoming, Refuse, tables
<1>7. CASE CheckLocation(h) \/ CheckConflicts(h)
  BY <1>1, <1>7 DEF CheckLocation, CheckConflicts, Refuse, tables
<1>8. CASE Insert(h)
  BY <1>1, <1>2, <1>8 DEF Insert
<1>9. CASE FinishSeries(h) \/ Update(h) \/ FailWrite(h) \/ Delete(h)
  BY <1>1, <1>9 DEF FinishSeries, Update, FailWrite, Delete
<1>. QED  BY <1>3, <1>4, <1>5, <1>6, <1>7, <1>8, <1>9 DEF Serve

\* A step that neither writes a row nor lets a handler past the check.
LEMMA HoldingQuiet ==
  ASSUME HoldingInv, faults = 0, UNCHANGED bookings,
         \A k \in Handlers : PastRequest(k)' => PastRequest(k) /\ job'[k] = job[k]
  PROVE  HoldingInv'
<1>. SUFFICES ASSUME Settings.maxConcurrentBookingsPerUser # 0, NEW u \in Users, NEW t \in Nat
              PROVE  Cardinality(ClaimedFor(u, t)') + Cardinality(AddingFor(u, t)')
                       <= Settings.maxConcurrentBookingsPerUser + Cardinality(Handlers) - 1
  BY DEF HoldingInv
<1>1. HeldAt(u, t)' = HeldAt(u, t)
  BY DEF HeldAt, Live
<1>2. ASSUME NEW k \in MovingFor(u, t)' PROVE k \in MovingFor(u, t) /\ job'[k] = job[k]
  BY <1>2 DEF MovingFor, Booking
<1>3. AddingFor(u, t)' \subseteq AddingFor(u, t)
  BY DEF AddingFor, Booking
<1>4. ClaimedFor(u, t)' \subseteq ClaimedFor(u, t)
  BY <1>1, <1>2 DEF ClaimedFor
<1>5. Cardinality(ClaimedFor(u, t)') + Cardinality(AddingFor(u, t)')
        <= Cardinality(ClaimedFor(u, t)) + Cardinality(AddingFor(u, t))
  BY <1>3, <1>4, BothShrink, HoldingFinite
<1>. QED  BY <1>5, HoldingFinite, Finite, Limits DEF HoldingInv

\* A handler passes the check.
LEMMA HoldingPass ==
  ASSUME SpaceAdmins = {}, TypeInv, IdsInv, UsersInv, HoldingInv, faults = 0, NEW h \in Handlers,
         isValidMaxConcurrentBookingsForUser(job[h].by, Booking(job[h]), FALSE),
         pc[h] = "checkRequest", UNCHANGED <<bookings, job>>,
         \A k \in Handlers \ {h} : pc'[k] = pc[k]
  PROVE  HoldingInv'
<1>. SUFFICES ASSUME Settings.maxConcurrentBookingsPerUser # 0, NEW u \in Users, NEW t \in Nat
              PROVE  Cardinality(ClaimedFor(u, t)') + Cardinality(AddingFor(u, t)')
                       <= Settings.maxConcurrentBookingsPerUser + Cardinality(Handlers) - 1
  BY DEF HoldingInv
<1>. DEFINE b == Booking(job[h])
            U == MovingFor(u, t)'
            N == AddingFor(u, t)'
            limit == Settings.maxConcurrentBookingsPerUser
<1>0. /\ b \in Row /\ b.id = job[h].first.id /\ b.user = job[h].first.user /\ job[h] \in Job
      /\ job[h].op # "delete" /\ limit \in Nat
  BY BookingIsRow, Limits DEF TypeInv, JobsFit, IdsInv
<1>1. CASE During(b, u, t) /\ PastRequest(h)'
  <2>. DEFINE A == HeldAt(u, t) \ {b.id}
              T == {i \in Ids : \E k \in U : job[k].first.id = i}
              f == [k \in U |-> job[k].first.id]
  <2>1. Cardinality(A) < limit /\ IsFiniteSet(A)
    <3>1. job[h].by = u
      BY <1>0, <1>1 DEF UsersInv, Job, Ops, During
    <3>2. isValidMaxConcurrentBookingsForUser(u, b, FALSE)
      BY <3>1
    <3>. HIDE DEF b
    <3>3. Cardinality(A) < limit
      BY <1>0, <1>1, <3>2, RequestCounts
    <3>4. A \in SUBSET Ids
      BY DEF HeldAt, Live
    <3>. QED  BY <3>3, <3>4, Finite
  <2>2. \A i \in T : \E k \in U : f[k] = i
    OBVIOUS
  <2>3. U \in SUBSET Handlers /\ N \in SUBSET Handlers /\ U \cap N = {}
    BY DEF MovingFor, AddingFor
  <2>4. ClaimedFor(u, t)' \subseteq A \cup T
    <3>1. HeldAt(u, t)' = HeldAt(u, t)
      BY DEF HeldAt, Live
    <3>2. b.id \in T \/ b.id \notin HeldAt(u, t)
      <4>1. CASE job[h].op = "update"
        <5>1. h \in U
          BY <1>1, <4>1 DEF MovingFor, Booking, During
        <5>2. b.id \in Ids
          BY <1>0, <4>1 DEF IdsInv
        <5>. QED  BY <1>0, <5>1, <5>2
      <4>2. CASE job[h].op \in {"create", "series"}
        BY <1>0, <4>2 DEF TypeInv, JobsFit, HeldAt, Live, Ids, NoId
      <4>. QED  BY <1>0, <4>1, <4>2 DEF Job, Ops
    <3>. QED  BY <3>1, <3>2 DEF ClaimedFor
  <2>. HIDE DEF A, T, f, U, N, limit
  <2>5. Cardinality(A \cup T) + Cardinality(N) <= limit + Cardinality(Handlers) - 1
    BY <1>0, <2>1, <2>2, <2>3, Finite, CheckedCount
  <2>6. IsFiniteSet(A \cup T) /\ IsFiniteSet(N) /\ N \in SUBSET N
    <3>1. T \in SUBSET Ids
      BY DEF T
    <3>. QED  BY <2>1, <2>3, <3>1, Finite, FS_Union
  <2>7. Cardinality(ClaimedFor(u, t)') + Cardinality(N)
          <= Cardinality(A \cup T) + Cardinality(N)
    BY <2>4, <2>6, BothShrink
  <2>8. Cardinality(A \cup T) + Cardinality(N) \in Nat
    BY <2>6, BothShrink
  <2>. QED  BY <1>0, <2>5, <2>7, <2>8, Finite, HoldingFinite DEF N, limit
<1>2. CASE ~(During(b, u, t) /\ PastRequest(h)')
  <2>1. HeldAt(u, t)' = HeldAt(u, t)
    BY DEF HeldAt, Live
  <2>2. U \subseteq MovingFor(u, t) /\ N \subseteq AddingFor(u, t)
    BY <1>2 DEF MovingFor, AddingFor, Booking, PastRequest, During
  <2>3. ClaimedFor(u, t)' \subseteq ClaimedFor(u, t)
    BY <2>1, <2>2 DEF ClaimedFor
  <2>4. Cardinality(ClaimedFor(u, t)') + Cardinality(N)
          <= Cardinality(ClaimedFor(u, t)) + Cardinality(AddingFor(u, t))
    BY <2>2, <2>3, BothShrink, HoldingFinite
  <2>. QED  BY <1>0, <2>4, HoldingFinite, Finite DEF HoldingInv
<1>. QED  BY <1>1, <1>2

\* An INSERT: the request leaves those between check and write, its row joins.
LEMMA HoldingInsert ==
  ASSUME TypeInv, IdsInv, HoldingInv, faults = 0, NEW h \in Handlers, Insert(h)
  PROVE  HoldingInv'
<1>. SUFFICES ASSUME Settings.maxConcurrentBookingsPerUser # 0, NEW u \in Users, NEW t \in Nat
              PROVE  Cardinality(ClaimedFor(u, t)') + Cardinality(AddingFor(u, t)')
                       <= Settings.maxConcurrentBookingsPerUser + Cardinality(Handlers) - 1
  BY DEF HoldingInv
<1>. DEFINE b == Booking(job[h])
            row == [b EXCEPT !.id = nextId]
<1>0. /\ b \in Row
      /\ row.user = b.user /\ row.enter = b.enter /\ row.leave = b.leave
      /\ pc[h] = "write" /\ job[h].op \in {"create", "series"}
  BY BookingIsRow DEF Insert, Row
<1>1. bookings' = [bookings EXCEPT ![nextId] = row] /\ nextId \in Ids
      /\ bookings \in [Ids -> Row \cup {Blank}]
  BY DEF Insert, TypeInv, TypeOK
<1>2. /\ \A k \in Handlers \ {h} : pc'[k] = pc[k] /\ job'[k] = job[k]
      /\ ~PastRequest(h)'
  <2>1. ~PastRequest(h)'
    BY DEF Insert, Answer, Goto, TypeInv, TypeOK, PastRequest
  <2>. QED  BY <2>1, Course DEF Serve
<1>. HIDE DEF row, b
<1>3. HeldAt(u, t)' \subseteq HeldAt(u, t) \cup (IF During(b, u, t) THEN {nextId} ELSE {})
  BY <1>0, <1>1 DEF HeldAt, Live, During
<1>4. /\ MovingFor(u, t)' \subseteq MovingFor(u, t)
      /\ \A k \in MovingFor(u, t)' : job'[k] = job[k]
      /\ AddingFor(u, t)' \subseteq AddingFor(u, t) \ {h}
  BY <1>2 DEF MovingFor, AddingFor, Booking, PastRequest
<1>5. ClaimedFor(u, t)' \subseteq ClaimedFor(u, t)
        \cup (IF During(b, u, t) THEN {nextId} ELSE {})
  BY <1>3, <1>4 DEF ClaimedFor
<1>6. Cardinality(ClaimedFor(u, t)') + Cardinality(AddingFor(u, t)')
        <= Cardinality(ClaimedFor(u, t)) + Cardinality(AddingFor(u, t))
  <2>1. CASE During(b, u, t)
    <3>1. h \in AddingFor(u, t)
      BY <1>0, <2>1 DEF AddingFor, PastRequest, b
    <3>. QED  BY <1>4, <1>5, <2>1, <3>1, HoldingFinite, OneMovesOver
  <2>2. CASE ~During(b, u, t)
    BY <1>4, <1>5, <2>2, HoldingFinite, BothShrink
  <2>. QED  BY <2>1, <2>2
<1>. QED  BY <1>6, HoldingFinite, Finite, Limits DEF HoldingInv

\* An UPDATE: the row that now is the user's at t was claimed.
LEMMA HoldingUpdate ==
  ASSUME TypeInv, IdsInv, HoldingInv, faults = 0, NEW h \in Handlers, Update(h) \/ Delete(h)
  PROVE  HoldingInv'
<1>. SUFFICES ASSUME Settings.maxConcurrentBookingsPerUser # 0, NEW u \in Users, NEW t \in Nat
              PROVE  Cardinality(ClaimedFor(u, t)') + Cardinality(AddingFor(u, t)')
                       <= Settings.maxConcurrentBookingsPerUser + Cardinality(Handlers) - 1
  BY DEF HoldingInv
<1>0. bookings \in [Ids -> Row \cup {Blank}]
  BY DEF TypeInv, TypeOK
<1>1. /\ \A k \in Handlers \ {h} : pc'[k] = pc[k] /\ job'[k] = job[k]
      /\ ~PastRequest(h)'
  <2>1. ~PastRequest(h)'
    BY DEF Update, Delete, Answer, Goto, TypeInv, TypeOK, PastRequest
  <2>. QED  BY <2>1, Course DEF Serve
<1>2. /\ MovingFor(u, t)' \subseteq MovingFor(u, t)
      /\ \A k \in MovingFor(u, t)' : job'[k] = job[k]
      /\ AddingFor(u, t)' \subseteq AddingFor(u, t)
  BY <1>1 DEF MovingFor, AddingFor, Booking, PastRequest
<1>3. HeldAt(u, t)' \subseteq ClaimedFor(u, t)
  <2>1. CASE Update(h)
    <3>. DEFINE row == job[h].first
    <3>1. bookings' = Stored(row) /\ pc[h] = "write" /\ job[h].op = "update"
          /\ Booking(job[h]) = row
      BY <2>1 DEF Update, Booking
    <3>2. During(row, u, t) => h \in MovingFor(u, t)
      BY <3>1 DEF MovingFor, PastRequest
    <3>3. ASSUME NEW i \in HeldAt(u, t)'
          PROVE  i \in HeldAt(u, t) \/ (i = row.id /\ During(row, u, t) /\ i \in Ids)
      BY <1>0, <3>1, <3>3 DEF HeldAt, Live, Stored, During
    <3>. QED  BY <3>2, <3>3 DEF ClaimedFor
  <2>2. CASE Delete(h)
    <3>1. bookings' = bookings \/ bookings' = [bookings EXCEPT ![job[h].first.id] = Blank]
      BY <2>2 DEF Delete
    <3>. QED  BY <1>0, <3>1 DEF HeldAt, Live, ClaimedFor
  <2>. QED  BY <2>1, <2>2
<1>4. ClaimedFor(u, t)' \subseteq ClaimedFor(u, t)
  BY <1>2, <1>3 DEF ClaimedFor
<1>5. Cardinality(ClaimedFor(u, t)') + Cardinality(AddingFor(u, t)')
        <= Cardinality(ClaimedFor(u, t)) + Cardinality(AddingFor(u, t))
  BY <1>2, <1>4, BothShrink, HoldingFinite
<1>. QED  BY <1>5, HoldingFinite, Finite, Limits DEF HoldingInv

\* No step that fails nothing breaks HoldingInv.
LEMMA HoldingStep ==
  ASSUME SpaceAdmins = {}, TypeInv, IdsInv, NoMirror, UsersInv, HoldingInv, [Next]_vars
  PROVE  HoldingInv'
<1>. SUFFICES ASSUME faults' = 0 PROVE HoldingInv'
  BY DEF HoldingInv
<1>0. faults = 0
  BY FaultsGrow
<1>1. ASSUME NEW h \in Handlers, Receive(h) \/ Serve(h) PROVE HoldingInv'
  <2>1. CASE Insert(h)
    BY <1>0, <2>1, HoldingInsert
  <2>2. CASE Update(h) \/ Delete(h)
    BY <1>0, <2>2, HoldingUpdate
  <2>3. CASE ~(Insert(h) \/ Update(h) \/ Delete(h))
    <3>1. UNCHANGED bookings
      BY <1>1, <2>3
      DEF Receive, ReceiveCreate, ReceiveUpdate, ReceiveDelete, Serve, BookForUser, CountUsers,
          CreateUser, CheckRequest, CheckUpcoming, CheckLocation, CheckConflicts, FinishSeries,
          FailWrite, tables
    <3>2. \A k \in Handlers \ {h} : pc'[k] = pc[k] /\ job'[k] = job[k]
      BY <1>1, Course
    <3>3. CASE /\ isValidMaxConcurrentBookingsForUser(job[h].by, Booking(job[h]), FALSE)
               /\ pc[h] = "checkRequest" /\ job' = job
      BY <1>0, <3>1, <3>2, <3>3, HoldingPass
    <3>4. CASE PastRequest(h)' => PastRequest(h) /\ job' = job
      BY <1>0, <3>1, <3>2, <3>4, HoldingQuiet DEF PastRequest
    <3>. QED  BY <1>0, <1>1, <3>3, <3>4, PassesRequest
  <2>. QED  BY <2>1, <2>2, <2>3
<1>2. ASSUME NEW g \in Goroutines, Mirror(g) PROVE FALSE
  BY <1>2 DEF Mirror, SendEvent, SaveEvent, RemoveEvent, NoMirror, NoTask
<1>3. CASE Crash
  BY <1>0, <1>3 DEF Crash, Fault
<1>4. CASE Tick \/ UNCHANGED vars
  BY <1>0, <1>4, HoldingQuiet DEF Tick, vars, tables, handlers, PastRequest
<1>. QED  BY <1>1, <1>2, <1>3, <1>4 DEF Next

LEMMA HoldingInit == Init => HoldingInv
<1>. SUFFICES ASSUME Init, NEW u \in Users, NEW t \in Nat
              PROVE  Cardinality(ClaimedFor(u, t)) + Cardinality(AddingFor(u, t))
                       <= Settings.maxConcurrentBookingsPerUser + Cardinality(Handlers) - 1
  BY DEF HoldingInv
<1>1. ClaimedFor(u, t) = {} /\ AddingFor(u, t) = {}
  BY DEF Init, ClaimedFor, AddingFor, HeldAt, Live, MovingFor, PastRequest
<1>. QED  BY <1>1, Limits, Finite, FS_EmptySet

----------------------------------------------------------------------------
(* Bookings ahead of a user: an update adds none, and none is over.        *)

NoneOver == \A i \in Live : bookings[i].leave >= now

RowsOf(u) == {i \in Live : bookings[i].user = u}

\* Requests for a new booking of u past isValidMaxUpcomingBookings.
AskingFor(u) ==
  {h \in Handlers : /\ pc[h] \in {"checkLocation", "checkConflicts", "write"}
                    /\ job[h].op \in {"create", "series"} /\ job[h].first.user = u}

AheadInv ==
  faults = 0 => \A u \in Users :
    Cardinality(RowsOf(u)) + Cardinality(AskingFor(u))
      <= Settings.maxBookingsPerUser + Cardinality(Handlers) - 1

LEMMA AheadFinite ==
  ASSUME NEW u
  PROVE  /\ IsFiniteSet(RowsOf(u)) /\ IsFiniteSet(AskingFor(u))
         /\ Cardinality(RowsOf(u)) + Cardinality(AskingFor(u)) \in Nat
         /\ Cardinality(RowsOf(u)') + Cardinality(AskingFor(u)') \in Nat
<1>1. /\ RowsOf(u) \in SUBSET Ids /\ AskingFor(u) \in SUBSET Handlers
      /\ RowsOf(u)' \in SUBSET Ids /\ AskingFor(u)' \in SUBSET Handlers
  BY DEF RowsOf, AskingFor, Live
<1>2. /\ IsFiniteSet(RowsOf(u)) /\ IsFiniteSet(AskingFor(u))
      /\ IsFiniteSet(RowsOf(u)') /\ IsFiniteSet(AskingFor(u)')
  BY <1>1, Finite
<1>. QED  BY <1>2, BothShrink

\* Rows and requests that do not grow stay within the bound.
LEMMA AheadShrinks ==
  ASSUME AheadInv, faults = 0, NEW u \in Users,
         Cardinality(RowsOf(u)') + Cardinality(AskingFor(u)')
           <= Cardinality(RowsOf(u)) + Cardinality(AskingFor(u))
  PROVE  Cardinality(RowsOf(u)') + Cardinality(AskingFor(u)')
           <= Settings.maxBookingsPerUser + Cardinality(Handlers) - 1
BY AheadFinite, Finite, Limits DEF AheadInv

\* Where a request for a new booking past checkUpcoming comes from, as long as
\* nothing fails.
LEMMA PassesUpcoming ==
  ASSUME TypeInv, NEW h \in Handlers, Receive(h) \/ Serve(h), faults = 0, faults' = 0,
         pc'[h] \in {"checkLocation", "checkConflicts", "write"},
         job'[h].op \in {"create", "series"}
  PROVE  /\ job' = job /\ bookings' = bookings
         /\ \/ pc[h] \in {"checkLocation", "checkConflicts", "write"}
            \/ isValidMaxUpcomingBookings(job[h].by, FALSE) /\ pc[h] = "checkUpcoming"
<1>0. pc \in [Handlers -> Steps]
  BY DEF TypeInv, TypeOK
<1>1. ASSUME NEW a, Answer(h, a) PROVE FALSE
  BY <1>0, <1>1 DEF Answer, Goto
<1>2. ASSUME NEW step, Goto(h, step), step \notin {"checkLocation", "checkConflicts", "write"}
      PROVE  FALSE
  BY <1>0, <1>2 DEF Goto
<1>3. CASE Receive(h)
  <2>1. CASE ReceiveCreate(h)
    BY <1>1, <1>2, <2>1 DEF ReceiveCreate
  <2>2. CASE ReceiveUpdate(h)
    BY <1>1, <1>2, <2>2 DEF ReceiveUpdate
  <2>3. CASE ReceiveDelete(h)
    BY <1>1, <1>2, <2>3 DEF ReceiveDelete
  <2>. QED  BY <1>3, <2>1, <2>2, <2>3 DEF Receive
<1>4. CASE BookForUser(h) \/ CountUsers(h) \/ CreateUser(h)
  BY <1>1, <1>2, <1>4 DEF BookForUser, CountUsers, CreateUser
<1>5. CASE CheckRequest(h)
  <2>1. job' = job /\ Goto(h, IF job[h].op = "update" THEN "checkLocation" ELSE "checkUpcoming")
    BY <1>1, <1>5 DEF CheckRequest, Refuse
  <2>2. job[h].op # "update"
    BY <2>1
  <2>. QED  BY <1>2, <2>1, <2>2
<1>6. CASE CheckUpcoming(h)
  <2>1. /\ pc[h] = "checkUpcoming" /\ job' = job /\ bookings' = bookings
        /\ isValidMaxUpcomingBookings(job[h].by, FALSE) \/ Fault
    BY <1>1, <1>6 DEF CheckUpcoming, Refuse, tables
  <2>2. ~Fault
    BY DEF Fault
  <2>. QED  BY <2>1, <2>2
<1>7. CASE CheckLocation(h) \/ CheckConflicts(h)
  BY <1>1, <1>7 DEF CheckLocation, CheckConflicts, Refuse, tables
<1>8. CASE Insert(h)
  BY <1>1, <1>2, <1>8 DEF Insert
<1>9. CASE FinishSeries(h) \/ Update(h) \/ FailWrite(h) \/ Delete(h)
  BY <1>1, <1>9 DEF FinishSeries, Update, FailWrite, Delete
<1>. QED  BY <1>3, <1>4, <1>5, <1>6, <1>7, <1>8, <1>9 DEF Serve

\* A step that neither writes a row nor lets a request past the check.
LEMMA AheadQuiet ==
  ASSUME AheadInv, faults = 0, UNCHANGED bookings,
         \A k \in Handlers :
           /\ pc'[k] \in {"checkLocation", "checkConflicts", "write"}
           /\ job'[k].op \in {"create", "series"}
           => pc[k] \in {"checkLocation", "checkConflicts", "write"} /\ job'[k] = job[k]
  PROVE  AheadInv'
<1>. SUFFICES ASSUME NEW u \in Users
              PROVE  Cardinality(RowsOf(u)') + Cardinality(AskingFor(u)')
                       <= Settings.maxBookingsPerUser + Cardinality(Handlers) - 1
  BY DEF AheadInv
<1>1. RowsOf(u)' \subseteq RowsOf(u) /\ AskingFor(u)' \subseteq AskingFor(u)
  BY DEF RowsOf, Live, AskingFor
<1>. QED  BY <1>1, BothShrink, AheadFinite, AheadShrinks

\* A request passes the check.
LEMMA AheadPass ==
  ASSUME SpaceAdmins = {}, TypeInv, IdsInv, UsersInv, AheadInv, NoneOver, faults = 0,
         NEW h \in Handlers, isValidMaxUpcomingBookings(job[h].by, FALSE),
         pc[h] = "checkUpcoming", UNCHANGED <<bookings, job>>,
         job[h].op \in {"create", "series"},
         \A k \in Handlers \ {h} : pc'[k] = pc[k]
  PROVE  AheadInv'
<1>. SUFFICES ASSUME NEW u \in Users
              PROVE  Cardinality(RowsOf(u)') + Cardinality(AskingFor(u)')
                       <= Settings.maxBookingsPerUser + Cardinality(Handlers) - 1
  BY DEF AheadInv
<1>0. RowsOf(u)' = RowsOf(u)
  BY DEF RowsOf, Live
<1>1. CASE job[h].first.user = u
  <2>. DEFINE A == RowsOf(u)
              N == AskingFor(u)'
  <2>1. A = GetAllByUser(u)
    BY DEF NoneOver, RowsOf, GetAllByUser
  <2>2. Cardinality(A) < Settings.maxBookingsPerUser
    <3>1. job[h].by = u
      BY <1>1 DEF UsersInv
    <3>2. Cardinality(GetAllByUser(u)) < Settings.maxBookingsPerUser
      BY <3>1 DEF isValidMaxUpcomingBookings, Unrestricted
    <3>. QED  BY <2>1, <3>2
  <2>3. IsFiniteSet(A) /\ N \in SUBSET Handlers
    BY AheadFinite DEF AskingFor
  <2>. HIDE DEF A, N
  <2>4. Cardinality(A \cup {}) + Cardinality(N)
          <= Settings.maxBookingsPerUser + Cardinality(Handlers) - 1
    <3>. DEFINE none == [k \in {} |-> k]
    <3>1. \A i \in {} : \E k \in {} : none[k] = i
      OBVIOUS
    <3>2. {} \in SUBSET Handlers /\ {} \cap N = {}
      OBVIOUS
    <3>. HIDE DEF none
    <3>. QED  BY <2>2, <2>3, <3>1, <3>2, Finite, Limits, CheckedCount
  <2>5. A \cup {} = A
    OBVIOUS
  <2>. QED  BY <1>0, <2>4, <2>5 DEF A, N
<1>2. CASE job[h].first.user # u
  <2>1. AskingFor(u)' \subseteq AskingFor(u)
    BY <1>2 DEF AskingFor
  <2>. QED  BY <1>0, <2>1, BothShrink, AheadFinite, AheadShrinks
<1>. QED  BY <1>1, <1>2

\* An INSERT adds the row that was asked for.
LEMMA AheadInsert ==
  ASSUME TypeInv, AheadInv, faults = 0, NEW h \in Handlers, Insert(h)
  PROVE  AheadInv'
<1>. SUFFICES ASSUME NEW u \in Users
              PROVE  Cardinality(RowsOf(u)') + Cardinality(AskingFor(u)')
                       <= Settings.maxBookingsPerUser + Cardinality(Handlers) - 1
  BY DEF AheadInv
<1>. DEFINE b == Booking(job[h])
            row == [b EXCEPT !.id = nextId]
<1>0. /\ b \in Row /\ row.user = job[h].first.user
      /\ pc[h] = "write" /\ job[h].op \in {"create", "series"}
  BY BookingIsRow DEF Insert, Row
<1>1. bookings' = [bookings EXCEPT ![nextId] = row] /\ nextId \in Ids
      /\ bookings \in [Ids -> Row \cup {Blank}]
  BY DEF Insert, TypeInv, TypeOK
<1>2. /\ \A k \in Handlers \ {h} : pc'[k] = pc[k] /\ job'[k] = job[k]
      /\ pc'[h] \notin {"checkLocation", "checkConflicts", "write"}
  <2>1. pc'[h] \notin {"checkLocation", "checkConflicts", "write"}
    BY DEF Insert, Answer, Goto, TypeInv, TypeOK
  <2>. QED  BY <2>1, Course DEF Serve
<1>. HIDE DEF row, b
<1>3. RowsOf(u)' \subseteq RowsOf(u) \cup (IF row.user = u THEN {nextId} ELSE {})
  BY <1>1 DEF RowsOf, Live
<1>4. AskingFor(u)' \subseteq AskingFor(u) \ {h}
  BY <1>2 DEF AskingFor
<1>5. CASE row.user = u
  <2>1. h \in AskingFor(u)
    BY <1>0, <1>5 DEF AskingFor
  <2>. QED  BY <1>3, <1>4, <1>5, <2>1, OneMovesOver, AheadFinite, AheadShrinks
<1>6. CASE row.user # u
  BY <1>3, <1>4, <1>6, BothShrink, AheadFinite, AheadShrinks
<1>. QED  BY <1>5, <1>6

\* An UPDATE leaves a row its user, a DELETE takes it away.
LEMMA AheadUpdate ==
  ASSUME TypeInv, UsersInv, AheadInv, faults = 0, NEW h \in Handlers, Update(h) \/ Delete(h)
  PROVE  AheadInv'
<1>. SUFFICES ASSUME NEW u \in Users
              PROVE  Cardinality(RowsOf(u)') + Cardinality(AskingFor(u)')
                       <= Settings.maxBookingsPerUser + Cardinality(Handlers) - 1
  BY DEF AheadInv
<1>0. bookings \in [Ids -> Row \cup {Blank}]
  BY DEF TypeInv, TypeOK
<1>1. RowsOf(u)' \subseteq RowsOf(u)
  <2>1. CASE Update(h)
    <3>1. bookings' = Stored(job[h].first)
          /\ (job[h].first.id \in Live => bookings[job[h].first.id].user = job[h].first.user)
      BY <2>1 DEF Update, UsersInv
    <3>. QED  BY <1>0, <3>1 DEF RowsOf, Live, Stored
  <2>2. CASE Delete(h)
    <3>1. bookings' = bookings \/ bookings' = [bookings EXCEPT ![job[h].first.id] = Blank]
      BY <2>2 DEF Delete
    <3>. QED  BY <1>0, <3>1 DEF RowsOf, Live
  <2>. QED  BY <2>1, <2>2
<1>2. AskingFor(u)' \subseteq AskingFor(u)
  <2>1. pc'[h] \notin {"checkLocation", "checkConflicts", "write"}
    BY DEF Update, Delete, Answer, Goto, TypeInv, TypeOK
  <2>. QED  BY <2>1, Course DEF Serve, AskingFor
<1>. QED  BY <1>1, <1>2, BothShrink, AheadFinite, AheadShrinks

\* No step that fails nothing, at a time when none is over, breaks AheadInv.
LEMMA AheadStep ==
  ASSUME SpaceAdmins = {}, TypeInv, IdsInv, NoMirror, UsersInv, AheadInv, NoneOver, [Next]_vars
  PROVE  AheadInv'
<1>. SUFFICES ASSUME faults' = 0 PROVE AheadInv'
  BY DEF AheadInv
<1>0. faults = 0
  BY FaultsGrow
<1>1. ASSUME NEW h \in Handlers, Receive(h) \/ Serve(h) PROVE AheadInv'
  <2>1. CASE Insert(h)
    BY <1>0, <2>1, AheadInsert
  <2>2. CASE Update(h) \/ Delete(h)
    BY <1>0, <2>2, AheadUpdate
  <2>3. CASE ~(Insert(h) \/ Update(h) \/ Delete(h))
    <3>. DEFINE past == {"checkLocation", "checkConflicts", "write"}
    <3>1. UNCHANGED bookings
      BY <1>1, <2>3
      DEF Receive, ReceiveCreate, ReceiveUpdate, ReceiveDelete, Serve, BookForUser, CountUsers,
          CreateUser, CheckRequest, CheckUpcoming, CheckLocation, CheckConflicts, FinishSeries,
          FailWrite, tables
    <3>2. \A k \in Handlers \ {h} : pc'[k] = pc[k] /\ job'[k] = job[k]
      BY <1>1, Course
    <3>3. CASE pc'[h] \in past /\ job'[h].op \in {"create", "series"} /\ pc[h] \notin past
      <4>1. /\ isValidMaxUpcomingBookings(job[h].by, FALSE) /\ pc[h] = "checkUpcoming"
            /\ job' = job
        BY <1>0, <1>1, <3>3, PassesUpcoming
      <4>. QED  BY <1>0, <3>1, <3>2, <3>3, <4>1, AheadPass
    <3>4. CASE pc'[h] \in past /\ job'[h].op \in {"create", "series"} /\ pc[h] \in past
      <4>1. job' = job
        BY <1>0, <1>1, <3>4, PassesUpcoming
      <4>. QED  BY <1>0, <3>1, <3>2, <3>4, <4>1, AheadQuiet
    <3>5. CASE ~(pc'[h] \in past /\ job'[h].op \in {"create", "series"})
      BY <1>0, <3>1, <3>2, <3>5, AheadQuiet
    <3>. QED  BY <3>3, <3>4, <3>5
  <2>. QED  BY <2>1, <2>2, <2>3
<1>2. ASSUME NEW g \in Goroutines, Mirror(g) PROVE FALSE
  BY <1>2 DEF Mirror, SendEvent, SaveEvent, RemoveEvent, NoMirror, NoTask
<1>3. CASE Crash
  BY <1>0, <1>3 DEF Crash, Fault
<1>4. CASE Tick \/ UNCHANGED vars
  BY <1>0, <1>4, AheadQuiet DEF Tick, vars, tables, handlers
<1>. QED  BY <1>1, <1>2, <1>3, <1>4 DEF Next

LEMMA AheadInit == Init => AheadInv
<1>. SUFFICES ASSUME Init, NEW u \in Users
              PROVE  Cardinality(RowsOf(u)) + Cardinality(AskingFor(u))
                       <= Settings.maxBookingsPerUser + Cardinality(Handlers) - 1
  BY DEF AheadInv
<1>1. RowsOf(u) = {} /\ AskingFor(u) = {}
  BY DEF Init, RowsOf, Live, AskingFor
<1>. QED  BY <1>1, Limits, Finite, FS_EmptySet

\* However n requests interleave and wherever the process dies, they take a
\* user n - 1 bookings over each limit at most: where nobody books for somebody
\* else and no calendar goroutine moves bookings, as long as no query fails, and
\* no booking is over.
THEOREM UserLimitsExceededByOneLess ==
  ASSUME SpaceAdmins = {}, CalDavUsers = {}
  PROVE  Spec /\ []NoneOver => []UserLimitsExceededByRacesOnly
<1>1. ASSUME TypeInv, HoldingInv PROVE UserConcurrencyExceededByRacesOnly
  <2>. DEFINE limit == Settings.maxConcurrentBookingsPerUser
  <2>. SUFFICES ASSUME limit # 0, faults = 0, NEW i \in Live
                PROVE  Cardinality(HeldAt(bookings[i].user, bookings[i].enter))
                         <= limit + Cardinality(Handlers) - 1
    BY DEF UserConcurrencyExceededByRacesOnly
  <2>. DEFINE u == bookings[i].user
              t == bookings[i].enter
  <2>1. u \in Users /\ t \in Nat
    BY <1>1 DEF Live, TypeInv, TypeOK, Row
  <2>. HIDE DEF u, t
  <2>2. Cardinality(ClaimedFor(u, t)) + Cardinality(AddingFor(u, t))
          <= limit + Cardinality(Handlers) - 1
    BY <1>1, <2>1 DEF HoldingInv
  <2>3. HeldAt(u, t) \in SUBSET ClaimedFor(u, t)
    BY DEF ClaimedFor
  <2>4. /\ Cardinality(HeldAt(u, t)) <= Cardinality(ClaimedFor(u, t))
        /\ Cardinality(HeldAt(u, t)) \in Nat /\ Cardinality(ClaimedFor(u, t)) \in Nat
        /\ Cardinality(AddingFor(u, t)) \in Nat
    BY <2>3, HoldingFinite, FS_Subset, FS_CardinalityType
  <2>. QED  BY <2>2, <2>4, Finite, Limits DEF u, t
<1>2. ASSUME AheadInv PROVE UpcomingExceededByRacesOnly
  <2>. SUFFICES ASSUME faults = 0, NEW u \in Users
                PROVE  Cardinality(GetAllByUser(u))
                         <= Settings.maxBookingsPerUser + Cardinality(Handlers) - 1
    BY DEF UpcomingExceededByRacesOnly
  <2>1. GetAllByUser(u) \in SUBSET RowsOf(u)
    BY DEF GetAllByUser, RowsOf
  <2>2. /\ Cardinality(GetAllByUser(u)) <= Cardinality(RowsOf(u))
        /\ Cardinality(GetAllByUser(u)) \in Nat /\ Cardinality(RowsOf(u)) \in Nat
        /\ Cardinality(AskingFor(u)) \in Nat
    BY <2>1, AheadFinite, FS_Subset, FS_CardinalityType
  <2>. QED  BY <1>2, <2>2, Finite, Limits DEF AheadInv
<1>3. TypeInv /\ IdsInv /\ NoMirror /\ UsersInv /\ HoldingInv /\ [Next]_vars => HoldingInv'
  BY HoldingStep
<1>4. TypeInv /\ IdsInv /\ NoMirror /\ UsersInv /\ AheadInv /\ NoneOver /\ [Next]_vars => AheadInv'
  BY AheadStep
<1>5. Spec /\ []NoneOver => []AheadInv
  BY <1>4, AheadInit, TypeInvariance, IdsInvariance, NoMirrorInvariance, UsersInvariance, PTL
  DEF Spec
<1>6. Spec => []HoldingInv
  BY <1>3, HoldingInit, TypeInvariance, IdsInvariance, NoMirrorInvariance, UsersInvariance, PTL
  DEF Spec
<1>7. TypeInv /\ HoldingInv /\ AheadInv => UserLimitsExceededByRacesOnly
  BY <1>1, <1>2 DEF UserLimitsExceededByRacesOnly
<1>. QED  BY <1>5, <1>6, <1>7, TypeInvariance, PTL
=============================================================================
