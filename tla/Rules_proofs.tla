----------------------------- MODULE Rules_proofs -----------------------------
(***************************************************************************)
(* What the SQL range predicates of Intervals and the rules of             *)
(* BookingRules mean, for all times and all settings.  The theorems about  *)
(* ranges stand on their own; those about rules are about every request,   *)
(* user and moment MCRules goes through, however long it goes on.          *)
(***************************************************************************)
EXTENDS MCRules, FiniteSetTheorems, TLAPS

----------------------------------------------------------------------------
(* Ranges.                                                                 *)

\* GetConflicts finds the closed ranges that share an instant with the
\* requested one, when neither ends before it starts.
THEOREM ConflictIsShare ==
  ASSUME NEW b \in Ranges(Int), NEW r \in Ranges(Int), Proper(b), Proper(r)
  PROVE  InConflict(b, r.enter, r.leave) <=> Share(b, r)
BY DEF Ranges, Proper, InConflict, Share

\* GetTimeRangeByUser finds the ranges that share more than an instant, its
\* missing "bigger than" case included.
THEOREM UserRangeOverlaps ==
  ASSUME NEW b \in Ranges(Int), NEW r \in Ranges(Int), Lasting(b), Lasting(r)
  PROVE  InUserRange(b, r.enter, r.leave) <=> Overlap(b, r)
BY DEF Ranges, Lasting, InUserRange, Overlap

\* A space that GetAllInTime shows as taken is one GetConflicts refuses, even
\* for ranges that end before they start; the other way round it misses, of
\* the ranges that last, just the bookings that end when the request starts.
THEOREM TakenIsConflict ==
  ASSUME NEW b \in Ranges(Int), NEW r \in Ranges(Int)
  PROVE  /\ IsOccupying(b, r.enter, r.leave) => InConflict(b, r.enter, r.leave)
         /\ Lasting(b) /\ Lasting(r) /\ InConflict(b, r.enter, r.leave)
              => IsOccupying(b, r.enter, r.leave) \/ r.enter = b.leave
<1>1. IsOccupying(b, r.enter, r.leave) => InConflict(b, r.enter, r.leave)
  BY DEF Ranges, IsOccupying, InConflict
<1>2. Lasting(b) /\ Lasting(r) /\ InConflict(b, r.enter, r.leave)
        => IsOccupying(b, r.enter, r.leave) \/ r.enter = b.leave
  BY DEF Ranges, Lasting, IsOccupying, InConflict
<1>. QED  BY <1>1, <1>2

----------------------------------------------------------------------------
(* The requests MCRules goes through.                                      *)

Times == enter \in Nat /\ leave \in Nat /\ now \in Nat

LEMMA TimesInvariance == Spec => []Times
<1>1. Init => Times
  BY DEF Init, Times
<1>2. Times /\ [Next]_vars => Times'
  BY DEF Times, Next, vars, EnterLater, LeaveLater, TimePasses, OtherUser
<1>. QED  BY <1>1, <1>2, PTL DEF Spec

\* Stored rows are ranges of integers.
LEMMA RowsAreRanges == Rows \subseteq Ranges(Int)
BY BoundsAssumption DEF Rows, Ranges

\* A space the search shows as taken cannot be booked, one it shows as free
\* can, but for a range that starts the minute a booking ends.
THEOREM SearchAgreesWithConflicts == Spec => []AvailableMeansBookable
<1>1. ASSUME Times PROVE AvailableMeansBookable
  <2>. SUFFICES ASSUME NEW b \in Rows, Lasting(Request), Lasting(b)
                PROVE  InConflict(b, enter, leave)
                         <=> IsOccupying(b, enter, leave) \/ enter = b.leave
    BY DEF AvailableMeansBookable
  <2>1. b \in Ranges(Int)
    BY RowsAreRanges
  <2>. QED
    BY <1>1, <2>1 DEF Times, Ranges, Request, Lasting, InConflict, IsOccupying
<1>. QED  BY <1>1, TimesInvariance, PTL

----------------------------------------------------------------------------
(* Sampling.                                                               *)

\* With times on even minutes, what runs in a minute of the requested range
\* strictly contains the odd minute of the pair it lies in, and what strictly
\* contains a minute of it runs in that minute or, at its end, in the one
\* before.
LEMMA SamplesMatchMinutes ==
  ASSUME NEW e \in Nat, NEW l \in Nat, e < l, e % 2 = 0, l % 2 = 0,
         NEW b \in Ranges(Nat), b.enter % 2 = 0, b.leave % 2 = 0
  PROVE  /\ \A t \in e .. l - 1 :
              /\ t % 2 = 0 => t + 1 \in e .. l
              /\ b.enter <= t /\ t < b.leave =>
                   /\ InConflict(b, e, l)
                   /\ t % 2 # 0 => b.enter < t /\ t < b.leave
                   /\ t % 2 = 0 => b.enter < t + 1 /\ t + 1 < b.leave
         /\ \A t \in e .. l :
              b.enter < t /\ t < b.leave =>
                \/ t < l /\ b.enter <= t /\ t < b.leave
                \/ t = l /\ b.enter <= t - 1 /\ t - 1 < b.leave
<1>1. b.enter \in Nat /\ b.leave \in Nat
  BY DEF Ranges
<1>2. ASSUME NEW t \in e .. l - 1
      PROVE  /\ t % 2 = 0 => t + 1 \in e .. l
             /\ b.enter <= t /\ t < b.leave =>
                  /\ InConflict(b, e, l)
                  /\ t % 2 # 0 => b.enter < t /\ t < b.leave
                  /\ t % 2 = 0 => b.enter < t + 1 /\ t + 1 < b.leave
  <2>1. b.enter <= t /\ t < b.leave => InConflict(b, e, l)
    BY <1>1, <1>2 DEF InConflict
  <2>2. b.enter <= t /\ t < b.leave /\ t % 2 # 0 => b.enter < t
    BY <1>1, <1>2
  <2>3. b.enter <= t /\ t < b.leave /\ t % 2 = 0 => t + 1 < b.leave
    BY <1>1, <1>2
  <2>. QED  BY <1>1, <1>2, <2>1, <2>2, <2>3
<1>3. \A t \in e .. l :
        b.enter < t /\ t < b.leave =>
          \/ t < l /\ b.enter <= t /\ t < b.leave
          \/ t = l /\ b.enter <= t - 1 /\ t - 1 < b.leave
  BY <1>1
<1>. QED  BY <1>2, <1>3

\* A set of some of the rows is no larger than another it is part of.
LEMMA FewerRows ==
  ASSUME NEW D, IsFiniteSet(D), NEW S \in SUBSET D, NEW T \in SUBSET S
  PROVE  Cardinality(T) <= Cardinality(S)
BY FS_Subset

\* However many rows there are, sampling at whole minutes sees every number of
\* bookings that run at once, when the times are on even minutes.
THEOREM SamplingSeesEveryPeak ==
  ASSUME NEW D, IsFiniteSet(D), NEW rows \in [D -> Ranges(Nat)],
         \A i \in D : rows[i].enter % 2 = 0 /\ rows[i].leave % 2 = 0,
         NEW e \in Nat, NEW l \in Nat, e < l, e % 2 = 0, l % 2 = 0, NEW limit \in Nat
  PROVE  ConcurrentBelow(rows, e, l, limit)
           <=> \A t \in e .. l - 1 : Cardinality(RunningIn(rows, t)) < limit
<1>. DEFINE found == {i \in D : InConflict(rows[i], e, l)}
            Containing(t) == {i \in found : rows[i].enter < t /\ t < rows[i].leave}
<1>1. ConcurrentBelow(rows, e, l, limit)
        <=> \A t \in e .. l : Cardinality(Containing(t)) < limit
  <2>1. DOMAIN rows = D
    OBVIOUS
  <2>2. ASSUME NEW t PROVE NumActive([i \in found |-> rows[i]], t) = Cardinality(Containing(t))
    BY DEF NumActive
  <2>. QED  BY <2>1, <2>2 DEF ConcurrentBelow
<1>2. ASSUME NEW t \in e .. l - 1
      PROVE  \E s \in e .. l : RunningIn(rows, t) \subseteq Containing(s)
  <2>. DEFINE s == IF t % 2 = 0 THEN t + 1 ELSE t
  <2>1. s \in e .. l
    BY <1>2
  <2>2. ASSUME NEW i \in RunningIn(rows, t) PROVE i \in Containing(s)
    <3>1. i \in D /\ rows[i].enter <= t /\ t < rows[i].leave
      BY DEF RunningIn
    <3>2. /\ InConflict(rows[i], e, l)
          /\ t % 2 # 0 => rows[i].enter < t /\ t < rows[i].leave
          /\ t % 2 = 0 => rows[i].enter < t + 1 /\ t + 1 < rows[i].leave
      BY <1>2, <3>1, SamplesMatchMinutes
    <3>. QED  BY <3>1, <3>2
  <2>. QED  BY <2>1, <2>2
<1>3. ASSUME NEW t \in e .. l
      PROVE  \E s \in e .. l - 1 : Containing(t) \subseteq RunningIn(rows, s)
  <2>. DEFINE s == IF t < l THEN t ELSE t - 1
  <2>1. s \in e .. l - 1
    BY <1>3
  <2>2. Containing(t) \subseteq RunningIn(rows, s)
    BY <1>3, SamplesMatchMinutes DEF RunningIn
  <2>. QED  BY <2>1, <2>2
<1>4. /\ \A t : Containing(t) \in SUBSET D /\ RunningIn(rows, t) \in SUBSET D
      /\ \A t : /\ Cardinality(Containing(t)) \in Nat
                /\ Cardinality(RunningIn(rows, t)) \in Nat
  <2>1. \A t : Containing(t) \in SUBSET D /\ RunningIn(rows, t) \in SUBSET D
    BY DEF RunningIn
  <2>. QED  BY <2>1, FS_Subset, FS_CardinalityType
<1>. HIDE DEF Containing
<1>5. ASSUME \A t \in e .. l : Cardinality(Containing(t)) < limit, NEW t \in e .. l - 1
      PROVE  Cardinality(RunningIn(rows, t)) < limit
  <2>1. PICK s \in e .. l : RunningIn(rows, t) \subseteq Containing(s)
    BY <1>2
  <2>2. Cardinality(RunningIn(rows, t)) <= Cardinality(Containing(s))
    BY <1>4, <2>1, FewerRows
  <2>. QED  BY <1>4, <1>5, <2>2
<1>6. ASSUME \A t \in e .. l - 1 : Cardinality(RunningIn(rows, t)) < limit, NEW t \in e .. l
      PROVE  Cardinality(Containing(t)) < limit
  <2>1. PICK s \in e .. l - 1 : Containing(t) \subseteq RunningIn(rows, s)
    BY <1>3
  <2>2. Cardinality(Containing(t)) <= Cardinality(RunningIn(rows, s))
    BY <1>4, <2>1, FewerRows
  <2>. QED  BY <1>4, <1>6, <2>2
<1>. QED  BY <1>1, <1>5, <1>6

\* The same of every request there is, as it is checked.
THEOREM SamplesAreEnough == Spec => []SamplesSeeEveryPeak
<1>1. ASSUME Times PROVE SamplesSeeEveryPeak
  <2>. SUFFICES ASSUME Lasting(Request), enter % 2 = 0, leave % 2 = 0,
                       NEW rows \in [{1, 2} -> Ranges({t \in 0 .. MaxRowTime : t % 2 = 0})],
                       NEW limit \in 1 .. 3
                PROVE  ConcurrentBelow(rows, enter, leave, limit)
                         <=> \A t \in enter .. leave - 1 : Cardinality(RunningIn(rows, t)) < limit
    BY DEF SamplesSeeEveryPeak
  <2>1. enter \in Nat /\ leave \in Nat /\ enter < leave
    BY <1>1 DEF Times, Lasting, Request
  <2>2. \A i \in {1, 2} : /\ rows[i] \in Ranges(Nat)
                          /\ rows[i].enter % 2 = 0 /\ rows[i].leave % 2 = 0
    BY BoundsAssumption DEF Ranges
  <2>3. IsFiniteSet({1, 2})
    <3>1. IsFiniteSet({1}) /\ IsFiniteSet({1} \cup {2})
      BY FS_Singleton, FS_AddElement
    <3>2. {1} \cup {2} = {1, 2}
      OBVIOUS
    <3>. QED  BY <3>1, <3>2
  <2>4. rows \in [{1, 2} -> Ranges(Nat)]
    BY <2>2
  <2>. QED  BY <2>1, <2>2, <2>3, <2>4, SamplingSeesEveryPeak
<1>. QED  BY <1>1, TimesInvariance, PTL

----------------------------------------------------------------------------
(* Whole hours and days.                                                   *)

\* A number lies between the multiples of n its quotient names.
LEMMA Quotient ==
  ASSUME NEW x \in Int, NEW n \in Nat \ {0}
  PROVE  /\ x \div n \in Int
         /\ n * (x \div n) <= x /\ x < n * (x \div n) + n
         /\ x % n = x - n * (x \div n)
BY SMT

\* Larger numbers have larger quotients.
LEMMA QuotientMonotone ==
  ASSUME NEW x \in Int, NEW y \in Int, x <= y, NEW n \in Nat \ {0}
  PROVE  x \div n <= y \div n
<1>1. /\ x \div n \in Int /\ y \div n \in Int
      /\ n * (x \div n) <= x /\ y < n * (y \div n) + n
  BY Quotient
<1>. DEFINE p == x \div n
            q == y \div n
<1>. HIDE DEF p, q
<1>2. p \in Int /\ q \in Int /\ n * p < n * q + n
  BY <1>1 DEF p, q
<1>3. p > q => n * p >= n * q + n
  BY <1>2, SMT
<1>. QED  BY <1>2, <1>3 DEF p, q

\* Whole multiples come out of a quotient.
LEMMA ShiftedQuotient ==
  ASSUME NEW x \in Int, NEW k \in Int, NEW n \in Nat \ {0}
  PROVE  x \div n = k + (x - k * n) \div n
<1>. DEFINE p == x \div n
            q == (x - k * n) \div n
<1>1. k * n \in Int /\ n * k = k * n
  BY SMT
<1>2. /\ p \in Int /\ n * p <= x /\ x < n * p + n
      /\ q \in Int /\ n * q <= x - k * n /\ x - k * n < n * q + n
  BY <1>1, Quotient
<1>. HIDE DEF p, q
<1>3. n * (k + q) = n * k + n * q
  BY <1>2, SMT
<1>. DEFINE r == k + q
<1>4. r \in Int /\ n * r <= x /\ x < n * r + n
  BY <1>1, <1>2, <1>3
<1>. HIDE DEF r
<1>5. p < r => n * p + n <= n * r
  BY <1>2, <1>4, SMT
<1>6. r < p => n * r + n <= n * p
  BY <1>2, <1>4, SMT
<1>7. n * p \in Int /\ n * r \in Int
  BY <1>2, <1>4, SMT
<1>8. p = r
  BY <1>2, <1>4, <1>5, <1>6, <1>7
<1>. QED  BY <1>8 DEF p, q, r

\* So have larger durations more whole hours, the way Go converts them.
LEMMA TruncatedMonotone ==
  ASSUME NEW x \in Int, NEW y \in Int, x <= y, NEW n \in Nat \ {0}
  PROVE  Truncated(x, n) <= Truncated(y, n)
<1>1. ASSUME NEW z \in Int, z >= 0 PROVE z \div n \in Nat
  BY <1>1, Quotient, SMT
<1>2. CASE x >= 0
  BY <1>2, QuotientMonotone DEF Truncated
<1>3. CASE x < 0 /\ y >= 0
  <2>1. (-x) \div n \in Nat /\ y \div n \in Nat
    BY <1>1, <1>3
  <2>. QED  BY <1>3, <2>1 DEF Truncated
<1>4. CASE y < 0
  <2>1. (-y) \div n <= (-x) \div n /\ (-y) \div n \in Int /\ (-x) \div n \in Int
    BY <1>4, QuotientMonotone, Quotient
  <2>. QED  BY <1>4, <2>1 DEF Truncated
<1>. QED  BY <1>2, <1>3, <1>4

\* A day lasts some minutes.
LEMMA DayLasts == Day \in Nat \ {0}
BY CalendarAssumption, SMT DEF Day

----------------------------------------------------------------------------
(* The rules.                                                              *)

\* Once it is too late to delete a booking it stays too late: the hours left
\* only become fewer, also after their sign has changed.
THEOREM TooLateStaysTooLate == Spec => DeletionStaysClosed
<1>1. ASSUME Times, [Next]_vars, TimePasses,
             ~isValidBookingHoursBeforeDelete(enter, user, now)
      PROVE  ~isValidBookingHoursBeforeDelete(enter, user, now)'
  <2>1. enter' = enter /\ user' = user /\ now' = now + 1
    BY <1>1 DEF TimePasses
  <2>2. Truncated(enter - now', MinutesPerHour) <= Truncated(enter - now, MinutesPerHour)
    BY <1>1, <2>1, CalendarAssumption, TruncatedMonotone DEF Times
  <2>3. /\ Truncated(enter - now', MinutesPerHour) \in Int
        /\ Truncated(enter - now, MinutesPerHour) \in Int
    BY <1>1, <2>1, CalendarAssumption, Quotient DEF Times, Truncated
  <2>4. Settings.maxHoursBeforeDelete \in Nat
    BY SettingsAssumption
  <2>. HIDE DEF Truncated
  <2>. QED
    BY <1>1, <2>1, <2>2, <2>3, <2>4 DEF isValidBookingHoursBeforeDelete, Unrestricted
<1>. QED  BY <1>1, TimesInvariance, PTL DEF Spec, DeletionStaysClosed

\* A restricted user gets, in an hourly organisation, only what lasts neither
\* more nor less than the settings say and starts today or at most the
\* configured number of days ahead, in UTC.
THEOREM AcceptedAreWithinBounds ==
  ASSUME ~Settings.dailyBasisBooking
  PROVE  Spec => []AcceptedIsWithinBounds
<1>1. ASSUME Times PROVE AcceptedIsWithinBounds
  <2>. SUFFICES ASSUME Accepted(enter, leave), user \notin SpaceAdmins
                PROVE  /\ leave - enter \in Settings.minBookingDurationHours * MinutesPerHour
                            .. Settings.maxBookingDurationHours * MinutesPerHour
                       /\ \E d \in 0 .. Settings.maxDaysInAdvance :
                            Instant(enter) \div Day = (now \div Day) + d
    BY DEF AcceptedIsWithinBounds
  <2>0. /\ enter \in Nat /\ leave \in Nat /\ now \in Nat /\ ZoneOffset \in Int
        /\ MinutesPerHour \in Nat \ {0} /\ Day \in Nat \ {0}
        /\ Settings.minBookingDurationHours \in Nat /\ Settings.maxBookingDurationHours \in Nat
        /\ Settings.maxDaysInAdvance \in Nat
    BY <1>1, CalendarAssumption, SettingsAssumption, DayLasts DEF Times
  <2>. DEFINE length == leave - enter
              least == Settings.minBookingDurationHours
              most == Settings.maxBookingDurationHours
  <2>1. length \in 0 .. most * MinutesPerHour /\ Truncated(length, MinutesPerHour) >= least
    BY DEF Accepted, isValidBookingDuration, isValidMinHoursBooking, Unrestricted
  <2>2. length >= least * MinutesPerHour
    <3>1. length \in Int /\ length >= 0
      BY <2>0, <2>1
    <3>. HIDE DEF length
    <3>2. length \div MinutesPerHour >= least
      BY <2>1, <3>1 DEF Truncated
    <3>3. MinutesPerHour * (length \div MinutesPerHour) <= length
          /\ length \div MinutesPerHour \in Int
      BY <2>0, <3>1, Quotient
    <3>. DEFINE q == length \div MinutesPerHour
    <3>. HIDE DEF q
    <3>4. q \in Int /\ q >= least /\ MinutesPerHour * q <= length
      BY <3>2, <3>3 DEF q
    <3>5. MinutesPerHour * least <= MinutesPerHour * q
      BY <2>0, <3>4, SMT
    <3>6. MinutesPerHour * least = least * MinutesPerHour
      BY <2>0, SMT
    <3>7. MinutesPerHour * least \in Int /\ MinutesPerHour * q \in Int
      BY <2>0, <3>4, SMT
    <3>. QED  BY <3>1, <3>4, <3>5, <3>6, <3>7
  <2>3. \E d \in 0 .. Settings.maxDaysInAdvance :
          Instant(enter) \div Day = (now \div Day) + d
    <3>. DEFINE d == DaysAhead(enter, now)
                today == now \div Day
    <3>1. d \in 0 .. Settings.maxDaysInAdvance
      <4>1. d >= 0 /\ d <= Settings.maxDaysInAdvance
        BY DEF Accepted, isValidBookingAdvance, Unrestricted
      <4>2. EarliestLeave(now) \in Int /\ Instant(enter) \in Int
        BY <2>0, Quotient DEF EarliestLeave, Instant
      <4>3. d \in Int
        BY <2>0, <4>2, Quotient DEF DaysAhead
      <4>. QED  BY <2>0, <4>1, <4>3
    <3>2. d = (Instant(enter) - today * Day) \div Day
      BY <2>0, Quotient DEF DaysAhead, EarliestLeave
    <3>3. Instant(enter) \div Day = today + d
      <4>1. Instant(enter) \in Int /\ today \in Int
        BY <2>0, Quotient DEF Instant
      <4>. HIDE DEF d, today
      <4>2. Instant(enter) \div Day = today + (Instant(enter) - today * Day) \div Day
        BY <2>0, <4>1, ShiftedQuotient
      <4>. QED  BY <3>2, <4>2
    <3>. QED  BY <3>1, <3>3
  <2>. QED  BY <2>0, <2>1, <2>2, <2>3
<1>. QED  BY <1>1, TimesInvariance, PTL

\* A quotient is at least k when the number reaches k times the divisor, and
\* at most k when it stays below the next multiple.
LEMMA QuotientBounds ==
  ASSUME NEW x \in Int, NEW k \in Int, NEW n \in Nat \ {0}
  PROVE  /\ x >= k * n => x \div n >= k
         /\ x < (k + 1) * n => x \div n <= k
         /\ x \div n <= k => x < (k + 1) * n
<1>. DEFINE q == x \div n
<1>1. q \in Int /\ n * q <= x /\ x < n * q + n
  BY Quotient
<1>. HIDE DEF q
<1>2. /\ k * n \in Int /\ n * q \in Int /\ n * k = k * n /\ (k + 1) * n = n * k + n
  BY <1>1, SMT
<1>3. q < k => n * q + n <= n * k
  BY <1>1, SMT
<1>4. q > k => n * q >= n * k + n
  BY <1>1, SMT
<1>5. q <= k => n * q <= n * k
  BY <1>1, SMT
<1>. QED  BY <1>1, <1>2, <1>3, <1>4, <1>5 DEF q

\* What lies at most last days ahead of a moment lies at most one day more
\* ahead of the midnight before it.
LEMMA AheadOfMidnight ==
  ASSUME NEW ahead \in Int, NEW passed \in Int, NEW last \in Nat, NEW n \in Nat \ {0},
         ahead > 0, ahead \div n <= last, 0 <= passed, passed < n
  PROVE  /\ ahead < (last + 1) * n
         /\ (ahead + passed) \div n \in 0 .. last + 1
<1>1. ahead < (last + 1) * n
  BY QuotientBounds
<1>. DEFINE next == last + 1
            bound == next * n
            offset == ahead + passed
<1>2. next \in Int /\ bound \in Int /\ (next + 1) * n = bound + n /\ ahead < bound
  BY <1>1, SMT
<1>. HIDE DEF bound
<1>3. offset \in Int /\ offset < bound + n /\ offset >= 0
  BY <1>2
<1>. HIDE DEF offset, next
<1>4. offset < (next + 1) * n
  BY <1>2, <1>3
<1>5. offset \div n <= next
  BY <1>2, <1>3, <1>4, QuotientBounds
<1>6. offset \div n >= 0 /\ offset \div n \in Int
  <2>. DEFINE q == offset \div n
  <2>1. q \in Int /\ offset < n * q + n
    BY <1>3, Quotient
  <2>. HIDE DEF q
  <2>2. q < 0 => n * q + n <= 0
    BY <2>1, SMT
  <2>3. n * q \in Int
    BY <2>1, SMT
  <2>. QED  BY <1>3, <2>1, <2>2, <2>3 DEF q
<1>. QED  BY <1>1, <1>2, <1>5, <1>6 DEF next, offset

\* What the booking page lets a user search for in an hourly organisation the
\* server accepts, the page's clock standing in the zone of the locations; but
\* for the day after the last one allowed, at a time of day already past.
THEOREM OffersAreAccepted ==
  ASSUME ~Settings.dailyBasisBooking
  PROVE  Spec => []OfferedMeansAccepted
<1>1. ASSUME Times PROVE OfferedMeansAccepted
  <2>. SUFFICES ASSUME Client!updateCanSearch(0, "floor", enter, leave, now + ZoneOffset)
                PROVE  \/ Accepted(enter, leave)
                       \/ /\ DaysAhead(enter, now) = Settings.maxDaysInAdvance + 1
                          /\ Instant(enter) % Day < now % Day
    BY DEF OfferedMeansAccepted
  <2>0. /\ enter \in Nat /\ leave \in Nat /\ now \in Nat /\ ZoneOffset \in Int
        /\ MinutesPerHour \in Nat \ {0} /\ Day \in Nat \ {0}
        /\ Settings.minBookingDurationHours \in Nat /\ Settings.maxBookingDurationHours \in Nat
        /\ Settings.maxDaysInAdvance \in Nat
    BY <1>1, CalendarAssumption, SettingsAssumption, DayLasts DEF Times
  <2>. DEFINE length == leave - enter
              least == Settings.minBookingDurationHours
              most == Settings.maxBookingDurationHours
              last == Settings.maxDaysInAdvance
              ahead == enter - (now + ZoneOffset)
  <2>1. /\ enter > now + ZoneOffset /\ leave > enter
        /\ ahead \div Day <= last
        /\ length <= most * MinutesPerHour /\ length >= least * MinutesPerHour
    BY SettingsAssumption
    DEF Client!updateCanSearch, Client!isAdmin, Client!AdvanceDays, Client!Day, Day
  <2>2. isValidBookingDuration(enter, leave, user)
    <3>1. most * MinutesPerHour \in Nat
      BY <2>0, SMT
    <3>. QED  BY <2>0, <2>1, <3>1 DEF isValidBookingDuration
  <2>3. isValidMinHoursBooking(enter, leave, user)
    <3>1. length \in Int /\ length >= 0
      BY <2>0, <2>1
    <3>. HIDE DEF length
    <3>2. length \div MinutesPerHour >= least
      BY <2>0, <2>1, <3>1, QuotientBounds
    <3>3. Truncated(length, MinutesPerHour) >= least
      BY <3>1, <3>2 DEF Truncated
    <3>. QED  BY <3>3 DEF isValidMinHoursBooking, length
  <2>. DEFINE today == now \div Day
              passed == now % Day
              offset == Instant(enter) - today * Day
              d == offset \div Day
  <2>4. /\ today \in Int /\ today * Day \in Int
        /\ passed \in Int /\ passed >= 0 /\ passed < Day
        /\ now = today * Day + passed
    <3>1. /\ today \in Int /\ Day * today <= now /\ now < Day * today + Day
          /\ passed = now - Day * today
      BY <2>0, Quotient
    <3>2. Day * today = today * Day /\ today * Day \in Int
      BY <2>0, <3>1, SMT
    <3>. HIDE DEF today, passed
    <3>. QED  BY <2>0, <3>1, <3>2
  <2>5. EarliestLeave(now) = today * Day /\ DaysAhead(enter, now) = d
    BY <2>0, <2>4 DEF EarliestLeave, DaysAhead
  <2>. HIDE DEF today, passed
  <2>6. /\ Instant(enter) \in Int /\ Instant(leave) \in Int /\ ahead \in Int /\ offset \in Int
        /\ offset = ahead + passed /\ ahead > 0
        /\ Instant(leave) >= today * Day
    BY <2>0, <2>1, <2>4 DEF Instant
  <2>7. ahead < (last + 1) * Day /\ d \in 0 .. last + 1
    <3>1. ahead \div Day <= last /\ last \in Nat
      BY <2>0, <2>1
    <3>. HIDE DEF ahead, last, offset
    <3>. QED  BY <2>0, <2>4, <2>6, <3>1, AheadOfMidnight
  <2>8. d \in Int /\ d >= 0 /\ d <= last + 1
    <3>. HIDE DEF d
    <3>. QED  BY <2>0, <2>7
  <2>9. CASE d <= last
    <3>1. isValidBookingAdvance(enter, leave, user, now)
      BY <2>5, <2>6, <2>8, <2>9 DEF isValidBookingAdvance
    <3>. QED  BY <2>2, <2>3, <3>1 DEF Accepted
  <2>10. CASE d = last + 1
    <3>1. Instant(enter) \div Day = today + d
      <4>. HIDE DEF last
      <4>1. Instant(enter) \div Day = today + (Instant(enter) - today * Day) \div Day
        BY <2>0, <2>4, <2>6, ShiftedQuotient
      <4>. QED  BY <4>1
    <3>2. Instant(enter) % Day = Instant(enter) - Day * (today + d)
      BY <2>0, <2>6, <3>1, Quotient
    <3>3. Day * (today + d) = today * Day + (last + 1) * Day
      BY <2>0, <2>4, <2>10, SMT
    <3>4. (last + 1) * Day \in Int
      BY <2>0, SMT
    <3>5. Instant(enter) % Day < passed
      <4>1. Instant(enter) = today * Day + ahead + passed
        BY <2>4, <2>6
      <4>. HIDE DEF ahead, offset, d
      <4>. QED  BY <2>4, <2>6, <2>7, <3>2, <3>3, <3>4, <4>1
    <3>. QED  BY <2>5, <2>10, <3>5 DEF passed
  <2>. QED
    <3>. HIDE DEF d
    <3>. QED  BY <2>0, <2>8, <2>9, <2>10
<1>. QED  BY <1>1, TimesInvariance, PTL
=============================================================================
