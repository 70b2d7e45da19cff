-------------------------- MODULE TagTrackingProofs --------------------------
(***************************************************************************)
(* Theorems about TagTracking, for every set of tags, timeout, gap between *)
(* iterations, number of misses and number of restarts.                    *)
(***************************************************************************)
EXTENDS TagTracking, TLAPS

\* The tags for which the time since they were last seen says nothing.
Excused == strayed \cup blind

\* Any other tag has been missed `misses` times since it was last seen, each
\* time for at most MaxGap.  A tag that is not there has strayed, though it be read.
Bounded ==
    /\ Tags \ field \subseteq strayed
    /\ \A t \in visible \ Excused : t \in field /\ age[t] <= misses[t] * MaxGap
    /\ NoFalseExitIfShort

\* In its first life the process and its consumer agree on who is present, and
\* an entry is at least as old as the last sign of its tag.
Agreed ==
    /\ \A t \in field : away[t] = 0
    /\ restarts = 0 =>
        /\ inside = visible
        /\ \A t \in visible : away[t] <= age[t]
        /\ answered => \A t \in visible : age[t] < ExitTimeout

IInv ==
    /\ TypeOK
    /\ Bounded
    /\ Agreed
-----------------------------------------------------------------------------
LEMMA ElapseType ==
    ASSUME NEW a \in 0 .. ExitTimeout, NEW d \in 1 .. MaxGap
    PROVE  /\ Elapse(a, d) \in 0 .. ExitTimeout
           /\ Elapse(a, d) <= a + d
           /\ a <= Elapse(a, d)
  BY TrackingAssumption DEF Elapse

\* One more miss lets a tag age by at most one more gap.
LEMMA OneMoreMiss ==
    ASSUME NEW a \in Nat, NEW m \in Nat, NEW d \in 1 .. MaxGap, a <= m * MaxGap
    PROVE  a + d <= (m + 1) * MaxGap
  <1>1. (m + 1) * MaxGap = m * MaxGap + MaxGap
    BY TrackingAssumption
  <1>2. m * MaxGap \in Nat
    BY TrackingAssumption
  <1> QED BY <1>1, <1>2, TrackingAssumption

\* Up to the bound on misses a tag stays younger than the timeout.
LEMMA FewMisses ==
    ASSUME NEW m \in 0 .. MaxMisses, MissesAreShort
    PROVE  m * MaxGap < ExitTimeout
  <1>1. m * MaxGap <= MaxMisses * MaxGap
    BY TrackingAssumption, SMTT(30)
  <1>2. m * MaxGap \in Nat /\ MaxMisses * MaxGap \in Nat
    BY TrackingAssumption
  <1> QED BY <1>1, <1>2, TrackingAssumption DEF MissesAreShort

LEMMA InitIInv == Init => IInv
  <1> SUFFICES ASSUME Init PROVE IInv
    OBVIOUS
  <1>1. answered \in BOOLEAN
    BY Zenon DEF Init
  <1>2. TypeOK
    BY <1>1, TrackingAssumption DEF Init, TypeOK
  <1>3. Bounded /\ Agreed
    BY DEF Init, Bounded, Agreed, NoFalseExitIfShort
  <1> QED BY <1>2, <1>3 DEF IInv
-----------------------------------------------------------------------------
(* A valid reading. *)

LEMMA ReadingAges ==
    ASSUME TypeOK, NEW d \in 1 .. MaxGap, NEW seen \in SUBSET Tags, Reading(d, seen)
    PROVE  /\ AgeAt(d, seen) \in [Tags -> 0 .. ExitTimeout]
           /\ \A t \in seen : AgeAt(d, seen)[t] = 0
           /\ \A t \in Tags \ seen : AgeAt(d, seen)[t] = Elapse(age[t], d)
           /\ \A t \in visible' : /\ age'[t] = AgeAt(d, seen)[t]
                                  /\ age'[t] < ExitTimeout
           /\ visible' \subseteq visible \cup seen
  <1>1. /\ AgeAt(d, seen) \in [Tags -> 0 .. ExitTimeout]
        /\ \A t \in seen : AgeAt(d, seen)[t] = 0
        /\ \A t \in Tags \ seen : AgeAt(d, seen)[t] = Elapse(age[t], d)
    BY ElapseType, TrackingAssumption DEF TypeOK, AgeAt
  <1>2. /\ visible' = (visible \cup seen) \ Expired(d, seen)
        /\ age' = [t \in Tags |-> IF t \in visible' THEN AgeAt(d, seen)[t] ELSE 0]
    BY DEF Reading, Update
  <1>3. \A t \in visible' : t \in Tags /\ ~(AgeAt(d, seen)[t] >= ExitTimeout)
    BY <1>2 DEF Expired, TypeOK
  <1> HIDE DEF AgeAt
  <1> QED BY <1>1, <1>2, <1>3, TrackingAssumption

LEMMA ReadingType ==
    ASSUME TypeOK, NEW d \in 1 .. MaxGap, NEW seen \in SUBSET Tags, Reading(d, seen)
    PROVE  TypeOK'
  <1> USE DEF TypeOK
  <1>1. /\ enters' \subseteq Tags /\ exits' \subseteq Tags /\ visible' \subseteq Tags
        /\ inside' \subseteq Tags /\ strayed' \subseteq Tags
        /\ blind' \subseteq Tags
        /\ field' = field /\ restarts' = restarts
    BY DEF Reading, Update, Expired
  <1>2. age' \in [Tags -> 0 .. ExitTimeout]
    <2>1. age' = [t \in Tags |-> IF t \in visible' THEN AgeAt(d, seen)[t] ELSE 0]
      BY DEF Reading, Update
    <2> QED BY <2>1, ReadingAges, TrackingAssumption
  <1>3. misses' \in [Tags -> 0 .. MaxMisses]
    BY TrackingAssumption DEF Reading
  <1>4. away' \in [Tags -> 0 .. ExitTimeout]
    BY ElapseType, TrackingAssumption DEF Reading, Ages
  <1>5. answered' \in BOOLEAN
    BY Zenon DEF Reading
  <1> QED BY <1>1, <1>2, <1>3, <1>4, <1>5

LEMMA ReadingBounded ==
    ASSUME IInv, NEW d \in 1 .. MaxGap, NEW seen \in SUBSET Tags, Reading(d, seen)
    PROVE  Bounded'
  <1> USE DEF IInv, TypeOK
  <1>1. /\ field' = field /\ Excused' = (Excused \ seen) \cup (strayed \ field)
        /\ Tags \ field \subseteq strayed'
        /\ misses' = [t \in Tags |-> IF t \in field \ seen THEN misses[t] + 1 ELSE 0]
        /\ exits' = Expired(d, seen)
        /\ \A t \in field \ seen : misses[t] < MaxMisses
    <2>1. strayed' = strayed \ (seen \cap field) /\ blind' = blind \ seen /\ Tags \ field \subseteq strayed
      BY DEF Reading, Bounded
    <2>2. Excused' = (Excused \ seen) \cup (strayed \ field) /\ Tags \ field \subseteq strayed'
      BY <2>1 DEF Excused
    <2> QED BY <2>2 DEF Reading, Update
  <1>2. ASSUME NEW t \in visible \ Excused, t \notin seen
        PROVE  /\ t \in field /\ misses'[t] = misses[t] + 1
               /\ misses'[t] \in 0 .. MaxMisses
               /\ Elapse(age[t], d) <= misses'[t] * MaxGap
    <2>1. t \in field /\ age[t] <= misses[t] * MaxGap
      BY <1>2 DEF Bounded
    <2>2. /\ misses'[t] = misses[t] + 1 /\ misses[t] \in Nat
          /\ misses'[t] \in 0 .. MaxMisses
      BY <1>1, <1>2, <2>1, TrackingAssumption
    <2>3. age[t] + d <= (misses[t] + 1) * MaxGap
      BY <1>2, <2>1, <2>2, OneMoreMiss, TrackingAssumption
    <2>4. Elapse(age[t], d) <= age[t] + d /\ Elapse(age[t], d) \in Nat /\ age[t] + d \in Nat
      BY <1>2, ElapseType, TrackingAssumption
    <2>5. (misses[t] + 1) * MaxGap \in Nat
      BY <2>2, TrackingAssumption
    <2> QED BY <2>1, <2>2, <2>3, <2>4, <2>5
  <1>3. \A t \in (visible \ Excused)' : t \in field' /\ age'[t] <= misses'[t] * MaxGap
    <2> SUFFICES ASSUME NEW t \in (visible \ Excused)'
                 PROVE  t \in field' /\ age'[t] <= misses'[t] * MaxGap
      OBVIOUS
    <2>1. CASE t \in seen
      <3>1. age'[t] = 0 /\ misses'[t] = 0
        BY <1>1, <2>1, ReadingAges
      <3>2. t \in field'
        BY <1>1, <2>1 DEF Excused
      <3> QED BY <3>1, <3>2, TrackingAssumption
    <2>2. CASE t \notin seen
      <3>1. t \in visible \ Excused
        BY <1>1, <2>2, ReadingAges
      <3>2. age'[t] = Elapse(age[t], d)
        BY <2>2, <3>1, ReadingAges
      <3> QED BY <1>1, <1>2, <2>2, <3>1, <3>2
    <2> QED BY <2>1, <2>2
  <1>4. NoFalseExitIfShort'
    <2> SUFFICES ASSUME MissesAreShort, NEW t \in exits', t \notin Excused' PROVE FALSE
      BY DEF NoFalseExitIfShort, MissesAreShort, Excused
    <2>1. /\ t \in visible \cup seen /\ t \in Tags
          /\ AgeAt(d, seen)[t] >= ExitTimeout
      BY <1>1 DEF Expired
    <2>2. t \notin seen
      BY <2>1, ReadingAges, TrackingAssumption
    <2>3. t \in visible \ Excused
      BY <1>1, <2>1, <2>2
    <2>4. Elapse(age[t], d) >= ExitTimeout
      BY <2>1, <2>2, ReadingAges
    <2>5. misses'[t] * MaxGap < ExitTimeout /\ misses'[t] * MaxGap \in Nat
      BY <1>2, <2>2, <2>3, FewMisses, TrackingAssumption
    <2>6. Elapse(age[t], d) \in Nat
      BY <2>1, ElapseType, TrackingAssumption
    <2> QED BY <1>2, <2>2, <2>3, <2>4, <2>5, <2>6, TrackingAssumption
  <1> QED BY <1>1, <1>3, <1>4 DEF Bounded

LEMMA ReadingAgreed ==
    ASSUME IInv, NEW d \in 1 .. MaxGap, NEW seen \in SUBSET Tags, Reading(d, seen)
    PROVE  Agreed'
  <1> USE DEF IInv, TypeOK
  <1>1. /\ field' = field /\ restarts' = restarts
        /\ enters' = seen \ visible /\ exits' = Expired(d, seen)
        /\ visible' = (visible \cup seen) \ exits'
        /\ inside' = (inside \cup enters') \ exits'
        /\ away' = [t \in Tags |-> IF t \in field \cup seen THEN 0 ELSE Elapse(away[t], d)]
    BY DEF Reading, Update, Ages
  <1>2. \A t \in field' : away'[t] = 0
    BY <1>1
  <1>3. ASSUME restarts' = 0
        PROVE  /\ inside' = visible'
               /\ \A t \in visible' : away'[t] <= age'[t] /\ age'[t] < ExitTimeout
    <2>1. inside' = visible'
      BY <1>1, <1>3 DEF Agreed
    <2>2. ASSUME NEW t \in visible'
          PROVE  away'[t] <= age'[t] /\ age'[t] < ExitTimeout
      <3>1. age'[t] = AgeAt(d, seen)[t] /\ age'[t] < ExitTimeout /\ t \in visible \cup seen
        BY <2>2, ReadingAges
      <3>2. CASE t \in seen
        BY <1>1, <3>1, <3>2, ReadingAges
      <3>3. CASE t \notin seen
        <4>1. age'[t] = Elapse(age[t], d) /\ away[t] <= age[t]
          BY <1>1, <1>3, <3>1, <3>3, ReadingAges DEF Agreed
        <4>2. age[t] \in 0 .. ExitTimeout /\ away[t] \in 0 .. ExitTimeout
          BY <3>1
        <4>3. Elapse(away[t], d) <= Elapse(age[t], d) /\ 0 <= Elapse(age[t], d)
          BY <4>1, <4>2, TrackingAssumption DEF Elapse
        <4> QED BY <1>1, <3>1, <4>1, <4>3
      <3> QED BY <3>2, <3>3
    <2> QED BY <2>1, <2>2
  <1> QED BY <1>2, <1>3 DEF Agreed
-----------------------------------------------------------------------------
LEMMA StepIInv == IInv /\ [Next]_vars => IInv'
  <1> SUFFICES ASSUME IInv, [Next]_vars PROVE IInv'
    OBVIOUS
  <1>1. CASE AnsweredScan \/ Misread
    <2> PICK d \in 1 .. MaxGap, seen \in SUBSET Tags : Reading(d, seen)
      BY <1>1 DEF AnsweredScan, Misread, IInv, TypeOK
    <2> QED BY ReadingType, ReadingBounded, ReadingAgreed DEF IInv
  <1> USE DEF IInv, TypeOK, presence, Silent
  <1>2. CASE NoReading
    <2> PICK d \in 1 .. MaxGap :
          /\ age' = [t \in Tags |-> IF t \in visible THEN Elapse(age[t], d) ELSE 0]
          /\ away' = [t \in Tags |-> IF t \in field THEN 0 ELSE Elapse(away[t], d)]
      BY <1>2 DEF NoReading, Ages
    <2>1. /\ blind' = Tags /\ ~answered' /\ enters' = {} /\ exits' = {}
          /\ UNCHANGED <<field, visible, inside, misses, strayed, restarts>>
      BY <1>2 DEF NoReading
    <2>2. answered' \in BOOLEAN
      BY <1>2, Zenon DEF NoReading
    <2>3. TypeOK'
      BY <2>1, <2>2, ElapseType, TrackingAssumption
    <2>4. Bounded'
      BY <2>1 DEF Bounded, Excused, NoFalseExitIfShort
    <2>5. \A t \in visible : away[t] <= age[t] => Elapse(away[t], d) <= Elapse(age[t], d)
      BY TrackingAssumption DEF Elapse
    <2>6. \A t \in visible : 0 <= Elapse(age[t], d)
      BY ElapseType, TrackingAssumption
    <2>7. Agreed'
      BY <2>1, <2>5, <2>6 DEF Agreed
    <2> QED BY <2>3, <2>4, <2>7
  <1>3. CASE Restart
    <2>1. answered' \in BOOLEAN
      BY <1>3, Zenon DEF Restart
    <2>2. TypeOK'
      BY <1>3, <2>1, TrackingAssumption DEF Restart
    <2>3. Bounded'
      BY <1>3 DEF Restart, Bounded, Excused, NoFalseExitIfShort, MissesAreShort
    <2>4. Agreed'
      BY <1>3, TrackingAssumption DEF Restart, Agreed
    <2> QED BY <2>2, <2>3, <2>4
  <1>4. ASSUME NEW t \in Tags, TagArrives(t) PROVE IInv'
    <2>1. TypeOK'
      BY <1>4, TrackingAssumption DEF TagArrives
    <2>2. Bounded'
      BY <1>4 DEF TagArrives, Bounded, Excused, NoFalseExitIfShort, MissesAreShort
    <2>3. Agreed'
      BY <1>4, TrackingAssumption DEF TagArrives, Agreed
    <2> QED BY <2>1, <2>2, <2>3
  <1>5. ASSUME NEW t \in Tags, TagLeaves(t) PROVE IInv'
    <2>1. TypeOK'
      BY <1>5, TrackingAssumption DEF TagLeaves
    <2>2. Bounded'
      BY <1>5 DEF TagLeaves, Bounded, Excused, NoFalseExitIfShort, MissesAreShort
    <2>3. Agreed'
      BY <1>5 DEF TagLeaves, Agreed
    <2> QED BY <2>1, <2>2, <2>3
  <1>6. CASE UNCHANGED vars
    BY <1>6 DEF vars, Bounded, Agreed, Excused, NoFalseExitIfShort, MissesAreShort
  <1> HIDE DEF IInv
  <1> QED BY <1>1, <1>2, <1>3, <1>4, <1>5, <1>6 DEF Next, World

\* The inductive invariant holds in every reachable state.
THEOREM Invariance == Spec => []IInv
  BY InitIInv, StepIInv, PTL DEF Spec

\* Ages, counters and sets keep their types.
THEOREM TypeCorrect == Spec => []TypeOK
  <1>1. IInv => TypeOK
    BY DEF IInv
  <1> QED BY <1>1, Invariance, PTL

\* If MaxMisses gaps are shorter than EXIT_TIMEOUT, update emits no EXIT for a
\* tag that never left the field since it was last seen, unless the reader failed
\* to answer in between.
THEOREM NeverFalseExit == Spec => []NoFalseExitIfShort
  <1>1. IInv => NoFalseExitIfShort
    BY DEF IInv, Bounded
  <1> QED BY <1>1, Invariance, PTL

\* However long the outages, the first valid reading after them leaves no tag
\* inside that was neither there nor read for EXIT_TIMEOUT.
THEOREM NeverLinger == Spec => []NoLinger
  <1>1. IInv => NoLinger
    <2> SUFFICES ASSUME IInv, answered, restarts = 0, NEW t \in inside
                 PROVE  away[t] < ExitTimeout
      BY DEF NoLinger
    <2>1. t \in visible /\ away[t] <= age[t] /\ age[t] < ExitTimeout
      BY DEF IInv, Agreed
    <2>2. away[t] \in Nat /\ age[t] \in Nat
      BY <2>1, TrackingAssumption DEF IInv, TypeOK
    <2> QED BY <2>1, <2>2, TrackingAssumption
  <1> QED BY <1>1, Invariance, PTL

\* ENTER and EXIT of a tag alternate within one life of the process.
THEOREM StreamAlternates == Spec => Alternates
  <1>1. IInv /\ [Next]_vars =>
          [ restarts' = 0 => /\ enters' \cap inside = {}
                             /\ exits' \subseteq inside \cup enters' ]_vars
    <2> SUFFICES ASSUME IInv, Next, restarts' = 0
                 PROVE  enters' \cap inside = {} /\ exits' \subseteq inside \cup enters'
      BY DEF vars
    <2>1. CASE AnsweredScan \/ Misread
      <3> PICK d \in 1 .. MaxGap, seen \in SUBSET Tags : Reading(d, seen)
        BY <2>1 DEF AnsweredScan, Misread, IInv, TypeOK
      <3> QED BY DEF Reading, Update, Expired, IInv, Agreed
    <2>2. CASE NoReading \/ Restart \/ World
      BY <2>2 DEF NoReading, Restart, World, TagArrives, TagLeaves, Silent
    <2> QED BY <2>1, <2>2 DEF Next
  <1> QED BY <1>1, Invariance, PTL DEF Spec, Alternates
=============================================================================
