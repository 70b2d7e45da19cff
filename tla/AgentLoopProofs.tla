-------------------------- MODULE AgentLoopProofs --------------------------
(***************************************************************************)
(* Theorems about AgentLoop, for every interval, duration, batch size,     *)
(* number of steps of the clock, and number of stops and kills.            *)
(*                                                                         *)
(* None of the bounds on time is inductive: how long something may have    *)
(* waited depends on where the thread stands.  The invariants below give   *)
(* the bound of every place, and what ties the wall clock's ages to the    *)
(* real times: an age lags behind by what the clock was set back, and no   *)
(* more (Aging), and what has waited longer than its interval has waited   *)
(* within this iteration (Recent).                                         *)
(***************************************************************************)
EXTENDS AgentLoop, TLAPS

\* A wall-clock age, corrected by what the clock was set back, is no less than
\* the real one, unless it is due whatever happens to the clock.
Aging ==
    /\ \A t \in Timers : age[t] + back >= Least(idle[t], Never(t))
    /\ elapsed + back >= 0

\* The timer's work was not due earlier in this iteration, or done since.
Recent(t) ==
    \/ idle[t] < Interval[t] + 2 * back + elapsed
    \/ elapsed + back >= ScanInterval + MaxBack

\* The longest time from the beginning of the iteration to this place.
Spent ==
    CASE pc = "scan"    -> ConnectTime
      [] pc = "deliver" -> ConnectTime + InventoryTime
      [] pc = "retry"   -> ConnectTime + InventoryTime + PassTime
      [] pc = "beat"    -> ConnectTime + InventoryTime + 2 * PassTime
      [] OTHER          -> 0

HeartbeatTimer ==
    /\ pc = "pause" => Recent("heartbeat")
    /\ idle["heartbeat"] < HeartbeatInterval + 2 * back + ScanInterval + Spent

DeliveryTimer ==
    /\ pc \in {"beat", "pause"} => Recent("delivery")
    /\ pc = "beat" => idle["delivery"] < RetryInterval + back
    /\ pc = "retry" => idle["delivery"] < RetryInterval + 2 * back
                          + Greatest(ScanInterval, BeatTime) + ConnectTime + InventoryTime
    /\ pc \notin {"beat", "retry"} =>
         idle["delivery"] < RetryInterval + 2 * back + Greatest(ScanInterval, BeatTime) + Spent

ReaderTimer ==
    /\ pc \in {"scan", "deliver", "retry", "beat", "pause"} => Recent("reader")
    /\ readerState = "READY" => idle["reader"] = 0 /\ pc # "connect"
    /\ pc \in {"scan", "retry"} => idle["reader"] < DiscoveryInterval + back
    /\ pc = "beat" => idle["reader"] < DiscoveryInterval + back + PassTime
    /\ idle["reader"] < DiscoveryInterval + 2 * back + Greatest(ScanInterval, PassTime + BeatTime)

\* The time since the last reading lies within this iteration, until it ends.
GapTimer ==
    /\ readerState # "READY" => gap = 0
    /\ pc \in {"deliver", "retry", "beat", "pause"} =>
         gap <= elapsed + back \/ elapsed + back >= ScanInterval + MaxBack
    /\ pc = "deliver" => gap = 0 /\ readerState = "READY"
    /\ pc = "retry" => gap <= PassTime
    /\ pc = "beat" => gap <= 2 * PassTime
    /\ gap <= Greatest(ScanInterval + back, 2 * PassTime + BeatTime)

\* A request to stop was not there when the iteration began.
Stopping ==
    /\ ~stop => held = 0
    /\ pc \in {"down", "startup", "connect", "scan", "deliver", "retry", "beat"} => held <= Spent
    /\ held <= ConnectTime + InventoryTime + 2 * PassTime + BeatTime

\* An outage without an error has not been met by an attempt to connect yet,
\* which is due: there was none since the start.
Reporting ==
    /\ health.connected <=> readerState = "READY"
    /\ readerState # "READY" => health.status = "OFFLINE"
    /\ readerState = "READY" => health.error \in {"none", "CLOUD_DELIVERY_FAILED"}
    /\ health.error = "CLOUD_DELIVERY_FAILED" => failed
    /\ readerState # "READY" /\ health.error = "none" =>
         /\ pc \in {"down", "startup", "top", "connect"}
         /\ pc = "top" => age["reader"] + back >= Never("reader")

IInv ==
    /\ TypeOK
    /\ Aging
    /\ HeartbeatTimer
    /\ DeliveryTimer
    /\ ReaderTimer
    /\ GapTimer
    /\ Stopping
    /\ Reporting
-----------------------------------------------------------------------------
(* Time. *)

\* The intervals by name.
LEMMA Intervals ==
    /\ Interval["delivery"] = RetryInterval
    /\ Interval["heartbeat"] = HeartbeatInterval
    /\ Interval["reader"] = DiscoveryInterval
    /\ \A t \in Timers : Interval[t] \in Nat \ {0} /\ Never(t) = Interval[t] + MaxBack
    /\ \A t \in Timers : Never(t) \in Nat
  BY LoopAssumption DEF Interval, Timers, Never

\* No pass takes longer than a full batch of requests that time out.
LEMMA PassBound ==
    ASSUME TypeOK
    PROVE  /\ PassTime \in Nat
           /\ Batch \in 0 .. pending
           /\ 0 .. Batch * SendTime \subseteq 0 .. PassTime
  <1>1. PassTime \in Nat
    BY LoopAssumption DEF PassTime
  <1>2. Batch \in 0 .. pending /\ Batch <= BatchSize
    BY LoopAssumption DEF TypeOK, Batch, Least
  <1>3. Batch * SendTime <= BatchSize * SendTime
    BY <1>2, LoopAssumption DEF TypeOK
  <1> QED BY <1>1, <1>2, <1>3, LoopAssumption DEF PassTime, TypeOK

\* What time does to the real and the measured age of one timer.
LEMMA TakesOne ==
    ASSUME TypeOK, NEW d \in Nat, NEW done, Takes(d, done), NEW t \in Timers
    PROVE  /\ age'[t] = IF t \in done THEN 0 ELSE Least(age[t] + d, Never(t))
           /\ idle'[t] = IF t \in done \/ (t = "reader" /\ readerState = "READY")
                         THEN 0 ELSE idle[t] + d
  BY DEF Takes, Aged, Idles

\* The measures of time stay in their ranges.
LEMMA TakesTypes ==
    ASSUME TypeOK, NEW d \in Nat, NEW done, Takes(d, done), Spends(d), UNCHANGED back
    PROVE  /\ age' \in [Timers -> Int]
           /\ \A t \in Timers : age'[t] \in -MaxBack .. Never(t)
           /\ elapsed' \in -MaxBack .. ScanInterval + MaxBack
           /\ idle' \in [Timers -> Nat]
           /\ gap' \in Nat
           /\ held' \in Nat
  <1>1. /\ age' \in [Timers -> Int]
        /\ idle' \in [Timers -> Nat]
    BY Intervals DEF TypeOK, Takes, Aged, Idles, Least
  <1>2. \A t \in Timers : age'[t] \in -MaxBack .. Never(t)
    BY TakesOne, Intervals, LoopAssumption DEF TypeOK, Least
  <1>3. /\ elapsed' \in -MaxBack .. ScanInterval + MaxBack
        /\ gap' \in Nat
        /\ held' \in Nat
    BY LoopAssumption DEF TypeOK, Takes, Idles, Spends, Least
  <1> QED BY <1>1, <1>2, <1>3

\* An age keeps its distance to the real one whatever takes time.
LEMMA TakesAging ==
    ASSUME TypeOK, Aging, NEW d \in Nat, NEW done, Takes(d, done), Spends(d), UNCHANGED back
    PROVE  Aging'
  <1>1. \A t \in Timers : age'[t] + back' >= Least(idle'[t], Never(t))
    BY TakesOne, Intervals, LoopAssumption DEF TypeOK, Aging, Least
  <1>2. elapsed' + back' >= 0
    BY LoopAssumption DEF TypeOK, Aging, Spends, Least
  <1> QED BY <1>1, <1>2 DEF Aging, Never

\* What was recent stays recent, and what has just been done is.
LEMMA TakesRecent ==
    ASSUME TypeOK, Aging, NEW d \in Nat, NEW done, Takes(d, done), Spends(d), UNCHANGED back,
           NEW t \in Timers, Recent(t) \/ t \in done
    PROVE  Recent(t)'
  <1>1. elapsed' = Least(elapsed + d, ScanInterval + MaxBack)
    BY DEF Spends
  <1>2. CASE t \in done
    BY <1>1, <1>2, TakesOne, Intervals, LoopAssumption DEF TypeOK, Aging, Recent, Least
  <1>3. CASE Recent(t)
    BY <1>1, <1>3, TakesOne, Intervals, LoopAssumption DEF TypeOK, Aging, Recent, Least
  <1> QED BY <1>2, <1>3

\* A timer that is not due has not waited for its interval yet, but for what
\* the clock was set back.
LEMMA NotDue ==
    ASSUME TypeOK, Aging, NEW t \in Timers, ~Due(t)
    PROVE  idle[t] < Interval[t] + back /\ Recent(t)
  <1>1. idle[t] < Interval[t] + back
    BY Intervals, LoopAssumption DEF TypeOK, Aging, Due, Least, Never
  <1> QED BY <1>1, Intervals, LoopAssumption DEF TypeOK, Aging, Recent
-----------------------------------------------------------------------------
(* Types. *)

\* The operations on the health record return one, and what they do to the
\* fields that Reporting speaks of.
LEMMA HealthRecord ==
    ASSUME NEW h \in Health
    PROVE  /\ FreshHealth \in Health
           /\ MarkReconnectAttempt(h) \in Health
           /\ MarkReaderReady(h) \in Health
           /\ MarkInventorySuccess(h) \in Health
           /\ MarkInventoryNoResponse(h) \in Health
           /\ MarkInventoryMalformed(h) \in Health
           /\ \A kind \in Failures : MarkReaderOffline(h, kind) \in Health
           /\ \A kind \in Errors : MarkError(h, kind) \in Health
           /\ ClearError(h) \in Health
  <1>1. FreshHealth \in Health
    BY HealthAssumption DEF FreshHealth, Health, Statuses, Errors, ReaderErrors
  <1>2. \A n \in 0 .. Threshold : UpTo(n, Threshold) \in 0 .. Threshold
    BY HealthAssumption DEF UpTo
  <1>3. \A n \in 0 .. MalformedCap : UpTo(n, MalformedCap) \in 0 .. MalformedCap
    BY HealthAssumption DEF UpTo
  <1>4. MarkInventoryNoResponse(h) \in Health
    BY <1>2 DEF MarkInventoryNoResponse, Health, Statuses, ReaderErrors
  <1>5. MarkInventoryMalformed(h) \in Health
    BY <1>3 DEF MarkInventoryMalformed, Health, Statuses, ReaderErrors
  <1>6. MarkInventorySuccess(h) \in Health
    <2>1. 0 \in 0 .. Threshold
      BY HealthAssumption
    <2> QED BY <2>1 DEF MarkInventorySuccess, Health, Statuses, ReaderErrors
  <1>7. /\ MarkReconnectAttempt(h) \in Health
        /\ MarkReaderReady(h) \in Health
        /\ \A kind \in Failures : MarkReaderOffline(h, kind) \in Health
    BY DEF MarkReconnectAttempt, MarkReaderReady, MarkReaderOffline, Health, Statuses,
           ReaderErrors
  <1>8. ClearError(h) \in Health /\ \A kind \in Errors : MarkError(h, kind) \in Health
    BY DEF MarkError, ClearError, Health, Errors
  <1> QED BY <1>1, <1>4, <1>5, <1>6, <1>7, <1>8

LEMMA AttemptRecord ==
    ASSUME TypeOK, NEW state \in ReaderStates
    PROVE  AfterAttempt(state) \in Health
  <1>1. Failure(state) \in Failures /\ Failure(state) \in Errors
    BY DEF Failure, Failures, Errors
  <1> QED BY <1>1, HealthRecord DEF TypeOK, AfterAttempt

\* A delivery pass, whatever its outcome.
LEMMA DeliverTypes ==
    ASSUME TypeOK, NEW sent \in 0 .. Batch, Deliver(sent)
    PROVE  pending' \in 0 .. MaxPending /\ health' \in Health /\ failed' \in BOOLEAN
  <1>1. "CLOUD_DELIVERY_FAILED" \in Errors
    BY DEF Errors
  <1>2. health' \in Health
    BY <1>1, HealthRecord DEF TypeOK, Deliver, AfterPass
  <1>3. pending' \in 0 .. MaxPending
    BY PassBound, LoopAssumption DEF TypeOK, Deliver
  <1> QED BY <1>2, <1>3 DEF TypeOK, Deliver

\* What a pass does to the rest: some time passes, and the delivery's timer
\* begins anew.
LEMMA PassTakes ==
    ASSUME TypeOK, NEW next, Pass(next)
    PROVE  /\ \E d \in 0 .. PassTime : Takes(d, {"delivery"}) /\ Spends(d)
           /\ \E sent \in 0 .. Batch : Deliver(sent)
           /\ pc' = next
           /\ UNCHANGED <<readerState, stop, limits>>
  BY PassBound DEF Pass

\* The thread goes down, or up again.
LEMMA ZeroTypes ==
    /\ [t \in Timers |-> 0] \in [Timers -> Int]
    /\ [t \in Timers |-> 0] \in [Timers -> Nat]
    /\ \A t \in Timers : [u \in Timers |-> 0][t] \in -MaxBack .. Never(t)
    /\ 0 \in -MaxBack .. ScanInterval + MaxBack
  BY Intervals, LoopAssumption

LEMMA EndedTypes ==
    ASSUME TypeOK, Ended, ends' \in 0 .. MaxEnds
    PROVE  TypeOK'
  <1>1. FreshHealth \in Health
    BY HealthRecord DEF TypeOK, Errors
  <1> QED BY <1>1, ZeroTypes DEF TypeOK, Ended, PCs, ReaderStates, Never

LEMMA FreshTypes ==
    ASSUME FreshTimers
    PROVE  /\ age' \in [Timers -> Int]
           /\ \A t \in Timers : age'[t] \in -MaxBack .. Never(t)
           /\ idle' \in [Timers -> Nat]
  BY Intervals, LoopAssumption DEF FreshTimers

LEMMA TypeInit == Init => TypeOK
  <1>1. FreshHealth \in Health
    BY HealthAssumption DEF FreshHealth, Health, Statuses, Errors, ReaderErrors
  <1>2. 0 \in 0 .. MaxBack /\ 0 \in 0 .. MaxEnds /\ 0 \in Nat
    BY LoopAssumption
  <1> SUFFICES ASSUME Init PROVE TypeOK
    OBVIOUS
  <1> QED BY <1>1, <1>2, ZeroTypes DEF Init, TypeOK, PCs, ReaderStates

\* The setting of the clock.
LEMMA ClockTypes ==
    ASSUME TypeOK, Aging, SetBack \/ SetForward
    PROVE  TypeOK'
  <1>1. CASE SetBack
    <2>1. back' \in 0 .. MaxBack /\ back' = back + 1
      BY <1>1, LoopAssumption DEF SetBack, TypeOK
    <2>2. age' \in [Timers -> Int]
      BY <1>1 DEF SetBack, TypeOK
    <2>3. \A t \in Timers : age'[t] \in -MaxBack .. Never(t)
      BY <1>1, <2>1, Intervals, LoopAssumption DEF SetBack, TypeOK, Aging, Least
    <2>4. elapsed' \in -MaxBack .. ScanInterval + MaxBack
      BY <1>1, <2>1, LoopAssumption DEF SetBack, TypeOK, Aging
    <2> QED BY <1>1, <2>1, <2>2, <2>3, <2>4
            DEF SetBack, TypeOK, agent, Never
  <1>2. CASE SetForward
    <2>1. age' \in [Timers -> Int]
      BY <1>2, Intervals DEF SetForward, Aged, TypeOK, Least
    <2>2. \A t \in Timers : age'[t] \in -MaxBack .. Never(t)
      BY <1>2, Intervals, LoopAssumption DEF SetForward, Aged, TypeOK, Least
    <2>3. elapsed' \in -MaxBack .. ScanInterval + MaxBack
      BY <1>2, LoopAssumption DEF SetForward, Spends, TypeOK, Least
    <2> QED BY <1>2, <2>1, <2>2, <2>3 DEF SetForward, TypeOK, agent, limits, Never
  <1> QED BY <1>1, <1>2

LEMMA StepTypeOK == IInv /\ [Next]_vars => TypeOK'
  <1> SUFFICES ASSUME TypeOK, Aging, [Next]_vars PROVE TypeOK'
    BY DEF IInv
  <1> USE DEF PCs, ReaderStates
  <1>1. CASE Start \/ NoReader \/ NoRetry \/ NoHeartbeat \/ Wake
    BY <1>1 DEF Start, NoReader, NoRetry, NoHeartbeat, Wake, Quietly, agent, times, limits,
                TypeOK, Never
  <1>2. CASE BeginConnect \/ NoConnect
    BY <1>2, LoopAssumption DEF BeginConnect, NoConnect, agent, limits, TypeOK, Never
  <1>3. CASE RequestStop
    BY <1>3, LoopAssumption DEF RequestStop, agent, times, TypeOK, Never
  <1>4. CASE StopNow \/ HeartbeatRaises \/ Kill
    BY <1>4, EndedTypes, LoopAssumption DEF StopNow, HeartbeatRaises, Kill, TypeOK
  <1>5. CASE SetBack \/ SetForward
    BY <1>5, ClockTypes
  <1>6. CASE StartupPass
    <2>1. PICK sent \in 0 .. Batch, d \in 0 .. PassTime :
            Deliver(sent) /\ held' = IF stop THEN held + d ELSE 0
      BY <1>6, PassBound DEF StartupPass
    <2>2. held' \in Nat
      BY <2>1, PassBound DEF TypeOK
    <2> QED BY <1>6, <2>1, <2>2, DeliverTypes, FreshTypes DEF StartupPass, TypeOK, limits, Never
  <1>7. CASE Connect
    <2>1. PICK state \in ReaderStates, d \in 0 .. ConnectTime :
            /\ readerState' = state
            /\ health' = AfterAttempt(state)
            /\ failed' = (failed /\ state # "READY")
            /\ age' = [Aged(d) EXCEPT !["reader"] = Least(elapsed + d, Never("reader"))]
            /\ Idles(d, {"reader"})
            /\ Spends(d)
      BY <1>7 DEF Connect, Outcomes, ReaderStates
    <2>2. d \in Nat /\ health' \in Health
      BY AttemptRecord, <2>1, LoopAssumption
    <2>3. age' \in [Timers -> Int] /\ \A t \in Timers : age'[t] \in -MaxBack .. Never(t)
      <3>1. "reader" \in Timers
        BY DEF Timers
      <3>2. \A t \in Timers : Aged(d)[t] \in Int /\ Aged(d)[t] \in -MaxBack .. Never(t)
        BY <2>2, Intervals, LoopAssumption DEF Aged, Least, TypeOK
      <3>3. /\ Least(elapsed + d, Never("reader")) \in Int
            /\ Least(elapsed + d, Never("reader")) \in -MaxBack .. Never("reader")
        BY <2>2, <3>1, Intervals, LoopAssumption DEF Least, TypeOK
      <3>4. Aged(d) \in [Timers -> Int]
        BY <3>2 DEF Aged
      <3> QED BY <2>1, <3>1, <3>2, <3>3, <3>4
    <2>4. idle' \in [Timers -> Nat] /\ gap' \in Nat /\ held' \in Nat
      BY <2>1, <2>2 DEF Idles, TypeOK
    <2>5. elapsed' \in -MaxBack .. ScanInterval + MaxBack
      BY <2>1, <2>2, LoopAssumption DEF Spends, Least, TypeOK
    <2> QED BY <1>7, <2>1, <2>2, <2>3, <2>4, <2>5 DEF Connect, TypeOK, limits, Never
  <1>8. CASE Inventory
    <2>1. PICK d \in 0 .. InventoryTime, new \in 0 .. MaxPending - pending :
            /\ \/ health' = MarkInventorySuccess(health)
               \/ health' = MarkInventoryNoResponse(health)
               \/ health' = MarkInventoryMalformed(health)
            /\ pending' = pending + new
            /\ pc' = IF new > 0 THEN "deliver" ELSE "retry"
            /\ Takes(d, {"scan"})
            /\ Spends(d)
      BY <1>8 DEF Inventory
    <2>2. d \in Nat /\ health' \in Health
      BY <2>1, HealthRecord, LoopAssumption DEF TypeOK, Errors
    <2>3. pending' \in 0 .. MaxPending /\ pc' \in PCs
      BY <2>1, LoopAssumption DEF TypeOK
    <2> QED BY <1>8, <2>1, <2>2, <2>3, TakesTypes DEF Inventory, TypeOK, limits, Never
  <1>9. CASE InventoryRaises
    <2>1. PICK d \in 0 .. InventoryTime : Takes(d, {"reader", "scan"}) /\ Spends(d)
      BY <1>9 DEF InventoryRaises
    <2>2. d \in Nat /\ health' \in Health
      BY <1>9, HealthRecord, LoopAssumption DEF TypeOK, Errors, Failures, InventoryRaises
    <2> QED BY <1>9, <2>1, <2>2, TakesTypes DEF InventoryRaises, TypeOK, limits, Never
  <1>10. ASSUME NEW next \in PCs, Pass(next) PROVE TypeOK'
    <2>1. PICK d \in 0 .. PassTime : Takes(d, {"delivery"}) /\ Spends(d)
      BY <1>10, PassTakes
    <2>2. d \in Nat
      BY PassBound
    <2>3. PICK sent \in 0 .. Batch : Deliver(sent)
      BY <1>10, PassTakes
    <2> QED BY <1>10, <2>1, <2>2, <2>3, TakesTypes, DeliverTypes DEF Pass, TypeOK, limits, Never
  <1>11. CASE Heartbeat
    <2>1. PICK d \in 0 .. BeatTime : Takes(d, {"heartbeat"}) /\ Spends(d)
      BY <1>11 DEF Heartbeat
    <2>2. d \in Nat
      BY LoopAssumption
    <2> QED BY <1>11, <2>1, <2>2, TakesTypes DEF Heartbeat, TypeOK, agent, limits, Never
  <1>12. CASE Sleep
    <2>1. Spends(1)
      BY <1>12, LoopAssumption DEF Sleep, Spends, Least, TypeOK
    <2> QED BY <1>12, <2>1, TakesTypes DEF Sleep, TypeOK, agent, limits, Never
  <1>13. CASE UNCHANGED vars
    BY <1>13 DEF vars, agent, times, limits, TypeOK, Never
  <1> QED BY <1>1, <1>2, <1>3, <1>4, <1>5, <1>6, <1>7, <1>8, <1>9, <1>10, <1>11, <1>12, <1>13
          DEF Next, AgentStep, DeliveryPass, Beat, ImmediatePass, RetryPass
-----------------------------------------------------------------------------
(* The timers, one lemma for each kind of step. *)

Timing == Aging /\ HeartbeatTimer /\ DeliveryTimer /\ ReaderTimer /\ GapTimer /\ Stopping

\* The measures one by one, as the provers need them.
LEMMA Measures ==
    ASSUME TypeOK
    PROVE  /\ \A t \in Timers : age[t] \in Int /\ idle[t] \in Nat
           /\ {"delivery", "heartbeat", "reader"} = Timers
           /\ elapsed \in Int /\ gap \in Nat /\ held \in Nat /\ back \in Nat /\ back <= MaxBack
           /\ PassTime \in Nat
  BY PassBound, LoopAssumption DEF TypeOK, Timers

LEMMA TimingInit == Init => Timing
  BY Intervals, LoopAssumption, PassBound, TypeInit, Measures
  DEF Init, Timing, Aging, HeartbeatTimer, DeliveryTimer, ReaderTimer, GapTimer, Stopping, Spent,
      Recent, Least, Greatest

LEMMA TimingEnded == ASSUME TypeOK, Ended PROVE Timing'
  BY Intervals, LoopAssumption, Measures
  DEF Ended, Timing, Aging, HeartbeatTimer, DeliveryTimer, ReaderTimer, GapTimer, Stopping, Spent,
      Recent, Least, Greatest, Never

\* The steps that take no time.
LEMMA TimingQuiet ==
    ASSUME TypeOK, Timing,
           \/ Start \/ BeginConnect \/ NoConnect \/ NoReader \/ NoRetry \/ NoHeartbeat \/ Wake
           \/ RequestStop \/ UNCHANGED vars
    PROVE  Timing'
  <1> USE Intervals, LoopAssumption, Measures
      DEF Timing, Aging, HeartbeatTimer, DeliveryTimer, ReaderTimer, GapTimer, Stopping, Spent,
          Recent, Least, Greatest, Never, agent, times, limits
  <1>1. CASE Start \/ RequestStop \/ UNCHANGED vars
    BY <1>1 DEF Start, Quietly, RequestStop, vars
  <1>2. CASE BeginConnect
    BY <1>2 DEF BeginConnect, Running
  <1>3. CASE NoConnect
    BY <1>3, NotDue DEF NoConnect, Running
  <1>4. CASE NoReader
    BY <1>4 DEF NoReader, Quietly
  <1>5. CASE NoRetry
    BY <1>5, NotDue DEF NoRetry, Quietly
  <1>6. CASE NoHeartbeat
    BY <1>6, NotDue DEF NoHeartbeat, Quietly
  <1>7. CASE Wake
    BY <1>7 DEF Wake, Quietly
  <1> QED BY <1>1, <1>2, <1>3, <1>4, <1>5, <1>6, <1>7

\* The setting of the clock moves the measured ages; the bounds grow with what
\* it was set back.
LEMMA TimingClock ==
    ASSUME TypeOK, Timing, SetBack \/ SetForward
    PROVE  Timing'
  <1> USE Intervals, LoopAssumption, Measures
      DEF Timing, Aging, HeartbeatTimer, DeliveryTimer, ReaderTimer, GapTimer, Stopping, Spent,
          Recent, Least, Greatest, Never, agent, limits
  <1>1. CASE SetBack
    BY <1>1 DEF SetBack
  <1>2. CASE SetForward
    BY <1>2 DEF SetForward, Aged, Spends
  <1> QED BY <1>1, <1>2

\* What takes time and does the work of the timers in `done`.
LEMMA TimingTakes ==
    ASSUME TypeOK, Timing, NEW d \in Nat, NEW done, Takes(d, done), Spends(d),
           UNCHANGED <<readerState, stop, back>>
    PROVE  /\ Aging'
           /\ \A t \in Timers : Recent(t) \/ t \in done => Recent(t)'
           /\ \A t \in Timers : idle'[t] = IF t \in done \/ (t = "reader" /\ readerState = "READY")
                                          THEN 0 ELSE idle[t] + d
           /\ gap' = IF "scan" \in done \/ readerState # "READY" THEN 0 ELSE gap + d
           /\ gap <= elapsed + back \/ elapsed + back >= ScanInterval + MaxBack =>
                gap' <= elapsed' + back \/ elapsed' + back >= ScanInterval + MaxBack
           /\ elapsed' = Least(elapsed + d, ScanInterval + MaxBack)
           /\ held' = IF stop THEN held + d ELSE 0
  <1>1. Aging' /\ \A t \in Timers : Recent(t) \/ t \in done => Recent(t)'
    BY TakesAging, TakesRecent DEF Timing
  <1>2. \A t \in Timers : idle'[t] = IF t \in done \/ (t = "reader" /\ readerState = "READY")
                                     THEN 0 ELSE idle[t] + d
    BY TakesOne
  <1>3. /\ gap' = IF "scan" \in done \/ readerState # "READY" THEN 0 ELSE gap + d
        /\ held' = IF stop THEN held + d ELSE 0
        /\ elapsed' = Least(elapsed + d, ScanInterval + MaxBack)
    BY DEF Takes, Idles, Spends
  <1>4. gap <= elapsed + back \/ elapsed + back >= ScanInterval + MaxBack =>
          gap' <= elapsed' + back \/ elapsed' + back >= ScanInterval + MaxBack
    BY <1>3, Measures, LoopAssumption DEF Timing, Aging, Least
  <1> QED BY <1>1, <1>2, <1>3, <1>4

LEMMA TimingSleep ==
    ASSUME TypeOK, Timing, Sleep
    PROVE  Timing'
  <1>1. Spends(1)
    BY LoopAssumption DEF Sleep, Spends, Least, TypeOK
  <1> QED BY <1>1, TimingTakes, Intervals, LoopAssumption, Measures
      DEF Sleep, Running, agent, limits, Timing, HeartbeatTimer, DeliveryTimer, ReaderTimer,
          GapTimer, Stopping, Spent, Recent, Least, Greatest

LEMMA TimingHeartbeat ==
    ASSUME TypeOK, Timing, Heartbeat
    PROVE  Timing'
  <1>1. PICK d \in 0 .. BeatTime : Takes(d, {"heartbeat"}) /\ Spends(d)
    BY DEF Heartbeat
  <1>2. d \in Nat
    BY LoopAssumption
  <1> QED BY <1>1, <1>2, TimingTakes, Intervals, LoopAssumption, Measures
      DEF Heartbeat, agent, limits, Timing, HeartbeatTimer, DeliveryTimer, ReaderTimer,
          GapTimer, Stopping, Spent, Least, Greatest

\* Both passes of an iteration.
LEMMA TimingPass ==
    ASSUME TypeOK, Timing, ImmediatePass \/ RetryPass
    PROVE  Timing'
  <1>1. PICK next : Pass(next) /\ pc' = next
    BY PassTakes DEF ImmediatePass, RetryPass
  <1>2. PICK d \in 0 .. PassTime : Takes(d, {"delivery"}) /\ Spends(d)
    BY <1>1, PassTakes
  <1>3. d \in Nat /\ UNCHANGED <<readerState, stop, back>>
    BY <1>1, PassTakes, PassBound DEF limits
  <1> USE <1>2, <1>3, TimingTakes, Intervals, LoopAssumption, Measures
      DEF Timing, HeartbeatTimer, DeliveryTimer, ReaderTimer, GapTimer, Stopping, Spent, Least,
          Greatest
  <1>4. CASE ImmediatePass
    BY <1>4, PassTakes DEF ImmediatePass
  <1>5. CASE RetryPass
    BY <1>5, PassTakes DEF RetryPass
  <1> QED BY <1>4, <1>5

LEMMA TimingInventory ==
    ASSUME TypeOK, Timing, Inventory \/ InventoryRaises
    PROVE  Timing'
  <1> USE Intervals, LoopAssumption, Measures
      DEF Timing, HeartbeatTimer, DeliveryTimer, ReaderTimer, GapTimer, Stopping, Spent, Least,
          Greatest, limits
  <1>1. CASE Inventory
    <2>1. PICK d \in 0 .. InventoryTime : Takes(d, {"scan"}) /\ Spends(d)
      BY <1>1 DEF Inventory
    <2>2. d \in Nat /\ pc' \in {"deliver", "retry"}
      BY <1>1 DEF Inventory
    <2>3. /\ readerState = "READY" /\ pc = "scan"
          /\ UNCHANGED <<readerState, stop, back>>
      BY <1>1 DEF Inventory
    <2>4. Aging' /\ \A t \in Timers : Recent(t) => Recent(t)'
      BY <2>1, <2>2, <2>3, TakesAging, TakesRecent
    <2>5. idle' = [t \in Timers |-> IF t = "reader" THEN 0 ELSE idle[t] + d] /\ gap' = 0
      BY <2>1, <2>3 DEF Takes, Idles
    <2>6. /\ held' = IF stop THEN held + d ELSE 0
          /\ elapsed' = Least(elapsed + d, ScanInterval + MaxBack)
      BY <2>1 DEF Takes, Idles, Spends
    <2> QED BY <2>2, <2>3, <2>4, <2>5, <2>6 DEF Aging
  <1>2. CASE InventoryRaises
    <2>1. PICK d \in 0 .. InventoryTime : Takes(d, {"reader", "scan"}) /\ Spends(d)
      BY <1>2 DEF InventoryRaises
    <2>2. d \in Nat
      OBVIOUS
    <2>3. \A t \in Timers : Recent(t) \/ t = "reader" => Recent(t)'
      BY <1>2, <2>1, <2>2, TakesRecent DEF InventoryRaises
    <2>4. Aging'
      BY <1>2, <2>1, <2>2, TakesAging DEF InventoryRaises
    <2>5. idle' = [t \in Timers |-> IF t = "reader" THEN 0 ELSE idle[t] + d] /\ gap' = 0
      BY <1>2, <2>1 DEF InventoryRaises, Takes, Idles
    <2>6. held' = (IF stop THEN held + d ELSE 0) /\ Spends(d)
      BY <2>1 DEF Takes, Idles
    <2>7. readerState' = "DISCONNECTED" /\ pc = "scan" /\ pc' = "retry" /\ UNCHANGED <<stop, back>>
      BY <1>2 DEF InventoryRaises
    <2> QED BY <2>2, <2>3, <2>4, <2>5, <2>6, <2>7 DEF Aging, Spends
  <1> QED BY <1>1, <1>2

LEMMA TimingConnect ==
    ASSUME TypeOK, Timing, Connect
    PROVE  Timing'
  <1>1. PICK d \in 0 .. ConnectTime :
          /\ age' = [Aged(d) EXCEPT !["reader"] = Least(elapsed + d, Never("reader"))]
          /\ Idles(d, {"reader"})
          /\ Spends(d)
    BY DEF Connect
  <1>2. /\ pc = "connect" /\ pc' = "scan"
        /\ UNCHANGED <<stop, back>>
    BY DEF Connect, limits
  <1>3. /\ \A t \in Timers : age'[t] = IF t = "reader" THEN Least(elapsed + d, Never(t))
                                      ELSE Least(age[t] + d, Never(t))
        /\ \A t \in Timers : idle'[t] = IF t = "reader" THEN 0 ELSE idle[t] + d
        /\ held' = IF stop THEN held + d ELSE 0
        /\ elapsed' = Least(elapsed + d, ScanInterval + MaxBack)
    BY <1>1, Measures DEF Aged, Idles, Spends, TypeOK
  <1>4. readerState # "READY" /\ gap' = 0
    BY <1>1, <1>2 DEF Timing, ReaderTimer, Idles
  <1> QED BY <1>1, <1>2, <1>3, <1>4, Intervals, LoopAssumption, Measures
      DEF  Timing, Aging, HeartbeatTimer, DeliveryTimer,
          ReaderTimer, GapTimer, Stopping, Spent, Recent, Least, Greatest, Never

\* The pass before the loop.
LEMMA TimingStartup ==
    ASSUME TypeOK, Timing, StartupPass
    PROVE  Timing'
  <1>1. PICK d \in 0 .. PassTime : held' = IF stop THEN held + d ELSE 0
    BY PassBound DEF StartupPass
  <1>2. /\ \A t \in Timers : idle'[t] = 0 /\ age'[t] >= 0 /\ age'["reader"] = Never("reader")
        /\ gap' = gap /\ pc' = "top"
    BY Intervals, Measures DEF StartupPass, FreshTimers
  <1> QED BY <1>1, <1>2, Intervals, LoopAssumption, Measures
      DEF StartupPass, FreshTimers, limits, Timing, Aging, HeartbeatTimer, DeliveryTimer,
          ReaderTimer, GapTimer, Stopping, Spent, Recent, Least, Greatest, Never

LEMMA StepTiming == IInv /\ [Next]_vars => Timing'
  <1> SUFFICES ASSUME TypeOK, Timing, [Next]_vars PROVE Timing'
    BY DEF IInv, Timing
  <1>1. CASE StopNow \/ HeartbeatRaises \/ Kill
    BY <1>1, TimingEnded DEF StopNow, HeartbeatRaises, Kill
  <1>2. CASE ~(StopNow \/ HeartbeatRaises \/ Kill)
    BY <1>2, TimingQuiet, TimingClock, TimingSleep, TimingHeartbeat, TimingPass, TimingInventory,
       TimingConnect, TimingStartup
    DEF Next, AgentStep, DeliveryPass, Beat
  <1> QED BY <1>1, <1>2
-----------------------------------------------------------------------------
(* The report. *)

\* What the operations do to the fields that Reporting speaks of.
LEMMA HealthFields ==
    ASSUME NEW h \in Health
    PROVE  /\ FreshHealth.error = "none" /\ FreshHealth.connected = FALSE /\ FreshHealth.status = "OFFLINE"
           /\ \A g \in {MarkInventorySuccess(h), MarkInventoryNoResponse(h), MarkInventoryMalformed(h)} :
                g.connected = TRUE /\ g.error = h.error
           /\ \A kind \in Failures :
                /\ MarkReaderOffline(h, kind).status = "OFFLINE"
                /\ MarkReaderOffline(h, kind).connected = FALSE
                /\ MarkReaderOffline(h, kind).error = h.error
           /\ MarkReaderReady(h).connected = TRUE
           /\ \A kind \in Errors :
                /\ MarkError(h, kind).error = kind
                /\ MarkError(h, kind).connected = h.connected /\ MarkError(h, kind).status = h.status
           /\ ClearError(h).error = "none" /\ ClearError(h).connected = h.connected
  BY DEF Health, FreshHealth, MarkInventorySuccess, MarkInventoryNoResponse, MarkInventoryMalformed,
         MarkReaderOffline, MarkReaderReady, MarkError, ClearError

LEMMA StepReporting == IInv /\ [Next]_vars => Reporting'
  <1> SUFFICES ASSUME TypeOK, Aging, Reporting, [Next]_vars PROVE Reporting'
    BY DEF IInv
  <1>1. CASE Start \/ NoReader \/ NoRetry \/ NoHeartbeat \/ RequestStop \/ UNCHANGED vars
    BY <1>1, Intervals, Measures DEF Start, NoReader, NoRetry, NoHeartbeat, RequestStop, Quietly, vars, agent, times,
                limits, Reporting, Never
  <1>2. CASE Wake
    BY <1>2 DEF Wake, Quietly, agent, times, limits, Reporting
  <1>3. CASE BeginConnect
    BY <1>3 DEF BeginConnect, agent, limits, Reporting
  <1>4. CASE NoConnect
    BY <1>4, Intervals, Measures, LoopAssumption DEF NoConnect, agent, limits, Reporting, Due, TypeOK, Never
  <1>5. CASE StopNow \/ HeartbeatRaises \/ Kill
    <2>1. health' = FreshHealth /\ readerState' = "DISCONNECTED" /\ pc' = "down"
      BY <1>5 DEF StopNow, HeartbeatRaises, Kill, Ended
    <2>2. FreshHealth.error = "none" /\ FreshHealth.connected = FALSE /\ FreshHealth.status = "OFFLINE"
      BY DEF FreshHealth
    <2> QED BY <2>1, <2>2 DEF Reporting
  <1>6. CASE SetBack \/ SetForward
    BY <1>6, Intervals, Measures, LoopAssumption DEF SetBack, SetForward, Aged, agent, limits, TypeOK, Reporting, Least, Never
  <1>7. CASE Heartbeat \/ Sleep
    BY <1>7 DEF Heartbeat, Sleep, agent, limits, Reporting
  <1>8. ASSUME NEW sent \in 0 .. Batch, Deliver(sent), UNCHANGED readerState
        PROVE  /\ health'.connected <=> readerState' = "READY"
               /\ readerState' # "READY" => health'.status = "OFFLINE"
               /\ readerState' = "READY" => health'.error \in {"none", "CLOUD_DELIVERY_FAILED"}
               /\ health'.error = "CLOUD_DELIVERY_FAILED" => failed'
               /\ health'.error = "none" => health.error = "none"
    BY <1>8 DEF Deliver, AfterPass, MarkError, Health, Errors, TypeOK, Reporting
  <1>9. CASE StartupPass
    <2>1. PICK sent \in 0 .. Batch : Deliver(sent)
      BY <1>9 DEF StartupPass
    <2>2. age'["reader"] = Never("reader") /\ pc' = "top" /\ UNCHANGED <<readerState, back>>
      BY <1>9, Intervals, Measures DEF StartupPass, FreshTimers, limits
    <2> QED BY <2>1, <2>2, <1>8, Intervals, Measures, LoopAssumption DEF TypeOK, Reporting, Never
  <1>10. CASE ImmediatePass \/ RetryPass
    <2>1. PICK sent \in 0 .. Batch : Deliver(sent)
      BY <1>10 DEF ImmediatePass, RetryPass, Pass
    <2>2. pc \in {"deliver", "retry"} /\ UNCHANGED readerState
      BY <1>10 DEF ImmediatePass, RetryPass, Pass
    <2> QED BY <2>1, <2>2, <1>8 DEF Reporting
  <1>11. CASE Connect
    <2>1. PICK state \in ReaderStates :
            /\ readerState' = state
            /\ health' = AfterAttempt(state)
            /\ failed' = (failed /\ state # "READY")
            /\ pc' = "scan"
      BY <1>11 DEF Connect, Outcomes, ReaderStates
    <2>2. DEFINE h == MarkReconnectAttempt(health)
    <2>3. h \in Health /\ h.error = health.error
      BY HealthRecord DEF TypeOK, MarkReconnectAttempt, Health
    <2> HIDE DEF h
    <2>4. CASE state = "READY"
      <3>1. MarkReaderReady(h) \in Health
        BY <2>3, HealthRecord
      <3>2. health' = ClearError(MarkReaderReady(h))
        BY <2>1, <2>4 DEF AfterAttempt, h
      <3>3. health'.error = "none" /\ health'.connected = TRUE
        BY <3>1, <3>2, <2>3, HealthFields DEF Health
      <3> QED BY <2>1, <2>4, <3>3 DEF Reporting
    <2>5. CASE state # "READY"
      <3> DEFINE kind == Failure(state)
      <3>0. kind \in Failures /\ kind \in {"CONFIG", "SERIAL_DISCONNECTED"}
        BY DEF Failure, Failures
      <3>1. health' = MarkReaderOffline(MarkError(h, kind), kind)
        BY <2>1, <2>5 DEF AfterAttempt, h
      <3> HIDE DEF kind
      <3>2. MarkError(h, kind) \in Health /\ MarkError(h, kind).error = kind
        BY <2>3, <3>0 DEF MarkError, Health, Errors
      <3>3. health'.error = kind /\ health'.connected = FALSE /\ health'.status = "OFFLINE"
        <4> DEFINE g == MarkError(h, kind)
        <4>1. g \in Health /\ g.error = kind /\ health' = MarkReaderOffline(g, kind)
          BY <3>1, <3>2
        <4> HIDE DEF g
        <4> QED BY <4>1 DEF MarkReaderOffline, Health
      <3> QED BY <2>1, <2>5, <3>0, <3>3 DEF Reporting
    <2> QED BY <2>4, <2>5
  <1>12. CASE Inventory
    <2>1. health' \in {MarkInventorySuccess(health), MarkInventoryNoResponse(health),
                       MarkInventoryMalformed(health)}
      BY <1>12 DEF Inventory
    <2>2. health'.connected = TRUE /\ health'.error = health.error
      BY <2>1 DEF MarkInventorySuccess, MarkInventoryNoResponse, MarkInventoryMalformed, Health, TypeOK
    <2>3. readerState = "READY" /\ UNCHANGED <<readerState, failed>>
      BY <1>12 DEF Inventory
    <2> QED BY <2>2, <2>3 DEF Reporting
  <1>13. CASE InventoryRaises
    <2> DEFINE kind == "SERIAL_DISCONNECTED"
    <2>1. /\ MarkReaderOffline(MarkError(health, kind), kind).error = kind
          /\ MarkReaderOffline(MarkError(health, kind), kind).connected = FALSE
          /\ MarkReaderOffline(MarkError(health, kind), kind).status = "OFFLINE"
      BY DEF MarkError, MarkReaderOffline, Health, TypeOK
    <2>2. /\ health' = MarkReaderOffline(MarkError(health, kind), kind)
          /\ readerState' = "DISCONNECTED"
      BY <1>13 DEF InventoryRaises
    <2> QED BY <2>1, <2>2 DEF Reporting
  <1> QED BY <1>1, <1>2, <1>3, <1>4, <1>5, <1>6, <1>7, <1>9, <1>10, <1>11, <1>12, <1>13
          DEF Next, AgentStep, DeliveryPass, Beat
-----------------------------------------------------------------------------
(* The theorems. *)

\* The strengthened invariant holds in every reachable state of run_agent.
THEOREM Invariance == Spec => []IInv
  <1>1. Init => IInv
    <2>1. Init => Reporting
      BY DEF Init, Reporting, FreshHealth
    <2> QED BY <2>1, TypeInit, TimingInit DEF IInv, Timing
  <1>2. IInv /\ [Next]_vars => IInv'
    BY StepTypeOK, StepTiming, StepReporting DEF IInv, Timing
  <1> QED BY <1>1, <1>2, PTL DEF Spec

\* Every reachable state of the loop of run_agent is well typed.
THEOREM TypeCorrect == Spec => []TypeOK
  <1>1. IInv => TypeOK
    BY DEF IInv
  <1> QED BY <1>1, Invariance, PTL

\* No timer of the loop is checked later than one way around it after its
\* interval, whatever the clock does.
THEOREM AlwaysPunctual == Spec => []Punctual
  <1>1. ASSUME IInv PROVE Punctual
    <2>1. TypeOK
      BY <1>1 DEF IInv
    <2> USE <1>1, <2>1, Intervals, Measures, LoopAssumption DEF IInv, Greatest
    <2>2. idle["heartbeat"] < Interval["heartbeat"] + Detour["heartbeat"] + 2 * back
      BY DEF HeartbeatTimer, Spent, Detour
    <2>3. idle["delivery"] < Interval["delivery"] + Detour["delivery"] + 2 * back
      BY DEF DeliveryTimer, Spent, Detour
    <2>4. idle["reader"] < Interval["reader"] + Detour["reader"] + 2 * back
      BY DEF ReaderTimer, Detour
    <2> QED BY <2>2, <2>3, <2>4 DEF Punctual
  <1> QED BY <1>1, Invariance, PTL

\* The loop of run_agent ends within one iteration of a request to stop.
THEOREM StopsSoon == Spec => []StopsInTime
  <1>1. IInv => StopsInTime
    BY DEF IInv, Stopping, StopsInTime
  <1> QED BY <1>1, Invariance, PTL

\* What run_agent does between two readings is bounded by two batches of
\* requests and the heartbeat, or by the sleep.
THEOREM GapBounded == Spec => []ScanGap
  <1>1. IInv => ScanGap
    BY DEF IInv, GapTimer, ScanGap
  <1> QED BY <1>1, Invariance, PTL

\* What send_heartbeat reports of the reader and of the last error is true.
THEOREM ReportsTruly == Spec => []ReportedError
  <1>1. IInv => ReportedError
    BY DEF IInv, Reporting, ReportedError
  <1> QED BY <1>1, Invariance, PTL
-----------------------------------------------------------------------------
(* The refinement of ReaderService *)

\* The record counts a reader as responding exactly while it calls it healthy.
Responding == health.responding <=> health.status = "HEALTHY"

\* What a heartbeat says after each operation on the record, and the inventories
\* without an answer that it has counted.
LEMMA Reports ==
    ASSUME NEW h \in Health
    PROVE  /\ Report(FreshHealth) = Service!Says("DISCONNECTED", "OFFLINE", "none")
           /\ FreshHealth.silences = 0
           /\ Report(MarkReconnectAttempt(h)) = Service!Says("CONNECTING", "RECONNECTING", h.error)
           /\ MarkReconnectAttempt(h).silences = h.silences
           /\ h.status = "RECONNECTING" /\ h.responding = FALSE =>
                Report(ClearError(MarkReaderReady(h))) = Service!Says("READY", "DEGRADED", "none")
           /\ ClearError(MarkReaderReady(h)).silences = h.silences
           /\ \A kind \in Failures :
                /\ \A state \in ReaderStates \ {"READY"} :
                     Report(MarkReaderOffline(MarkError(h, kind), kind)) = Service!Says(state, "OFFLINE", kind)
                /\ MarkReaderOffline(MarkError(h, kind), kind).silences = h.silences
           /\ Report(MarkInventorySuccess(h)) = Service!Says("READY", "HEALTHY", h.error)
           /\ MarkInventorySuccess(h).silences = 0
           /\ Report(MarkInventoryNoResponse(h)) =
                Service!Says("READY", IF UpTo(h.silences, Threshold) >= Threshold
                                      THEN "OFFLINE" ELSE "DEGRADED", h.error)
           /\ MarkInventoryNoResponse(h).silences = UpTo(h.silences, Threshold)
           /\ Report(MarkInventoryMalformed(h)) = Service!Says("READY", "DEGRADED", h.error)
           /\ MarkInventoryMalformed(h).silences = h.silences
  <1> USE DEF Report, Service!Says
  <1>1. /\ Report(FreshHealth) = Service!Says("DISCONNECTED", "OFFLINE", "none")
        /\ FreshHealth.silences = 0
    BY DEF FreshHealth
  <1>2. /\ Report(MarkReconnectAttempt(h)) = Service!Says("CONNECTING", "RECONNECTING", h.error)
        /\ MarkReconnectAttempt(h).silences = h.silences
    BY DEF MarkReconnectAttempt, Health
  <1>3. ASSUME h.status = "RECONNECTING", h.responding = FALSE
        PROVE  Report(ClearError(MarkReaderReady(h))) = Service!Says("READY", "DEGRADED", "none")
    BY <1>3 DEF ClearError, MarkReaderReady, Health
  <1>4. ClearError(MarkReaderReady(h)).silences = h.silences
    BY DEF ClearError, MarkReaderReady, Health
  <1>5. ASSUME NEW kind \in Failures
        PROVE  /\ \A state \in ReaderStates \ {"READY"} :
                    Report(MarkReaderOffline(MarkError(h, kind), kind)) = Service!Says(state, "OFFLINE", kind)
               /\ MarkReaderOffline(MarkError(h, kind), kind).silences = h.silences
    BY <1>5 DEF MarkReaderOffline, MarkError, Health
  <1>6. /\ Report(MarkInventorySuccess(h)) = Service!Says("READY", "HEALTHY", h.error)
        /\ MarkInventorySuccess(h).silences = 0
    BY DEF MarkInventorySuccess, Health
  <1>7. /\ Report(MarkInventoryNoResponse(h)) =
             Service!Says("READY", IF UpTo(h.silences, Threshold) >= Threshold
                                   THEN "OFFLINE" ELSE "DEGRADED", h.error)
        /\ MarkInventoryNoResponse(h).silences = UpTo(h.silences, Threshold)
    BY DEF MarkInventoryNoResponse, Health
  <1>8. /\ Report(MarkInventoryMalformed(h)) = Service!Says("READY", "DEGRADED", h.error)
        /\ MarkInventoryMalformed(h).silences = h.silences
    BY DEF MarkInventoryMalformed, Health
  <1> QED BY <1>1, <1>2, <1>3, <1>4, <1>5, <1>6, <1>7, <1>8

\* What responds, and with what state a step leaves the loop, follows from what it shows.
LEMMA Shows ==
    ASSUME NEW h \in Health, NEW state, NEW status, NEW error,
           Report(h) = Service!Says(state, status, error)
    PROVE  h.responding <=> h.status = "HEALTHY"
  BY DEF Report, Service!Says

\* Of the service a step shows at most one of its own.
LEMMA StepServes ==
    ASSUME IInv, Responding, [Next]_vars
    PROVE  [Service!Next]_(Service!vars) /\ Responding'
  <1> USE DEF Service!Moves
  <1>0. /\ health \in Health /\ health.silences \in 0 .. Threshold
        /\ readerState \in ReaderStates /\ Report(health).error = health.error
        /\ health' \in Health
    BY StepTypeOK DEF IInv, TypeOK, Health, Report
  <1>1. CASE /\ UNCHANGED <<readerState, health>>
             /\ pc = "connect" <=> pc' = "connect"
    BY <1>1 DEF Shown, Service!vars, Responding
  <1>2. CASE BeginConnect
    <2>1. /\ pc # "connect" /\ pc' = "connect" /\ readerState # "READY"
          /\ UNCHANGED <<readerState, health>>
      BY <1>2 DEF BeginConnect, agent
    <2>2. Shown = health /\ Shown' = MarkReconnectAttempt(health)
      BY <2>1 DEF Shown
    <2>3. /\ Report(Shown)' = Service!Says("CONNECTING", "RECONNECTING", Report(Shown).error)
          /\ health.silences' = health.silences
      BY <1>0, <2>1, <2>2, Reports
    <2> QED BY <2>1, <2>3 DEF Service!Next, Service!Try, Responding
  <1>3. CASE Connect
    <2>1. pc = "connect" /\ pc' = "scan"
      BY <1>3 DEF Connect
    <2>2. PICK state \in ReaderStates : readerState' = state /\ health' = AfterAttempt(state)
      BY <1>3 DEF Connect, Outcomes, ReaderStates
    <2> DEFINE h == MarkReconnectAttempt(health)
    <2>3. /\ Shown = h /\ Shown' = health'
          /\ h \in Health /\ h.silences = health.silences
          /\ h.status = "RECONNECTING" /\ h.responding = FALSE
      BY <1>0, <2>1, HealthRecord DEF Shown, MarkReconnectAttempt, Health
    <2>4. health' = IF state = "READY" THEN ClearError(MarkReaderReady(h))
                    ELSE MarkReaderOffline(MarkError(h, Failure(state)), Failure(state))
      BY <2>2 DEF AfterAttempt
    <2> HIDE DEF h
    <2>5. CASE state = "READY"
      <3>1. /\ Report(Shown)' = Service!Says("READY", "DEGRADED", "none")
            /\ health.silences' = health.silences
        BY <2>3, <2>4, <2>5, Reports
      <3>2. Service!Succeed
        BY <2>1, <2>2, <2>5, <3>1 DEF Service!Succeed
      <3> QED BY <1>0, <2>3, <3>1, <3>2, Shows DEF Service!Next, Responding
    <2>6. CASE state # "READY"
      <3> DEFINE kind == Failure(state)
      <3>1. kind \in Failures
        BY DEF Failure, Failures
      <3>2. /\ Report(Shown)' = Service!Says(state, "OFFLINE", kind)
            /\ health.silences' = health.silences
        BY <2>3, <2>4, <2>6, <3>1, Reports
      <3>3. Service!Fail
        BY <2>1, <2>2, <2>6, <3>2 DEF Service!Fail, Failure, ReaderStates
      <3> QED BY <1>0, <2>3, <3>2, <3>3, Shows DEF Service!Next, Responding
    <2> QED BY <2>5, <2>6
  <1>4. CASE Inventory
    <2>1. /\ pc = "scan" /\ pc' # "connect" /\ readerState = "READY" /\ readerState' = "READY"
          /\ health' \in {MarkInventorySuccess(health), MarkInventoryNoResponse(health),
                          MarkInventoryMalformed(health)}
      BY <1>4 DEF Inventory
    <2>2. Shown = health /\ Shown' = health'
      BY <2>1 DEF Shown
    <2>3. CASE health' = MarkInventorySuccess(health)
      <3>1. /\ health.silences' = 0
            /\ Report(Shown)' = Service!Says("READY", "HEALTHY", Report(Shown).error)
        BY <1>0, <2>2, <2>3, Reports
      <3>2. Service!Answered
        BY <2>1, <3>1 DEF Service!Answered
      <3> QED BY <1>0, <2>2, <3>1, <3>2, Shows DEF Service!Next, Responding
    <2>4. CASE health' = MarkInventoryNoResponse(health)
      <3> DEFINE count == health.silences'
      <3>1. /\ count = UpTo(health.silences, Threshold)
            /\ Report(Shown)' = Service!Says("READY", IF count >= Threshold
                                                      THEN "OFFLINE" ELSE "DEGRADED", Report(Shown).error)
        BY <1>0, <2>2, <2>4, Reports
      <3>2. /\ count = IF health.silences < Threshold THEN health.silences + 1 ELSE health.silences
            /\ count >= Threshold <=> count = Threshold
        BY <1>0, <3>1, HealthAssumption DEF UpTo
      <3>3. Report(Shown)' = Service!Says("READY", IF count = Threshold
                                                   THEN "OFFLINE" ELSE "DEGRADED", Report(Shown).error)
        BY <3>1, <3>2
      <3>4. Service!Unanswered
        BY <2>1, <3>2, <3>3 DEF Service!Unanswered
      <3> QED BY <1>0, <2>2, <3>3, <3>4, Shows DEF Service!Next, Responding
    <2>5. CASE health' = MarkInventoryMalformed(health)
      <3>1. /\ health.silences' = health.silences
            /\ Report(Shown)' = Service!Says("READY", "DEGRADED", Report(Shown).error)
        BY <1>0, <2>2, <2>5, Reports
      <3>2. Service!AnsweredBadly
        BY <2>1, <3>1 DEF Service!AnsweredBadly
      <3> QED BY <1>0, <2>2, <3>1, <3>2, Shows DEF Service!Next, Responding
    <2> QED BY <2>1, <2>3, <2>4, <2>5
  <1>5. CASE InventoryRaises
    <2>1. /\ pc = "scan" /\ pc' = "retry" /\ readerState = "READY" /\ readerState' = "DISCONNECTED"
          /\ health' = MarkReaderOffline(MarkError(health, "SERIAL_DISCONNECTED"),
                                         "SERIAL_DISCONNECTED")
      BY <1>5 DEF InventoryRaises
    <2>2. "SERIAL_DISCONNECTED" \in Failures /\ "DISCONNECTED" \in ReaderStates \ {"READY"}
      BY DEF Failures, ReaderStates
    <2>3. /\ Report(Shown)' = Service!Says("DISCONNECTED", "OFFLINE", "SERIAL_DISCONNECTED")
          /\ Shown' = health' /\ health.silences' = health.silences
      BY <1>0, <2>1, <2>2, Reports DEF Shown
    <2>4. Service!Fail
      BY <2>1, <2>3 DEF Service!Fail
    <2> QED BY <1>0, <2>3, <2>4, Shows DEF Service!Next, Responding
  <1>6. CASE StartupPass \/ ImmediatePass \/ RetryPass
    <2>1. /\ pc # "connect" /\ pc' # "connect" /\ readerState' = readerState
          /\ health' \in {health, MarkError(health, "CLOUD_DELIVERY_FAILED")}
      BY <1>6 DEF StartupPass, ImmediatePass, RetryPass, Pass, Deliver, AfterPass
    <2>2. Shown = health /\ Shown' = health'
      BY <2>1 DEF Shown
    <2>3. ASSUME health' = MarkError(health, "CLOUD_DELIVERY_FAILED")
          PROVE  /\ Report(Shown)' = Service!Says(readerState, Report(Shown).status,
                                                  "CLOUD_DELIVERY_FAILED")
                 /\ health.silences' = health.silences
      <3>1. /\ health'.status = health.status /\ health'.connected = health.connected
            /\ health'.responding = health.responding /\ health'.silences = health.silences
            /\ health'.error = "CLOUD_DELIVERY_FAILED"
        BY <1>0, <2>3 DEF MarkError, Health
      <3>2. health.connected \in BOOLEAN /\ health.responding \in BOOLEAN
        BY <1>0 DEF Health
      <3>3. health.connected = (readerState = "READY") /\ health.responding = (health.status = "HEALTHY")
        BY <3>2 DEF IInv, Reporting, Responding
      <3> QED BY <2>2, <3>1, <3>3 DEF Report, Service!Says
    <2>4. readerState # "CONNECTING"
      BY <1>0 DEF ReaderStates
    <2>5. CASE health' = MarkError(health, "CLOUD_DELIVERY_FAILED")
      BY <1>0, <2>1, <2>2, <2>3, <2>4, <2>5, Shows DEF Service!Next, Service!SendFails, Responding
    <2> QED BY <1>1, <2>1, <2>5
  <1>7. CASE StopNow \/ HeartbeatRaises \/ Kill
    <2>1. pc' = "down" /\ readerState' = "DISCONNECTED" /\ health' = FreshHealth
      BY <1>7 DEF StopNow, HeartbeatRaises, Kill, Ended
    <2>2. /\ Report(Shown)' = Service!Says("DISCONNECTED", "OFFLINE", "none")
          /\ Shown' = health' /\ health.silences' = 0
      BY <1>0, <2>1, Reports DEF Shown
    <2>3. Service!Restart
      BY <2>1, <2>2 DEF Service!Restart
    <2> QED BY <1>0, <2>2, <2>3, Shows DEF Service!Next, Responding
  <1>8. CASE Start \/ NoConnect \/ NoReader \/ NoRetry \/ NoHeartbeat \/ Heartbeat \/ Sleep \/ Wake
             \/ SetBack \/ SetForward \/ RequestStop \/ UNCHANGED vars
    <2>1. UNCHANGED <<readerState, health>> /\ (pc = "connect" <=> pc' = "connect")
      BY <1>8 DEF Start, NoConnect, NoReader, NoRetry, NoHeartbeat, Heartbeat, Sleep, Wake, Quietly,
                  SetBack, SetForward, RequestStop, vars, agent
    <2> QED BY <1>1, <2>1
  <1> QED BY <1>2, <1>3, <1>4, <1>5, <1>6, <1>7, <1>8 DEF Next, AgentStep, DeliveryPass, Beat

\* What run_agent does with the outcomes of connections, readings and deliveries keeps
\* the record to ReaderService, as what happens inside a connection does
\* (ReaderLink): the loop may be thought of as the one or the other.
THEOREM LoopServes == Spec => Serves
  <1>1. Init => Service!Init /\ Responding
    <2>1. ASSUME Init PROVE Service!Init /\ Responding
      <3>1. health \in Health /\ health = FreshHealth /\ pc = "down" /\ readerState = "DISCONNECTED"
        BY <2>1, TypeInit DEF Init, TypeOK
      <3>2. /\ Shown = health /\ health.silences = 0
            /\ Report(Shown) = Service!Says("DISCONNECTED", "OFFLINE", "none")
        BY <3>1, Reports DEF Shown
      <3> QED BY <3>1, <3>2, Shows DEF Service!Init, Responding
    <2> QED BY <2>1
  <1>2. IInv /\ Responding /\ [Next]_vars => [Service!Next]_(Service!vars) /\ Responding'
    BY StepServes
  <1> QED BY <1>1, <1>2, Invariance, PTL DEF Spec, Serves, Service!Spec
=============================================================================
