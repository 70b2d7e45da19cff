----------------------------- MODULE AgentLoop -----------------------------
(***************************************************************************)
(* The loop of run_agent in app.py with its timers, the heartbeat and the  *)
(* shutdown flag.  One thread connects, reads, delivers, reports and       *)
(* sleeps in turn, so whatever takes long delays everything else.          *)
(*                                                                         *)
(* Every timer compares time.time(), a wall clock that may be set back or  *)
(* forward, with the time of the last attempt.  The model keeps the        *)
(* difference (age), saturated where no comparison can tell, and beside it *)
(* the real time that has passed (idle).  Time is counted in whole units,  *)
(* one of them at least the 0.2 s at which a sleep polls the flag.         *)
(*                                                                         *)
(* What happens inside a connection, a reading and a delivery is reduced   *)
(* to its outcome and duration: see ReaderLink, TagTracking and Delivery.  *)
(***************************************************************************)
EXTENDS ReaderHealth, Integers

CONSTANTS
    ScanInterval, HeartbeatInterval, RetryInterval, DiscoveryInterval,
    BatchSize,      \* QUEUE_BATCH_SIZE
    ConnectTime,    \* bound: resolve_reader_port and connect_and_verify_reader
    InventoryTime,  \* bound: one inventory
    SendTime,       \* bound: one request of a delivery, its timeout included
    BeatTime,       \* bound: network telemetry and the heartbeat's request
    MaxPending,     \* bound: rows pending
    MaxBack,        \* bound: total by which the wall clock is set back
    MaxEnds         \* bound: requests to stop, and kills

ASSUME LoopAssumption ==
    /\ {ScanInterval, HeartbeatInterval, RetryInterval, DiscoveryInterval} \subseteq Nat \ {0}
    /\ BatchSize \in Nat \ {0}
    /\ {ConnectTime, InventoryTime, SendTime, BeatTime} \subseteq Nat
    /\ {MaxPending, MaxBack, MaxEnds} \subseteq Nat

VARIABLES
    pc,           \* where the thread stands
    readerState,  \* reader_state of run_agent
    health,       \* HealthState
    pending,      \* rows of the queue that are PENDING
    age,          \* wall clock minus the time of each timer's last attempt
    elapsed,      \* wall clock minus scan_start
    stop,         \* ShutdownController
    idle,         \* real time since the work of each timer last ended
    gap,          \* real time since the last reading of a READY reader
    held,         \* real time since the request to stop
    failed,       \* a send failed since the start or the last connection
    back,         \* total by which the wall clock was set back
    ends          \* requests to stop, and kills, so far

agent  == <<readerState, health, pending, failed>>
times  == <<age, elapsed, idle, gap, held>>
limits == <<back, ends>>
vars   == <<pc, agent, times, stop, limits>>

Timers == {"delivery", "heartbeat", "reader"}

\* The reader's timer is next_reader_attempt, less the interval.
Interval == [delivery |-> RetryInterval, heartbeat |-> HeartbeatInterval,
             reader |-> DiscoveryInterval]

Least(m, n)    == IF m < n THEN m ELSE n
Greatest(m, n) == IF m < n THEN n ELSE m

\* An age that is due however the clock may be set back: also that of 0.0.
Never(t) == Interval[t] + MaxBack

\* Faulty variant: > for >=.
DueLate(t) == age[t] > Interval[t]

Due(t) == age[t] >= Interval[t]

Init ==
    /\ pc = "down"
    /\ readerState = "DISCONNECTED"
    /\ health = FreshHealth
    /\ pending \in 0 .. MaxPending
    /\ age = [t \in Timers |-> 0]
    /\ elapsed = 0
    /\ stop = FALSE
    /\ idle = [t \in Timers |-> 0]
    /\ gap = 0
    /\ held = 0
    /\ failed = FALSE
    /\ back = 0
    /\ ends = 0
-----------------------------------------------------------------------------
(* Time *)

Aged(d) == [t \in Timers |-> Least(age[t] + d, Never(t))]

\* Real time.  The work of `done` has just ended; a reader that is READY does not
\* wait for a connection, one that is not waits for no reading.
Idles(d, done) ==
    /\ idle' = [t \in Timers |-> IF t \in done \/ (t = "reader" /\ readerState = "READY")
                                 THEN 0 ELSE idle[t] + d]
    /\ gap' = IF "scan" \in done \/ readerState # "READY" THEN 0 ELSE gap + d
    /\ held' = IF stop THEN held + d ELSE 0

\* Work of d units, after which the clock is read as the time of the attempt.
Takes(d, done) ==
    /\ age' = [t \in Timers |-> IF t \in done THEN 0 ELSE Aged(d)[t]]
    /\ Idles(d, done)

\* Faulty variant: the sleep is a whole interval however long the work took.
SpendsNothing(d) == elapsed' = elapsed

Spends(d) == elapsed' = Least(elapsed + d, ScanInterval + MaxBack)

\* Somebody, or NTP, sets the clock.
SetBack ==
    /\ pc # "down"
    /\ back < MaxBack
    /\ back' = back + 1
    /\ age' = [t \in Timers |-> age[t] - 1]
    /\ elapsed' = elapsed - 1
    /\ UNCHANGED <<pc, agent, idle, gap, held, stop, ends>>

SetForward ==
    /\ pc # "down"
    /\ age' = Aged(1)
    /\ Spends(1)
    /\ UNCHANGED <<pc, agent, idle, gap, held, stop, limits>>
-----------------------------------------------------------------------------
(* process_pending_deliveries *)

Batch == Least(pending, BatchSize)

\* Faulty variant: a delivery clears the error.
AfterPassClearing(sent) ==
    IF sent < Batch THEN MarkError(health, "CLOUD_DELIVERY_FAILED") ELSE ClearError(health)

\* Only failures touch last_error.
AfterPass(sent) ==
    IF sent < Batch THEN MarkError(health, "CLOUD_DELIVERY_FAILED") ELSE health

\* Some rows of the batch are delivered, the sends of the others fail.
Deliver(sent) ==
    /\ pending' = pending - sent
    /\ health' = AfterPass(sent)
    /\ failed' = (failed \/ sent < Batch)

\* A pass of the loop, also one that finds the queue empty, sets last_delivery_attempt.
Pass(next) ==
    /\ \E sent \in 0 .. Batch, d \in 0 .. Batch * SendTime :
        /\ Deliver(sent)
        /\ Takes(d, {"delivery"})
        /\ Spends(d)
    /\ pc' = next
    /\ UNCHANGED <<readerState, stop, limits>>
-----------------------------------------------------------------------------
(* run_agent *)

\* The thread goes on, at no cost.
Quietly(from, to) ==
    /\ pc = from
    /\ pc' = to
    /\ UNCHANGED <<agent, times, stop, limits>>

\* The process has ended: nothing but the queue survives.
Ended ==
    /\ pc' = "down"
    /\ readerState' = "DISCONNECTED"
    /\ health' = FreshHealth
    /\ age' = [t \in Timers |-> 0]
    /\ elapsed' = 0
    /\ stop' = FALSE
    /\ idle' = [t \in Timers |-> 0]
    /\ gap' = 0
    /\ held' = 0
    /\ failed' = FALSE
    /\ UNCHANGED <<pending, back>>

\* last_delivery_attempt is now, the other two timers begin at 0.0.
FreshTimers ==
    /\ age' = [t \in Timers |-> IF t = "delivery" THEN 0 ELSE Never(t)]
    /\ idle' = [t \in Timers |-> 0]

\* Faulty variant: nothing is delivered before the loop.
StartWithoutPass ==
    /\ pc = "down"
    /\ pc' = "top"
    /\ FreshTimers
    /\ UNCHANGED <<agent, elapsed, gap, held, stop, limits>>

Start == Quietly("down", "startup")

\* The pass before the loop, in which no flag is looked at.
StartupPass ==
    /\ pc = "startup"
    /\ \E sent \in 0 .. Batch, d \in 0 .. Batch * SendTime :
        /\ Deliver(sent)
        /\ held' = IF stop THEN held + d ELSE 0
    /\ pc' = "top"
    /\ FreshTimers
    /\ UNCHANGED <<readerState, elapsed, stop, gap, limits>>

\* Faulty variant: the loop ends when the queue is empty.
RunningUntilDrained == ~stop \/ pending > 0

\* while not shutdown_requested()
Running == ~stop

StopNow ==
    /\ pc = "top"
    /\ ~Running
    /\ Ended
    /\ UNCHANGED ends

\* The message that goes with the state.
Failure(state) == IF state = "CONFIG_ERROR" THEN "CONFIG" ELSE "SERIAL_DISCONNECTED"

\* Faulty variant: the error of the outage outlives it.
AfterAttemptKeeping(state) ==
    IF state = "READY" THEN MarkReaderReady(MarkReconnectAttempt(health))
    ELSE MarkReaderOffline(MarkError(MarkReconnectAttempt(health), Failure(state)), Failure(state))

\* The health record after an attempt to connect.
AfterAttempt(state) ==
    IF state = "READY" THEN ClearError(MarkReaderReady(MarkReconnectAttempt(health)))
    ELSE MarkReaderOffline(MarkError(MarkReconnectAttempt(health), Failure(state)), Failure(state))

\* A new iteration reads scan_start and now.  With the reader not READY and its
\* timer due it begins by an attempt to connect.
BeginConnect ==
    /\ pc = "top"
    /\ Running
    /\ readerState # "READY"
    /\ Due("reader")
    /\ elapsed' = 0
    /\ pc' = "connect"
    /\ UNCHANGED <<agent, age, idle, gap, held, stop, limits>>

NoConnect ==
    /\ pc = "top"
    /\ Running
    /\ readerState = "READY" \/ ~Due("reader")
    /\ elapsed' = 0
    /\ pc' = "scan"
    /\ UNCHANGED <<agent, age, idle, gap, held, stop, limits>>

\* Faulty variant: without a port the state stays what it was during the attempt.
OutcomesUndecided == {"READY", "CONNECTING", "CONFIG_ERROR"}

\* How an attempt ends.
Outcomes == {"READY", "DISCONNECTED", "CONFIG_ERROR"}

\* After a failure the interval runs from `now`, read before the attempt; after
\* a success nobody looks at the timer until InventoryRaises sets it.
Connect ==
    /\ pc = "connect"
    /\ \E state \in Outcomes, d \in 0 .. ConnectTime :
        /\ readerState' = state
        /\ health' = AfterAttempt(state)
        /\ failed' = (failed /\ state # "READY")
        /\ age' = [Aged(d) EXCEPT !["reader"] = Least(elapsed + d, Never("reader"))]
        /\ Idles(d, {"reader"})
        /\ Spends(d)
    /\ pc' = "scan"
    /\ UNCHANGED <<pending, stop, limits>>

\* An inventory that returns a result; the events of a VALID one are queued.
Inventory ==
    /\ pc = "scan"
    /\ readerState = "READY"
    /\ \E d \in 0 .. InventoryTime, new \in 0 .. MaxPending - pending :
        /\ \/ health' = MarkInventorySuccess(health)
           \/ new = 0 /\ health' = MarkInventoryNoResponse(health)
           \/ new = 0 /\ health' = MarkInventoryMalformed(health)
        /\ pending' = pending + new
        /\ pc' = IF new > 0 THEN "deliver" ELSE "retry"
        /\ Takes(d, {"scan"})
        /\ Spends(d)
    /\ UNCHANGED <<readerState, stop, failed, limits>>

\* The handle raises: next_reader_attempt is an interval from now.
InventoryRaises ==
    /\ pc = "scan"
    /\ readerState = "READY"
    /\ readerState' = "DISCONNECTED"
    /\ health' = MarkReaderOffline(MarkError(health, "SERIAL_DISCONNECTED"), "SERIAL_DISCONNECTED")
    /\ \E d \in 0 .. InventoryTime : Takes(d, {"reader", "scan"}) /\ Spends(d)
    /\ pc' = "retry"
    /\ UNCHANGED <<pending, stop, failed, limits>>

\* Faulty variant: without a reader the rest of the iteration is skipped.
NoReaderContinue == readerState # "READY" /\ Quietly("scan", "pause")

NoReader == readerState # "READY" /\ Quietly("scan", "retry")

ImmediatePass == pc = "deliver" /\ Pass("retry")

RetryPass == pc = "retry" /\ Due("delivery") /\ Pass("beat")

NoRetry == ~Due("delivery") /\ Quietly("retry", "beat")

\* send_heartbeat returns, with success or without: nothing depends on it.
Heartbeat ==
    /\ pc = "beat"
    /\ Due("heartbeat")
    /\ \E d \in 0 .. BeatTime : Takes(d, {"heartbeat"}) /\ Spends(d)
    /\ pc' = "pause"
    /\ UNCHANGED <<agent, stop, limits>>

\* The answer is JSON but no object: result.get raises what nobody catches
\* before main, which returns 1, and the service manager starts a new process.
HeartbeatRaises ==
    /\ pc = "beat"
    /\ Due("heartbeat")
    /\ Ended
    /\ UNCHANGED ends

NoHeartbeat == ~Due("heartbeat") /\ Quietly("beat", "pause")

\* interruptible_sleep of what is left of the interval.
Sleep ==
    /\ pc = "pause"
    /\ Running
    /\ elapsed < ScanInterval
    /\ elapsed' = elapsed + 1
    /\ Takes(1, {})
    /\ UNCHANGED <<pc, agent, stop, limits>>

Wake == (~Running \/ elapsed >= ScanInterval) /\ Quietly("pause", "top")
-----------------------------------------------------------------------------
(* The service manager *)

RequestStop ==
    /\ pc # "down"
    /\ ~stop
    /\ ends < MaxEnds
    /\ ends' = ends + 1
    /\ stop' = TRUE
    /\ UNCHANGED <<pc, agent, times, back>>

Kill ==
    /\ pc # "down"
    /\ ends < MaxEnds
    /\ ends' = ends + 1
    /\ Ended

DeliveryPass == StartupPass \/ ImmediatePass \/ RetryPass
Beat         == Heartbeat \/ HeartbeatRaises

AgentStep ==
    \/ Start \/ StopNow \/ BeginConnect \/ NoConnect \/ Connect
    \/ Inventory \/ InventoryRaises \/ NoReader
    \/ DeliveryPass \/ NoRetry \/ Beat \/ NoHeartbeat \/ Sleep \/ Wake

Next == AgentStep \/ SetBack \/ SetForward \/ RequestStop \/ Kill

Spec == Init /\ [][Next]_vars

\* The thread goes on, whatever its calls return, and is started again.
FairSpec == Spec /\ WF_vars(AgentStep)
-----------------------------------------------------------------------------
(* Properties *)

PCs == {"down", "startup", "top", "connect", "scan", "deliver", "retry", "beat", "pause"}

ReaderStates == {"DISCONNECTED", "CONFIG_ERROR", "READY"}

\* Type invariant.
TypeOK ==
    /\ pc \in PCs
    /\ readerState \in ReaderStates
    /\ health \in Health
    /\ pending \in 0 .. MaxPending
    /\ age \in [Timers -> Int]
    /\ \A t \in Timers : age[t] \in -MaxBack .. Never(t)
    /\ elapsed \in -MaxBack .. ScanInterval + MaxBack
    /\ stop \in BOOLEAN
    /\ idle \in [Timers -> Nat]
    /\ gap \in Nat
    /\ held \in Nat
    /\ failed \in BOOLEAN
    /\ back \in 0 .. MaxBack
    /\ ends \in 0 .. MaxEnds

PassTime == BatchSize * SendTime

\* The longest time in which the loop does not come to a timer's check again.
Detour ==
    [heartbeat |-> ScanInterval + ConnectTime + InventoryTime + 2 * PassTime,
     delivery  |-> Greatest(ScanInterval, BeatTime) + ConnectTime + InventoryTime,
     reader    |-> Greatest(ScanInterval, PassTime + BeatTime)]

\* No timer waits longer than its interval and the longest way around the loop
\* to its next check, plus twice what the clock was set back: once because the
\* last attempt then lies in the future, once because the sleep gets longer.
Punctual ==
    pc # "down" => \A t \in Timers : idle[t] < Interval[t] + Detour[t] + 2 * back

\* A request to stop is honoured after the rest of the iteration at most,
\* wherever it comes and whatever the clock does.
StopsInTime ==
    pc # "down" => held <= ConnectTime + InventoryTime + 2 * PassTime + BeatTime

\* Between the end of a reading and the next stand two batches of requests
\* that time out, the heartbeat, or the sleep: with the reading itself, this is
\* the time without one (MaxGap) that the presence logic has to bear.
ScanGap ==
    pc # "down" => gap <= Greatest(ScanInterval + back, 2 * PassTime + BeatTime)

\* What a heartbeat says.  Reader and delivery share last_error: an outage of
\* the reader is never reported without an error, no error of the reader
\* survives its end, and CLOUD_DELIVERY_FAILED tells of a send that failed since
\* the reader's last connection (although all may be delivered by now).
ReportedError ==
    pc = "beat" =>
        /\ health.connected <=> readerState = "READY"
        /\ readerState # "READY" => health.error # "none" /\ health.status = "OFFLINE"
        /\ readerState = "READY" => health.error \in {"none", "CLOUD_DELIVERY_FAILED"}
        /\ health.error = "CLOUD_DELIVERY_FAILED" => failed

\* The record while a connection is under way: connect_and_verify_reader has marked
\* the attempt, which the model does with its end.
Shown == IF pc = "connect" THEN MarkReconnectAttempt(health) ELSE health

\* What the heartbeat shows of the reader (ReaderService), from how connections end.
Service == INSTANCE ReaderService WITH
            reader     <- IF pc = "connect" THEN "CONNECTING" ELSE readerState,
            report     <- Report(Shown),
            unanswered <- health.silences

Serves == Service!Spec

\* Heartbeats are attempted for ever: without a reader, without a cloud, after
\* every restart, after the clock was set back.
HeartbeatsGoOn == []<><<Beat>>_vars

\* The queue is tried for ever, also when each heartbeat ends the process and
\* no timer ever gets due.
PassesGoOn == []<><<DeliveryPass>>_vars
=============================================================================
