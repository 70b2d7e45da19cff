------------------------------ MODULE Delivery ------------------------------
(***************************************************************************)
(* The delivery path of the agent: the part of app.py's run_agent between  *)
(* a detected event and the cloud's answer, with the queue on disk, the    *)
(* HTTP transport and the cloud's ingest endpoint.                         *)
(*                                                                         *)
(* One thread runs the agent.  What makes the protocol hard is everything  *)
(* around it: the process can die between any two transactions, a request  *)
(* can be stored although its reply is lost, and a request that timed out  *)
(* can still arrive after its successor.  The cloud is external: it stores *)
(* an event once, under its edge_event_id, and answers stored or           *)
(* already_stored, or it refuses.                                          *)
(***************************************************************************)
EXTENDS EventQueue

CONSTANTS
    NoEvent,        \* no row is being treated
    BatchSize,      \* QUEUE_BATCH_SIZE
    Poison,         \* events the cloud refuses whenever they are sent
    MaxCrashes,     \* bound: deaths of the process
    MonotonicClock  \* TRUE: the wall clock behind created_at never steps back

ASSUME DeliveryAssumption ==
    /\ NoEvent \notin Events
    /\ BatchSize \in Nat \ {0}
    /\ Poison \subseteq Events
    /\ MaxCrashes \in Nat
    /\ MonotonicClock \in BOOLEAN

VARIABLES
    table,      \* events.sqlite3
    cloud,      \* for each event the edition the cloud stored, 0 if none
    inflight,   \* timed-out requests <<event, edition>> the cloud may yet receive
    pc,         \* where the agent stands
    events,     \* detected events not enqueued yet (memory only)
    batch,      \* rows process_pending_deliveries has still to treat
    cur,        \* queued_event: the row being treated
    payload,    \* the edition of it in memory, restamped with edge_send_at
    ok,         \* result.success of the last send
    minted,     \* edge_event_ids handed out so far
    crashes     \* deaths of the process so far

vars == <<table, cloud, inflight, pc, events, batch, cur, payload, ok, minted, crashes>>

disk  == <<table>>
world == <<cloud, inflight>>
run   == <<batch, cur, payload, ok>>

Init ==
    /\ table = EmptyTable
    /\ cloud = [e \in Events |-> 0]
    /\ inflight = {}
    /\ pc = "down"
    /\ events = {}
    /\ batch = {}
    /\ cur = NoEvent
    /\ payload = 0
    /\ ok = FALSE
    /\ minted = {}
    /\ crashes = 0
-----------------------------------------------------------------------------
(* The agent's loop. *)

\* Faulty variant: delivered rows are purged when the queue is opened.
StartAndPurge ==
    /\ pc = "down"
    /\ pc' = "fetch"
    /\ table' = [e \in Events |-> IF table[e].status = "DELIVERED" THEN NoRow ELSE table[e]]
    /\ UNCHANGED <<world, run, events, minted, crashes>>

\* run_agent opens the queue and retries what it finds before anything else.
Start ==
    /\ pc = "down"
    /\ pc' = "fetch"
    /\ UNCHANGED <<disk, world, run, events, minted, crashes>>

\* One scan yields events (PresenceState.update mints their ids).
Detect ==
    /\ pc = "loop"
    /\ \E new \in SUBSET (Events \ minted) \ {{}} :
        /\ events' = new
        /\ minted' = minted \cup new
    /\ pc' = "enqueue"
    /\ UNCHANGED <<disk, world, run, crashes>>

ClockReading(now) ==
    MonotonicClock => \A e \in Queued(table) : table[e].created <= now

\* Faulty variant: only the first event of a scan is enqueued.
EnqueueFirstOnly ==
    /\ pc = "enqueue"
    /\ \E e \in events, now \in Times :
        /\ ClockReading(now)
        /\ table' = Enqueue(table, e, now)
        /\ events' = {}
        /\ pc' = "fetch"
    /\ UNCHANGED <<world, run, minted, crashes>>

\* queue.enqueue(payload), one transaction per event; after the last one the
\* batch is delivered at once (attempt_immediate_delivery).
EnqueueEvent ==
    /\ pc = "enqueue"
    /\ \E e \in events, now \in Times :
        /\ ClockReading(now)
        /\ table' = Enqueue(table, e, now)
        /\ events' = events \ {e}
        /\ pc' = IF events' = {} THEN "fetch" ELSE "enqueue"
    /\ UNCHANGED <<world, run, minted, crashes>>

\* QUEUE_RETRY_INTERVAL has passed since the last delivery attempt.
RetryDue ==
    /\ pc = "loop"
    /\ pc' = "fetch"
    /\ UNCHANGED <<disk, world, run, events, minted, crashes>>

\* The shutdown flag of ShutdownController is read at the top of the loop only.
Shutdown ==
    /\ pc = "loop"
    /\ pc' = "down"
    /\ UNCHANGED <<disk, world, run, events, minted, crashes>>
-----------------------------------------------------------------------------
(* process_pending_deliveries *)

FetchBatch ==
    /\ pc = "fetch"
    /\ batch' = FetchPending(table, BatchSize)
    /\ pc' = "next"
    /\ UNCHANGED <<disk, world, events, cur, payload, ok, minted, crashes>>

Oldest(e) == e \in batch /\ \A f \in batch \ {e} : Older(table, e, f)

\* edge_send_at is refreshed in memory, then on disk.
BeginEvent ==
    /\ pc = "next"
    /\ \E e \in batch :
        /\ Oldest(e)
        /\ cur' = e
        /\ batch' = batch \ {e}
        /\ payload' = Bump(table[e].stamp)
        /\ table' = UpdatePayload(table, e, payload')
    /\ pc' = "send"
    /\ UNCHANGED <<world, events, ok, minted, crashes>>

EndBatch ==
    /\ pc = "next"
    /\ batch = {}
    /\ pc' = "loop"
    /\ UNCHANGED <<disk, world, run, events, minted, crashes>>

\* The cloud keeps the first edition it accepts.
Stored(e, edition) ==
    IF cloud[e] = 0 THEN [cloud EXCEPT ![e] = edition] ELSE cloud

\* send_payload returns: 201 with stored or already_stored is the only success.
SendReturns(success) ==
    /\ pc = "send"
    /\ ok' = success
    /\ pc' = "attempt"
    /\ UNCHANGED <<disk, events, batch, cur, payload, minted, crashes>>

SendAccepted ==
    /\ SendReturns(TRUE)
    /\ cur \notin Poison
    /\ cloud' = Stored(cur, payload)
    /\ UNCHANGED inflight

\* The cloud stored the event; the reply is lost, late or unusable.
SendReplyLost ==
    /\ SendReturns(FALSE)
    /\ cur \notin Poison
    /\ cloud' = Stored(cur, payload)
    /\ UNCHANGED inflight

\* No connection, or the cloud answers with an error.
SendFailed ==
    /\ SendReturns(FALSE)
    /\ UNCHANGED world

\* The request timed out on its way.
SendDelayed ==
    /\ SendReturns(FALSE)
    /\ inflight' = inflight \cup {<<cur, payload>>}
    /\ UNCHANGED cloud

LateArrival ==
    /\ \E request \in inflight :
        /\ inflight' = inflight \ {request}
        /\ cloud' = IF request[1] \in Poison THEN cloud
                                             ELSE Stored(request[1], request[2])
    /\ UNCHANGED <<disk, run, pc, events, minted, crashes>>

\* Faulty variants: the result of the send is not looked at; only failed
\* attempts are counted; a failure ends the pass before it is recorded.
RecordAlwaysDelivered ==
    /\ pc = "attempt"
    /\ table' = MarkAttempt(table, cur)
    /\ pc' = "deliver"
    /\ UNCHANGED <<world, run, events, minted, crashes>>

RecordFailuresOnly ==
    /\ pc = "attempt"
    /\ table' = IF ok THEN table ELSE MarkAttempt(table, cur)
    /\ pc' = IF ok THEN "deliver" ELSE "next"
    /\ UNCHANGED <<world, run, events, minted, crashes>>

RecordAttempt ==
    /\ pc = "attempt"
    /\ table' = MarkAttempt(table, cur)
    /\ pc' = IF ok THEN "deliver" ELSE "next"
    /\ UNCHANGED <<world, run, events, minted, crashes>>

RecordDelivery ==
    /\ pc = "deliver"
    /\ table' = MarkDelivered(table, cur)
    /\ pc' = "next"
    /\ UNCHANGED <<world, run, events, minted, crashes>>
-----------------------------------------------------------------------------
\* The process dies (kill, power, an exception SQLite raises): what is on disk
\* and what is on its way survives.
Crash ==
    /\ pc # "down"
    /\ crashes < MaxCrashes
    /\ crashes' = crashes + 1
    /\ pc' = "down"
    /\ events' = {}
    /\ batch' = {}
    /\ cur' = NoEvent
    /\ payload' = 0
    /\ ok' = FALSE
    /\ UNCHANGED <<disk, world, minted>>

Send == SendAccepted \/ SendReplyLost \/ SendFailed \/ SendDelayed

\* The steps the agent takes by itself.
AgentStep ==
    \/ Start \/ EnqueueEvent \/ RetryDue
    \/ FetchBatch \/ BeginEvent \/ EndBatch
    \/ Send \/ RecordAttempt \/ RecordDelivery

Next == AgentStep \/ Detect \/ LateArrival \/ Shutdown \/ Crash

Spec == Init /\ [][Next]_vars

\* The agent's thread keeps running, systemd starts it again after a crash and an
\* operator after a shutdown; an event that is sent over and over is accepted in
\* the end, unless it is one the cloud refuses.
Fairness ==
    /\ WF_vars(AgentStep)
    /\ \A e \in Events : SF_vars(SendAccepted /\ cur = e)

FairSpec == Spec /\ Fairness
-----------------------------------------------------------------------------
(* Properties *)

PCs == {"down", "loop", "enqueue", "fetch", "next", "send", "attempt", "deliver"}

\* Type invariant.
TypeOK ==
    /\ table \in [Events -> Row]
    /\ cloud \in [Events -> 0 .. AttemptCap]
    /\ inflight \subseteq Events \X (1 .. AttemptCap)
    /\ pc \in PCs
    /\ events \subseteq Events
    /\ batch \subseteq Events
    /\ cur \in Events \cup {NoEvent}
    /\ payload \in 0 .. AttemptCap
    /\ ok \in BOOLEAN
    /\ minted \subseteq Events
    /\ crashes \in 0 .. MaxCrashes

\* A row is DELIVERED only if the cloud holds the event, whatever was lost,
\* late, repeated or cut short by a crash before.
DeliveredIsStored == \A e \in Delivered(table) : cloud[e] # 0

\* Write-ahead: an edition of an event that the cloud holds, or may yet
\* receive, was on disk before it left: a restart never sends an older one.
WriteAhead ==
    /\ \A e \in Events : cloud[e] <= table[e].stamp
    /\ \A request \in inflight : request[2] <= table[request[1]].stamp

\* The row whose attempt is under way.
InProgress(e) == e = cur /\ pc \in {"send", "attempt"}

\* attempt_count counts every send but those a crash cut off before
\* mark_attempt, and no send twice.
AttemptAccounting ==
    \A e \in Events :
        /\ table[e].attempts <= table[e].stamp
        /\ table[e].stamp <= table[e].attempts + crashes + (IF InProgress(e) THEN 1 ELSE 0)

\* A detected event is in memory until it is on disk, and on disk for ever: only
\* a crash can lose it, and only if it was not on disk yet.
LostOnlyByCrash ==
    [][\A e \in events \cup Queued(table) :
          \/ e \in (events \cup Queued(table))'
          \/ crashes' > crashes /\ e \notin Queued(table)]_vars

\* The agent never sends an event it has marked as delivered.
NoResendAfterAck ==
    [][pc = "send" /\ pc' = "attempt" => cur \in Pending(table)]_vars

\* With a clock that never steps back, an event is overtaken by a younger one
\* only if it was tried before.
OvertakenOnlyAfterAttempt ==
    MonotonicClock =>
        \A e \in Pending(table), f \in Delivered(table) :
            Older(table, e, f) => table[e].attempts > 0

\* Store and forward, the agent's promise (StoreAndForward).
SF == INSTANCE StoreAndForward WITH
        accepted <- Queued(table),
        stored   <- {e \in Events : cloud[e] # 0},
        acked    <- Delivered(table)

Promise == SF!Spec

\* Every queued event the cloud is willing to store is delivered in the end,
\* as long as the refused ones do not fill a batch.
EventuallyDelivered ==
    Cardinality(Poison) < BatchSize =>
        \A e \in Events \ Poison : e \in Queued(table) ~> e \in Delivered(table)
-----------------------------------------------------------------------------
(* What README.md says of the queue, and the code does not keep. *)

\* "Queued events are delivered oldest first in bounded batches."
DeliveredOldestFirst ==
    \A e \in Pending(table), f \in Delivered(table) : ~Older(table, e, f)

\* "If delivery fails, the event remains queued as PENDING and is retried":
\* at the least, every queued event is tried at some time.
EveryEventTried ==
    \A e \in Events : e \in Queued(table) ~> table[e].attempts > 0
=============================================================================
