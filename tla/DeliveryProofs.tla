--------------------------- MODULE DeliveryProofs ---------------------------
(***************************************************************************)
(* Theorems about Delivery, for every set of events, batch size, clock,    *)
(* number of crashes and set of refused events.                            *)
(*                                                                         *)
(* None of the properties is inductive by itself.  They rest on what the   *)
(* agent holds in memory between two transactions (Hand): the rows of the  *)
(* batch are still PENDING, the row in hand is none of the others, its     *)
(* payload is the edition on disk, and a success seen by the agent means   *)
(* that the cloud holds the event.                                         *)
(***************************************************************************)
EXTENDS Delivery, FiniteSetTheorems, TLAPS

InHand == pc \in {"send", "attempt", "deliver"}

\* What the agent's memory says about the disk and the cloud.
Hand ==
    /\ pc # "enqueue" => events = {}
    /\ pc \in {"next", "send", "attempt", "deliver"} => batch \subseteq Pending(table)
    /\ InHand =>
        /\ cur \in Pending(table)
        /\ cur \notin batch
        /\ payload = table[cur].stamp
        /\ payload # 0
    /\ pc = "deliver" \/ (pc = "attempt" /\ ok) => cloud[cur] # 0

\* An edition exists only of a queued event, and the attempt under way is not
\* counted yet (or the counters are at their bound).
Counted ==
    /\ \A e \in Events : table[e].status = "NONE" => table[e] = NoRow
    /\ pc \in {"send", "attempt"} =>
        table[cur].attempts < table[cur].stamp \/ table[cur].stamp = AttemptCap

IInv ==
    /\ TypeOK
    /\ Hand
    /\ Counted
    /\ DeliveredIsStored
    /\ WriteAhead
    /\ AttemptAccounting
-----------------------------------------------------------------------------
(* The operations of the queue. *)

\* The next key is a number: the table has finitely many rows.
LEMMA NextIdIsNat == ASSUME NEW t PROVE NextId(t) \in Nat
  <1>1. IsFiniteSet(Queued(t))
    BY QueueAssumption, FS_Subset DEF Queued
  <1> QED BY <1>1, FS_CardinalityType DEF NextId

\* Bump counts up to its bound.
LEMMA BumpCounts ==
    ASSUME NEW n \in 0 .. AttemptCap
    PROVE  /\ Bump(n) \in 1 .. AttemptCap
           /\ Bump(n) = n + 1 \/ (n = AttemptCap /\ Bump(n) = n)
  BY QueueAssumption DEF Bump

\* Each transaction keeps the table a table and touches one row.
LEMMA EnqueueRow ==
    ASSUME NEW t \in [Events -> Row], NEW e \in Events, NEW now \in Times
    PROVE  /\ Enqueue(t, e, now) \in [Events -> Row]
           /\ \A f \in Events : f # e => Enqueue(t, e, now)[f] = t[f]
           /\ Enqueue(t, e, now)[e].status # "NONE"
           /\ t[e].status # "NONE" => Enqueue(t, e, now) = t
           /\ t[e].status = "NONE" =>
                /\ Enqueue(t, e, now)[e].status = "PENDING"
                /\ Enqueue(t, e, now)[e].attempts = 0
                /\ Enqueue(t, e, now)[e].stamp = 0
  <1> DEFINE new == [status |-> "PENDING", id |-> NextId(t), created |-> now,
                     attempts |-> 0, stamp |-> 0]
  <1>1. new \in Row /\ new.status = "PENDING" /\ new.attempts = 0 /\ new.stamp = 0
    BY NextIdIsNat, QueueAssumption DEF Row
  <1>2. Enqueue(t, e, now) = IF t[e].status = "NONE" THEN [t EXCEPT ![e] = new] ELSE t
    BY DEF Enqueue
  <1> HIDE DEF new
  <1>3. CASE t[e].status = "NONE"
    BY <1>1, <1>2, <1>3
  <1>4. CASE t[e].status # "NONE"
    BY <1>1, <1>2, <1>4
  <1> QED BY <1>3, <1>4

LEMMA UpdatePayloadRow ==
    ASSUME NEW t \in [Events -> Row], NEW e \in Events, NEW n \in 0 .. AttemptCap
    PROVE  /\ UpdatePayload(t, e, n) \in [Events -> Row]
           /\ \A f \in Events : f # e => UpdatePayload(t, e, n)[f] = t[f]
           /\ UpdatePayload(t, e, n)[e].status = t[e].status
           /\ UpdatePayload(t, e, n)[e].attempts = t[e].attempts
           /\ UpdatePayload(t, e, n)[e].stamp = n
  BY DEF UpdatePayload, Row

LEMMA MarkAttemptRow ==
    ASSUME NEW t \in [Events -> Row], NEW e \in Events
    PROVE  /\ MarkAttempt(t, e) \in [Events -> Row]
           /\ \A f \in Events : f # e => MarkAttempt(t, e)[f] = t[f]
           /\ MarkAttempt(t, e)[e].status = t[e].status
           /\ MarkAttempt(t, e)[e].stamp = t[e].stamp
           /\ MarkAttempt(t, e)[e].attempts = Bump(t[e].attempts)
  <1>1. Bump(t[e].attempts) \in 0 .. AttemptCap
    BY BumpCounts DEF Row
  <1> QED BY <1>1 DEF MarkAttempt, Row

LEMMA MarkDeliveredRow ==
    ASSUME NEW t \in [Events -> Row], NEW e \in Events
    PROVE  /\ MarkDelivered(t, e) \in [Events -> Row]
           /\ \A f \in Events : f # e => MarkDelivered(t, e)[f] = t[f]
           /\ MarkDelivered(t, e)[e].status = "DELIVERED"
           /\ MarkDelivered(t, e)[e].stamp = t[e].stamp
           /\ MarkDelivered(t, e)[e].attempts = t[e].attempts
  BY DEF MarkDelivered, Row
-----------------------------------------------------------------------------
LEMMA InitIInv == Init => IInv
  <1> SUFFICES ASSUME Init PROVE IInv
    OBVIOUS
  <1>1. TypeOK
    <2>1. NoRow \in Row
      BY QueueAssumption DEF NoRow, Row
    <2>2. Init => ok \in BOOLEAN
      BY Zenon DEF Init
    <2> QED BY <2>1, <2>2, QueueAssumption, DeliveryAssumption DEF Init, EmptyTable, TypeOK, PCs
  <1> USE DEF Init, EmptyTable, NoRow
  <1>2. Hand /\ Counted
    BY DEF Hand, Counted, InHand
  <1>3. DeliveredIsStored /\ WriteAhead
    BY DEF DeliveredIsStored, WriteAhead, Delivered
  <1>4. AttemptAccounting
    BY DEF AttemptAccounting, InProgress
  <1> QED BY <1>1, <1>2, <1>3, <1>4 DEF IInv

(* One lemma per conjunct of the invariant; in each, one step per action. *)

LEMMA TypeStep == ASSUME IInv, Next PROVE TypeOK'
  <1> USE DEF IInv, TypeOK, PCs, disk, world, run
  <1> USE QueueAssumption, DeliveryAssumption
  <1>1. CASE Start
    BY <1>1 DEF Start
  <1>2. CASE Detect
    BY <1>2 DEF Detect
  <1>3. CASE EnqueueEvent
    <2> PICK e \in events, now \in Times : table' = Enqueue(table, e, now)
      BY <1>3 DEF EnqueueEvent
    <2>1. table' \in [Events -> Row]
      BY EnqueueRow
    <2> QED BY <1>3, <2>1 DEF EnqueueEvent
  <1>4. CASE RetryDue
    BY <1>4 DEF RetryDue
  <1>5. CASE FetchBatch
    BY <1>5 DEF FetchBatch, FetchPending, Pending
  <1>6. CASE BeginEvent
    <2> PICK e \in batch : /\ cur' = e
                           /\ payload' = Bump(table[e].stamp)
                           /\ table' = UpdatePayload(table, e, payload')
      BY <1>6 DEF BeginEvent
    <2>1. payload' \in 0 .. AttemptCap
      BY BumpCounts DEF Row
    <2>2. table' \in [Events -> Row]
      BY <2>1, UpdatePayloadRow
    <2> QED BY <1>6, <2>1, <2>2 DEF BeginEvent
  <1>7. CASE EndBatch
    BY <1>7 DEF EndBatch
  <1>8. CASE Send
    <2>1. cur \in Events /\ payload \in 1 .. AttemptCap
      BY <1>8 DEF Send, SendAccepted, SendReplyLost, SendFailed, SendDelayed,
                  SendReturns, Hand, InHand, Pending
    <2>2. Stored(cur, payload) \in [Events -> 0 .. AttemptCap]
      BY <2>1 DEF Stored
    <2>3. CASE SendAccepted \/ SendReplyLost \/ SendFailed
      <3>1. ok' \in BOOLEAN
        BY <2>3, Zenon DEF SendAccepted, SendReplyLost, SendFailed, SendReturns
      <3> QED BY <2>2, <2>3, <3>1 DEF SendAccepted, SendReplyLost, SendFailed, SendReturns
    <2>4. CASE SendDelayed
      <3>1. ok' \in BOOLEAN
        BY <2>4, Zenon DEF SendDelayed, SendReturns
      <3> QED BY <2>1, <2>4, <3>1 DEF SendDelayed, SendReturns
    <2> QED BY <1>8, <2>3, <2>4 DEF Send
  <1>9. CASE LateArrival
    <2> PICK request \in inflight :
          /\ inflight' = inflight \ {request}
          /\ cloud' = IF request[1] \in Poison THEN cloud
                                               ELSE Stored(request[1], request[2])
      BY <1>9 DEF LateArrival
    <2>1. request[1] \in Events /\ request[2] \in 1 .. AttemptCap
      OBVIOUS
    <2>2. cloud' \in [Events -> 0 .. AttemptCap]
      BY <2>1 DEF Stored
    <2> QED BY <1>9, <2>2 DEF LateArrival
  <1>10. CASE RecordAttempt
    <2>1. cur \in Events
      BY <1>10 DEF RecordAttempt, Hand, InHand, Pending
    <2> QED BY <1>10, <2>1, MarkAttemptRow DEF RecordAttempt
  <1>11. CASE RecordDelivery
    <2>1. cur \in Events
      BY <1>11 DEF RecordDelivery, Hand, InHand, Pending
    <2> QED BY <1>11, <2>1, MarkDeliveredRow DEF RecordDelivery
  <1>12. CASE Shutdown
    BY <1>12 DEF Shutdown
  <1>13. CASE Crash
    <2>1. ok' \in BOOLEAN
      BY <1>13, Zenon DEF Crash
    <2>2. crashes' \in 0 .. MaxCrashes
      BY <1>13 DEF Crash
    <2> QED BY <1>13, <2>1, <2>2 DEF Crash
  <1> HIDE DEF IInv, TypeOK
  <1> QED BY <1>1, <1>2, <1>3, <1>4, <1>5, <1>6, <1>7, <1>8, <1>9, <1>10,
             <1>11, <1>12, <1>13 DEF Next, AgentStep

\* Steps that leave the disk, the cloud and the record of crashes alone.
Elsewhere == Start \/ Detect \/ RetryDue \/ FetchBatch \/ EndBatch \/ Shutdown

LEMMA NextCases ==
    Next <=> \/ Elsewhere \/ EnqueueEvent \/ BeginEvent \/ Send \/ LateArrival
             \/ RecordAttempt \/ RecordDelivery \/ Crash
  BY Zenon DEF Next, AgentStep, Elsewhere

\* The facts about the row in hand that every later step uses.
LEMMA CurFacts ==
    ASSUME IInv, InHand
    PROVE  /\ cur \in Events /\ table[cur].status = "PENDING"
           /\ cur \notin batch
           /\ payload = table[cur].stamp /\ payload \in 1 .. AttemptCap
  BY QueueAssumption DEF IInv, Hand, Pending, TypeOK

LEMMA HandStep == ASSUME IInv, Next PROVE Hand'
  <1> USE DEF IInv, TypeOK, Hand, InHand, disk, world, run
  <1>1. CASE Elsewhere
    <2>1. CASE FetchBatch
      BY <2>1 DEF FetchBatch, FetchPending, Pending
    <2>2. CASE ~FetchBatch
      BY <1>1, <2>2 DEF Elsewhere, Start, Detect, RetryDue, EndBatch, Shutdown, Pending
    <2> QED BY <2>1, <2>2
  <1>2. CASE EnqueueEvent
    BY <1>2 DEF EnqueueEvent
  <1>3. CASE BeginEvent
    <2> PICK e \in batch : /\ cur' = e
                           /\ batch' = batch \ {e}
                           /\ payload' = Bump(table[e].stamp)
                           /\ table' = UpdatePayload(table, e, payload')
      BY <1>3 DEF BeginEvent
    <2>1. e \in Events /\ batch \subseteq Pending(table) /\ payload' \in 1 .. AttemptCap
      BY <1>3, BumpCounts DEF BeginEvent, Row
    <2>2. payload' \in 0 .. AttemptCap
      BY <2>1
    <2>3. table'[e].stamp = payload' /\ \A f \in Events : table'[f].status = table[f].status
      <3> DEFINE t == UpdatePayload(table, e, payload')
      <3>1. /\ \A f \in Events : f # e => t[f] = table[f]
            /\ t[e].status = table[e].status
            /\ t[e].stamp = payload'
        BY <2>1, <2>2, UpdatePayloadRow
      <3> QED BY <3>1
    <2>4. Pending(table)' = Pending(table)
      BY <2>3 DEF Pending
    <2> QED BY <1>3, <2>1, <2>3, <2>4 DEF BeginEvent
  <1>4. CASE Send
    <2>1. /\ pc = "send" /\ pc' = "attempt"
          /\ UNCHANGED <<table, events, batch, cur, payload>>
      BY <1>4 DEF Send, SendAccepted, SendReplyLost, SendFailed, SendDelayed, SendReturns
    <2>2. ok' => cloud'[cur] # 0
      <3>1. CASE SendAccepted
        BY <3>1, <2>1, CurFacts DEF SendAccepted, Stored
      <3>2. CASE SendReplyLost \/ SendFailed \/ SendDelayed
        BY <3>2 DEF SendReplyLost, SendFailed, SendDelayed, SendReturns
      <3> QED BY <3>1, <3>2, <1>4 DEF Send
    <2> QED BY <2>1, <2>2 DEF Pending
  <1>5. CASE LateArrival
    <2>1. \A e \in Events : cloud[e] # 0 => cloud'[e] # 0
      BY <1>5 DEF LateArrival, Stored
    <2> QED BY <1>5, <2>1, CurFacts DEF LateArrival, Pending
  <1>6. CASE RecordAttempt
    <2>1. cur \in Events /\ InHand
      BY <1>6, CurFacts DEF RecordAttempt
    <2>2. \A f \in Events : /\ table'[f].status = table[f].status
                            /\ table'[f].stamp = table[f].stamp
      BY <1>6, <2>1, MarkAttemptRow DEF RecordAttempt
    <2>3. Pending(table)' = Pending(table)
      BY <2>2 DEF Pending
    <2> QED BY <1>6, <2>1, <2>2, <2>3 DEF RecordAttempt
  <1>7. CASE RecordDelivery
    <2>1. cur \in Events /\ cur \notin batch
      BY <1>7, CurFacts DEF RecordDelivery
    <2>2. \A f \in Events \ {cur} : table'[f] = table[f]
      BY <1>7, <2>1, MarkDeliveredRow DEF RecordDelivery
    <2>3. batch \subseteq Pending(table)'
      BY <1>7, <2>1, <2>2 DEF RecordDelivery, Pending
    <2> QED BY <1>7, <2>3 DEF RecordDelivery
  <1>8. CASE Crash
    BY <1>8 DEF Crash
  <1> HIDE DEF IInv, Hand
  <1> QED BY <1>1, <1>2, <1>3, <1>4, <1>5, <1>6, <1>7, <1>8, NextCases

LEMMA CountedStep == ASSUME IInv, Next PROVE Counted'
  <1> USE DEF IInv, TypeOK, Counted, disk, world, run
  <1>1. CASE Elsewhere
    BY <1>1 DEF Elsewhere, Start, Detect, RetryDue, FetchBatch, EndBatch, Shutdown
  <1>2. CASE EnqueueEvent
    <2> PICK e \in events, now \in Times : table' = Enqueue(table, e, now)
      BY <1>2 DEF EnqueueEvent
    <2>1. \A f \in Events : table'[f].status = "NONE" => table'[f] = table[f]
      BY EnqueueRow
    <2> QED BY <1>2, <2>1 DEF EnqueueEvent
  <1>3. CASE BeginEvent
    <2> PICK e \in batch : /\ cur' = e
                           /\ payload' = Bump(table[e].stamp)
                           /\ table' = UpdatePayload(table, e, payload')
      BY <1>3 DEF BeginEvent
    <2>1. e \in Events /\ table[e].status = "PENDING"
      BY <1>3 DEF BeginEvent, Hand, Pending
    <2>2. /\ payload' \in 0 .. AttemptCap
          /\ payload' = table[e].stamp + 1 \/ payload' = AttemptCap
      BY <2>1, BumpCounts DEF Row
    <2>3. /\ \A f \in Events : f # e => table'[f] = table[f]
          /\ table'[e].status = "PENDING" /\ table'[e].stamp = payload'
          /\ table'[e].attempts = table[e].attempts
      BY <2>1, <2>2, UpdatePayloadRow
    <2>4. table[e].attempts <= table[e].stamp /\ table[e] \in Row
      BY <2>1 DEF AttemptAccounting
    <2>5. table'[e].attempts < table'[e].stamp \/ table'[e].stamp = AttemptCap
      BY <2>2, <2>3, <2>4, QueueAssumption DEF Row
    <2>6. \A f \in Events : table'[f].status = "NONE" => table'[f] = NoRow
      BY <2>3
    <2> QED BY <2>5, <2>6
  <1>4. CASE Send
    BY <1>4 DEF Send, SendAccepted, SendReplyLost, SendFailed, SendDelayed, SendReturns
  <1>5. CASE LateArrival
    BY <1>5 DEF LateArrival
  <1>6. CASE RecordAttempt
    <2>1. cur \in Events /\ table[cur].status = "PENDING"
      BY <1>6, CurFacts DEF RecordAttempt, InHand
    <2>2. /\ \A f \in Events : f # cur => table'[f] = table[f]
          /\ table'[cur].status = "PENDING"
      BY <1>6, <2>1, MarkAttemptRow DEF RecordAttempt
    <2> QED BY <1>6, <2>1, <2>2 DEF RecordAttempt
  <1>7. CASE RecordDelivery
    <2>1. cur \in Events
      BY <1>7, CurFacts DEF RecordDelivery, InHand
    <2>2. /\ \A f \in Events : f # cur => table'[f] = table[f]
          /\ table'[cur].status = "DELIVERED"
      BY <1>7, <2>1, MarkDeliveredRow DEF RecordDelivery
    <2> QED BY <1>7, <2>1, <2>2 DEF RecordDelivery
  <1>8. CASE Crash
    BY <1>8 DEF Crash
  <1> HIDE DEF IInv, Counted
  <1> QED BY <1>1, <1>2, <1>3, <1>4, <1>5, <1>6, <1>7, <1>8, NextCases

LEMMA DeliveredIsStoredStep == ASSUME IInv, Next PROVE DeliveredIsStored'
  <1> USE DEF IInv, TypeOK, DeliveredIsStored, Delivered, disk, world, run
  <1>1. CASE Elsewhere
    BY <1>1 DEF Elsewhere, Start, Detect, RetryDue, FetchBatch, EndBatch, Shutdown
  <1>2. CASE EnqueueEvent
    <2> PICK e \in events, now \in Times : table' = Enqueue(table, e, now)
      BY <1>2 DEF EnqueueEvent
    <2>1. \A f \in Events : table'[f].status = "DELIVERED" => table[f].status = "DELIVERED"
      BY EnqueueRow
    <2> QED BY <1>2, <2>1 DEF EnqueueEvent
  <1>3. CASE BeginEvent
    <2> PICK e \in batch : /\ payload' = Bump(table[e].stamp)
                           /\ table' = UpdatePayload(table, e, payload')
      BY <1>3 DEF BeginEvent
    <2>1. e \in Events /\ payload' \in 0 .. AttemptCap
      BY BumpCounts DEF Row
    <2>2. \A f \in Events : f # e => table'[f] = table[f]
      BY <2>1, UpdatePayloadRow
    <2>3. table'[e].status = table[e].status
      BY <2>1, UpdatePayloadRow
    <2> QED BY <1>3, <2>2, <2>3 DEF BeginEvent
  <1>4. CASE Send
    <2>1. table' = table /\ \A e \in Events : cloud[e] # 0 => cloud'[e] # 0
      BY <1>4, CurFacts
         DEF Send, SendAccepted, SendReplyLost, SendFailed, SendDelayed, SendReturns,
             Stored, InHand
    <2> QED BY <2>1
  <1>5. CASE LateArrival
    <2>1. table' = table /\ \A e \in Events : cloud[e] # 0 => cloud'[e] # 0
      BY <1>5 DEF LateArrival, Stored
    <2> QED BY <2>1
  <1>6. CASE RecordAttempt
    <2>1. cur \in Events
      BY <1>6, CurFacts DEF RecordAttempt, InHand
    <2>2. /\ \A f \in Events : f # cur => table'[f] = table[f]
          /\ table'[cur].status = table[cur].status
      BY <1>6, <2>1, MarkAttemptRow DEF RecordAttempt
    <2> QED BY <1>6, <2>1, <2>2 DEF RecordAttempt
  <1>7. CASE RecordDelivery
    <2>1. cur \in Events /\ cloud[cur] # 0
      BY <1>7, CurFacts DEF RecordDelivery, InHand, Hand
    <2>2. \A f \in Events : f # cur => table'[f] = table[f]
      BY <1>7, <2>1, MarkDeliveredRow DEF RecordDelivery
    <2> QED BY <1>7, <2>1, <2>2 DEF RecordDelivery
  <1>8. CASE Crash
    BY <1>8 DEF Crash
  <1> HIDE DEF IInv, DeliveredIsStored
  <1> QED BY <1>1, <1>2, <1>3, <1>4, <1>5, <1>6, <1>7, <1>8, NextCases

LEMMA WriteAheadStep == ASSUME IInv, Next PROVE WriteAhead'
  <1> USE DEF IInv, TypeOK, WriteAhead, disk, world, run
  <1>1. CASE Elsewhere
    BY <1>1 DEF Elsewhere, Start, Detect, RetryDue, FetchBatch, EndBatch, Shutdown
  <1>2. CASE EnqueueEvent
    <2> PICK e \in events, now \in Times : table' = Enqueue(table, e, now)
      BY <1>2 DEF EnqueueEvent
    <2>1. \A f \in Events : table'[f].stamp = table[f].stamp
      <3>1. /\ \A f \in Events : f # e => table'[f] = table[f]
            /\ table[e].status # "NONE" => table' = table
            /\ table[e].status = "NONE" => table'[e].stamp = 0
        BY EnqueueRow
      <3>2. table[e].status = "NONE" => table[e].stamp = 0
        BY DEF Counted, NoRow
      <3> QED BY <3>1, <3>2
    <2> QED BY <1>2, <2>1 DEF EnqueueEvent
  <1>3. CASE BeginEvent
    <2> PICK e \in batch : /\ payload' = Bump(table[e].stamp)
                           /\ table' = UpdatePayload(table, e, payload')
      BY <1>3 DEF BeginEvent
    <2>1. e \in Events /\ payload' \in 0 .. AttemptCap /\ table[e].stamp <= payload'
      BY BumpCounts DEF Row
    <2>2. \A f \in Events : f # e => table'[f] = table[f]
      BY <2>1, UpdatePayloadRow
    <2>3. table'[e].stamp = payload'
      BY <2>1, UpdatePayloadRow
    <2>4. \A f \in Events : /\ table[f].stamp \in Nat /\ table'[f].stamp \in Nat
                            /\ table[f].stamp <= table'[f].stamp
      BY <2>1, <2>2, <2>3, QueueAssumption DEF Row
    <2>5. cloud' = cloud /\ inflight' = inflight
      BY <1>3 DEF BeginEvent
    <2>6. \A f \in Events : cloud[f] <= table'[f].stamp
      BY <2>4, QueueAssumption
    <2>7. \A request \in inflight : request[2] <= table'[request[1]].stamp
      BY <2>4, QueueAssumption
    <2> QED BY <2>5, <2>6, <2>7
  <1>4. CASE Send
    <2>1. table' = table /\ cur \in Events /\ payload = table[cur].stamp /\ payload \in Nat
      BY <1>4, CurFacts, QueueAssumption
         DEF Send, SendAccepted, SendReplyLost, SendFailed, SendDelayed, SendReturns, InHand
    <2>2. \A e \in Events : cloud'[e] = cloud[e] \/ (e = cur /\ cloud'[e] = payload)
      BY <1>4, <2>1 DEF Send, SendAccepted, SendReplyLost, SendFailed, SendDelayed, Stored
    <2>3. inflight' \subseteq inflight \cup {<<cur, payload>>}
      BY <1>4 DEF Send, SendAccepted, SendReplyLost, SendFailed, SendDelayed
    <2> QED BY <2>1, <2>2, <2>3
  <1>5. CASE LateArrival
    <2> PICK request \in inflight :
          /\ inflight' = inflight \ {request}
          /\ cloud' = IF request[1] \in Poison THEN cloud
                                               ELSE Stored(request[1], request[2])
      BY <1>5 DEF LateArrival
    <2>1. request[1] \in Events /\ table' = table
      BY <1>5 DEF LateArrival
    <2>2. \A e \in Events : \/ cloud'[e] = cloud[e]
                            \/ e = request[1] /\ cloud'[e] = request[2]
      BY <2>1 DEF Stored
    <2> QED BY <2>1, <2>2
  <1>6. CASE RecordAttempt
    <2>1. cur \in Events
      BY <1>6, CurFacts DEF RecordAttempt, InHand
    <2>2. /\ \A f \in Events : f # cur => table'[f] = table[f]
          /\ table'[cur].stamp = table[cur].stamp
      BY <1>6, <2>1, MarkAttemptRow DEF RecordAttempt
    <2>3. \A f \in Events : table'[f].stamp = table[f].stamp
      BY <2>2
    <2> QED BY <1>6, <2>3 DEF RecordAttempt
  <1>7. CASE RecordDelivery
    <2>1. cur \in Events
      BY <1>7, CurFacts DEF RecordDelivery, InHand
    <2>2. /\ \A f \in Events : f # cur => table'[f] = table[f]
          /\ table'[cur].stamp = table[cur].stamp
      BY <1>7, <2>1, MarkDeliveredRow DEF RecordDelivery
    <2>3. \A f \in Events : table'[f].stamp = table[f].stamp
      BY <2>2
    <2> QED BY <1>7, <2>3 DEF RecordDelivery
  <1>8. CASE Crash
    BY <1>8 DEF Crash
  <1> HIDE DEF IInv, WriteAhead
  <1> QED BY <1>1, <1>2, <1>3, <1>4, <1>5, <1>6, <1>7, <1>8, NextCases

\* Each event in memory or on disk stays there, but for those a crash takes.
KeepsDetected ==
    \A e \in events \cup Queued(table) :
        \/ e \in (events \cup Queued(table))'
        \/ crashes' > crashes /\ e \notin Queued(table)

LEMMA KeepsDetectedStep == ASSUME IInv, Next PROVE KeepsDetected
  <1> USE DEF IInv, TypeOK, KeepsDetected, disk, world, run
  <1>1. CASE Elsewhere
    BY <1>1 DEF Elsewhere, Start, Detect, RetryDue, FetchBatch, EndBatch, Shutdown, Hand, Queued
  <1>2. CASE EnqueueEvent
    <2> PICK e \in events, now \in Times : /\ table' = Enqueue(table, e, now)
                                           /\ events' = events \ {e}
      BY <1>2 DEF EnqueueEvent
    <2>1. Queued(table)' = Queued(table) \cup {e}
      BY EnqueueRow DEF Queued
    <2> QED BY <1>2, <2>1 DEF EnqueueEvent
  <1>3. CASE BeginEvent
    <2> PICK e \in batch : /\ payload' = Bump(table[e].stamp)
                           /\ table' = UpdatePayload(table, e, payload')
      BY <1>3 DEF BeginEvent
    <2>1. e \in Events /\ payload' \in 0 .. AttemptCap
      BY BumpCounts DEF Row
    <2>2. \A f \in Events : f # e => table'[f] = table[f]
      BY <2>1, UpdatePayloadRow
    <2>3. table'[e].status = table[e].status
      BY <2>1, UpdatePayloadRow
    <2>4. Queued(table)' = Queued(table)
      BY <2>2, <2>3 DEF Queued
    <2> QED BY <1>3, <2>4 DEF BeginEvent
  <1>4. CASE Send
    BY <1>4 DEF Send, SendAccepted, SendReplyLost, SendFailed, SendDelayed, SendReturns, Queued
  <1>5. CASE LateArrival
    BY <1>5 DEF LateArrival, Queued
  <1>6. CASE RecordAttempt
    <2>1. cur \in Events
      BY <1>6, CurFacts DEF RecordAttempt, InHand
    <2>2. /\ \A f \in Events : f # cur => table'[f] = table[f]
          /\ table'[cur].status = table[cur].status
      BY <1>6, <2>1, MarkAttemptRow DEF RecordAttempt
    <2>3. Queued(table)' = Queued(table)
      BY <2>1, <2>2 DEF Queued
    <2> QED BY <1>6, <2>3 DEF RecordAttempt
  <1>7. CASE RecordDelivery
    <2>1. cur \in Events /\ table[cur].status = "PENDING"
      BY <1>7, CurFacts DEF RecordDelivery, InHand
    <2>2. /\ \A f \in Events : f # cur => table'[f] = table[f]
          /\ table'[cur].status = "DELIVERED"
      BY <1>7, <2>1, MarkDeliveredRow DEF RecordDelivery
    <2>3. Queued(table)' = Queued(table)
      BY <2>1, <2>2 DEF Queued
    <2> QED BY <1>7, <2>3 DEF RecordDelivery
  <1>8. CASE Crash
    BY <1>8, DeliveryAssumption DEF Crash, Queued
  <1> HIDE DEF IInv, KeepsDetected
  <1> QED BY <1>1, <1>2, <1>3, <1>4, <1>5, <1>6, <1>7, <1>8, NextCases

\* Counting the attempt under way settles its account.
LEMMA CountingOne ==
    ASSUME NEW a \in 0 .. AttemptCap, NEW n \in 0 .. AttemptCap, NEW d \in Nat,
           a <= n, n <= a + d + 1, a < n \/ n = AttemptCap
    PROVE  Bump(a) <= n /\ n <= Bump(a) + d
  BY QueueAssumption DEF Bump

\* Per row: what AttemptAccounting says of e when `busy` tells whether an
\* attempt of e is under way and `deaths` counts the crashes.
Accounted(row, deaths, busy) ==
    /\ row.attempts <= row.stamp
    /\ row.stamp <= row.attempts + deaths + (IF busy THEN 1 ELSE 0)

LEMMA AttemptAccountingStep == ASSUME IInv, Next PROVE AttemptAccounting'
  <1> USE DEF IInv, TypeOK, InProgress, Accounted, disk, world, run
  <1>0. /\ AttemptAccounting = \A e \in Events : Accounted(table[e], crashes, InProgress(e))
        /\ AttemptAccounting' = \A e \in Events : Accounted(table'[e], crashes', InProgress(e)')
        /\ \A e \in Events : table[e] \in Row
        /\ crashes \in Nat
    BY DeliveryAssumption DEF AttemptAccounting
  <1>1. CASE Elsewhere
    BY <1>1 DEF Elsewhere, Start, Detect, RetryDue, FetchBatch, EndBatch, Shutdown,
                AttemptAccounting
  <1>2. CASE EnqueueEvent
    <2> PICK e \in events, now \in Times : table' = Enqueue(table, e, now)
      BY <1>2 DEF EnqueueEvent
    <2>1. /\ \A f \in Events : f # e => table'[f] = table[f]
          /\ table[e].status # "NONE" => table' = table
          /\ table[e].status = "NONE" => table'[e].stamp = 0 /\ table'[e].attempts = 0
      BY EnqueueRow
    <2>2. pc = "enqueue" /\ pc' \in {"fetch", "enqueue"} /\ crashes' = crashes
      BY <1>2 DEF EnqueueEvent
    <2>3. \A f \in Events : Accounted(table[f], crashes, FALSE)
      BY <1>0, <2>2
    <2>4. \A f \in Events : Accounted(table'[f], crashes, FALSE)
      BY <1>0, <2>1, <2>3
    <2> QED BY <1>0, <2>2, <2>4
  <1>3. CASE BeginEvent
    <2> PICK e \in batch : /\ cur' = e
                           /\ payload' = Bump(table[e].stamp)
                           /\ table' = UpdatePayload(table, e, payload')
      BY <1>3 DEF BeginEvent
    <2>1. e \in Events /\ pc = "next" /\ pc' = "send" /\ crashes' = crashes
      BY <1>3 DEF BeginEvent
    <2>2. \A f \in Events : Accounted(table[f], crashes, FALSE)
      BY <1>0, <2>1
    <2>3. payload' \in 0 .. AttemptCap /\ payload' \in {table[e].stamp, table[e].stamp + 1}
      BY <2>1, BumpCounts DEF Row
    <2>4. /\ \A f \in Events : f # e => table'[f] = table[f]
          /\ table'[e].stamp = payload' /\ table'[e].attempts = table[e].attempts
      BY <2>1, <2>3, UpdatePayloadRow
    <2>5. Accounted(table'[e], crashes, TRUE)
      BY <1>0, <2>1, <2>2, <2>3, <2>4, QueueAssumption DEF Row
    <2> QED BY <1>0, <2>1, <2>2, <2>4, <2>5
  <1>4. CASE Send
    BY <1>4 DEF Send, SendAccepted, SendReplyLost, SendFailed, SendDelayed, SendReturns,
                AttemptAccounting
  <1>5. CASE LateArrival
    BY <1>5 DEF LateArrival, AttemptAccounting
  <1>6. CASE RecordAttempt
    <2>1. /\ cur \in Events /\ pc = "attempt" /\ pc' \in {"deliver", "next"}
          /\ crashes' = crashes
      BY <1>6, CurFacts DEF RecordAttempt, InHand
    <2>2. /\ \A f \in Events : f # cur => table'[f] = table[f]
          /\ table'[cur].stamp = table[cur].stamp
          /\ table'[cur].attempts = Bump(table[cur].attempts)
      BY <1>6, <2>1, MarkAttemptRow DEF RecordAttempt
    <2>3. \/ Bump(table[cur].attempts) = table[cur].attempts + 1
          \/ table[cur].attempts = AttemptCap /\ Bump(table[cur].attempts) = AttemptCap
      BY <1>0, <2>1, BumpCounts DEF Row
    <2>4. Accounted(table[cur], crashes, TRUE)
      BY <1>0, <2>1
    <2>5. table[cur].attempts < table[cur].stamp \/ table[cur].stamp = AttemptCap
      BY <2>1 DEF Counted
    <2>6. Accounted(table'[cur], crashes, FALSE)
      <3>1. table[cur].attempts \in 0 .. AttemptCap /\ table[cur].stamp \in 0 .. AttemptCap
        BY <1>0, <2>1 DEF Row
      <3>2. /\ table[cur].attempts <= table[cur].stamp
            /\ table[cur].stamp <= table[cur].attempts + crashes + 1
        BY <2>4
      <3>3. /\ table'[cur].attempts <= table'[cur].stamp
            /\ table'[cur].stamp <= table'[cur].attempts + crashes
        BY <1>0, <2>2, <2>5, <3>1, <3>2, CountingOne
      <3>4. table'[cur].attempts + crashes + 0 = table'[cur].attempts + crashes
        BY <1>0, <2>2, <2>3, <3>1, QueueAssumption
      <3> QED BY <3>3, <3>4
    <2>7. \A f \in Events : f # cur => Accounted(table[f], crashes, FALSE)
      BY <1>0
    <2> QED BY <1>0, <2>1, <2>2, <2>6, <2>7
  <1>7. CASE RecordDelivery
    <2>1. cur \in Events /\ pc = "deliver" /\ pc' = "next" /\ crashes' = crashes
      BY <1>7, CurFacts DEF RecordDelivery, InHand
    <2>2. /\ \A f \in Events : f # cur => table'[f] = table[f]
          /\ table'[cur].stamp = table[cur].stamp
          /\ table'[cur].attempts = table[cur].attempts
      BY <1>7, <2>1, MarkDeliveredRow DEF RecordDelivery
    <2> QED BY <1>0, <2>1, <2>2
  <1>8. CASE Crash
    <2>1. crashes' = crashes + 1 /\ table' = table /\ pc' = "down"
      BY <1>8 DEF Crash
    <2>2. \A f \in Events : Accounted(table[f], crashes + 1, FALSE)
      <3> SUFFICES ASSUME NEW f \in Events PROVE Accounted(table[f], crashes + 1, FALSE)
        OBVIOUS
      <3>1. table[f].attempts \in Nat /\ table[f].stamp \in Nat
        BY <1>0, QueueAssumption DEF Row
      <3>2. /\ table[f].attempts <= table[f].stamp
            /\ table[f].stamp <= table[f].attempts + crashes + (IF InProgress(f) THEN 1 ELSE 0)
        BY DEF AttemptAccounting
      <3> QED BY <1>0, <3>1, <3>2
    <2> QED BY <1>0, <2>1, <2>2
  <1> HIDE DEF IInv
  <1> QED BY <1>1, <1>2, <1>3, <1>4, <1>5, <1>6, <1>7, <1>8, NextCases
-----------------------------------------------------------------------------
LEMMA StepIInv == IInv /\ [Next]_vars => IInv'
  <1> SUFFICES ASSUME IInv, [Next]_vars PROVE IInv'
    OBVIOUS
  <1>1. CASE Next
    BY <1>1, TypeStep, HandStep, CountedStep, DeliveredIsStoredStep, WriteAheadStep,
       AttemptAccountingStep DEF IInv
  <1>2. CASE UNCHANGED vars
    BY <1>2 DEF vars, IInv, TypeOK, Hand, InHand, Counted, DeliveredIsStored, WriteAhead,
                AttemptAccounting, InProgress, Pending, Delivered
  <1> QED BY <1>1, <1>2

\* The inductive invariant holds in every reachable state.
THEOREM Invariance == Spec => []IInv
  BY InitIInv, StepIInv, PTL DEF Spec

\* Every variable keeps its type, bounds included, through every interleaving
\* of sends, late arrivals and crashes.
THEOREM TypeCorrect == Spec => []TypeOK
  <1>1. IInv => TypeOK
    BY DEF IInv
  <1> QED BY <1>1, Invariance, PTL

\* mark_delivered is only ever applied to an event the cloud holds.
THEOREM NoFalseDelivery == Spec => []DeliveredIsStored
  <1>1. IInv => DeliveredIsStored
    BY DEF IInv
  <1> QED BY <1>1, Invariance, PTL

\* update_payload is a write-ahead log of what is sent.
THEOREM WrittenBeforeSent == Spec => []WriteAhead
  <1>1. IInv => WriteAhead
    BY DEF IInv
  <1> QED BY <1>1, Invariance, PTL

\* attempt_count is exact but for the attempts that crashes cut off.
THEOREM AttemptsCounted == Spec => []AttemptAccounting
  <1>1. IInv => AttemptAccounting
    BY DEF IInv
  <1> QED BY <1>1, Invariance, PTL

\* Between PresenceState.update and the disk a detected event is only lost to a
\* crash, and on the disk no crash, retry or restart loses it.
THEOREM NothingLost == Spec => LostOnlyByCrash
  <1>1. IInv /\ [Next]_vars => [KeepsDetected]_vars
    BY KeepsDetectedStep
  <1>2. [][KeepsDetected]_vars => LostOnlyByCrash
    BY PTL DEF KeepsDetected, LostOnlyByCrash
  <1> QED BY <1>1, <1>2, Invariance, PTL DEF Spec

\* process_pending_deliveries sends only rows that are PENDING at that moment.
THEOREM OnlyPendingSent == Spec => NoResendAfterAck
  <1>1. IInv /\ [Next]_vars => [pc = "send" /\ pc' = "attempt" => cur \in Pending(table)]_vars
    BY DEF IInv, Hand, InHand
  <1> QED BY <1>1, Invariance, PTL DEF Spec, NoResendAfterAck
-----------------------------------------------------------------------------
(* Delivery implements StoreAndForward. *)

LEMMA InitPromise == Init => SF!Init
  BY DEF Init, SF!Init, EmptyTable, NoRow, Queued, Delivered

LEMMA StepPromise == IInv /\ [Next]_vars => [SF!Next]_(SF!vars)
  <1> SUFFICES ASSUME IInv, [Next]_vars PROVE [SF!Next]_(SF!vars)
    OBVIOUS
  <1> DEFINE held(c) == {e \in Events : c[e] # 0}
  <1> USE DEF IInv, TypeOK, disk, world, run
  <1>0. ASSUME UNCHANGED <<Queued(table), held(cloud), Delivered(table)>>
        PROVE  UNCHANGED SF!vars
    BY <1>0 DEF SF!vars
  <1>1. CASE Elsewhere
    BY <1>0, <1>1 DEF Elsewhere, Start, Detect, RetryDue, FetchBatch, EndBatch, Shutdown,
                      Queued, Delivered
  <1>2. CASE EnqueueEvent
    <2> PICK e \in events, now \in Times : table' = Enqueue(table, e, now)
      BY <1>2 DEF EnqueueEvent
    <2>1. Queued(table)' = Queued(table) \cup {e}
      BY EnqueueRow DEF Queued
    <2>2. Delivered(table)' = Delivered(table)
      <3>1. \A f \in Events : table'[f].status = "DELIVERED" <=> table[f].status = "DELIVERED"
        BY EnqueueRow
      <3> QED BY <3>1 DEF Delivered
    <2>3. cloud' = cloud
      BY <1>2 DEF EnqueueEvent
    <2>4. SF!Accept(e)
      BY <2>1, <2>2, <2>3 DEF SF!Accept
    <2> QED BY <2>4 DEF SF!Next
  <1>3. CASE BeginEvent
    <2> PICK e \in batch : /\ payload' = Bump(table[e].stamp)
                           /\ table' = UpdatePayload(table, e, payload')
      BY <1>3 DEF BeginEvent
    <2>1. e \in Events /\ payload' \in 0 .. AttemptCap
      BY BumpCounts DEF Row
    <2>2. \A f \in Events : f # e => table'[f] = table[f]
      BY <2>1, UpdatePayloadRow
    <2>3. table'[e].status = table[e].status
      BY <2>1, UpdatePayloadRow
    <2>4. Queued(table)' = Queued(table) /\ Delivered(table)' = Delivered(table)
      BY <2>2, <2>3 DEF Queued, Delivered
    <2> QED BY <1>0, <1>3, <2>4 DEF BeginEvent
  <1>4. CASE Send
    <2>1. table' = table /\ cur \in Queued(table) /\ payload \in 1 .. AttemptCap
      BY <1>4, CurFacts
         DEF Send, SendAccepted, SendReplyLost, SendFailed, SendDelayed, SendReturns,
             InHand, Queued
    <2>2. CASE cloud' = Stored(cur, payload)
      <3>1. held(cloud)' = held(cloud) \cup {cur}
        BY <2>1, <2>2 DEF Stored, Queued
      <3>2. PICK e \in Events : e = cur
        BY <2>1 DEF Queued
      <3>3. SF!Store(e)
        BY <2>1, <3>1, <3>2 DEF SF!Store, Queued, Delivered
      <3> QED BY <3>3 DEF SF!Next
    <2>3. CASE cloud' = cloud
      BY <1>0, <2>1, <2>3
    <2> QED BY <1>4, <2>2, <2>3 DEF Send, SendAccepted, SendReplyLost, SendFailed, SendDelayed
  <1>5. CASE LateArrival
    <2> PICK request \in inflight :
          /\ inflight' = inflight \ {request}
          /\ cloud' = IF request[1] \in Poison THEN cloud
                                               ELSE Stored(request[1], request[2])
      BY <1>5 DEF LateArrival
    <2>1. /\ table' = table /\ request[1] \in Events /\ request[2] \in 1 .. AttemptCap
          /\ request[2] <= table[request[1]].stamp
      BY <1>5 DEF LateArrival, WriteAhead
    <2>2. request[1] \in Queued(table)
      BY <2>1 DEF Counted, NoRow, Queued
    <2>3. CASE cloud' = Stored(request[1], request[2])
      <3>1. held(cloud)' = held(cloud) \cup {request[1]}
        BY <2>1, <2>3 DEF Stored
      <3>2. SF!Store(request[1])
        BY <2>1, <2>2, <3>1 DEF SF!Store, Queued, Delivered
      <3> QED BY <2>1, <3>2 DEF SF!Next
    <2>4. CASE cloud' = cloud
      BY <1>0, <2>1, <2>4
    <2> QED BY <2>3, <2>4
  <1>6. CASE RecordAttempt
    <2>1. cur \in Events
      BY <1>6, CurFacts DEF RecordAttempt, InHand
    <2>2. /\ \A f \in Events : f # cur => table'[f] = table[f]
          /\ table'[cur].status = table[cur].status
      BY <1>6, <2>1, MarkAttemptRow DEF RecordAttempt
    <2>3. Queued(table)' = Queued(table) /\ Delivered(table)' = Delivered(table)
      BY <2>1, <2>2 DEF Queued, Delivered
    <2> QED BY <1>0, <1>6, <2>3 DEF RecordAttempt
  <1>7. CASE RecordDelivery
    <2>1. cur \in Events /\ table[cur].status = "PENDING" /\ cloud[cur] # 0 /\ cloud' = cloud
      BY <1>7, CurFacts DEF RecordDelivery, InHand, Hand
    <2>2. /\ \A f \in Events : f # cur => table'[f] = table[f]
          /\ table'[cur].status = "DELIVERED"
      BY <1>7, <2>1, MarkDeliveredRow DEF RecordDelivery
    <2>3. /\ Queued(table)' = Queued(table)
          /\ Delivered(table)' = Delivered(table) \cup {cur}
      BY <2>1, <2>2 DEF Queued, Delivered
    <2>4. PICK e \in Events : e = cur
      BY <2>1
    <2>5. SF!Ack(e)
      BY <2>1, <2>3, <2>4 DEF SF!Ack
    <2> QED BY <2>5 DEF SF!Next
  <1>8. CASE Crash
    BY <1>0, <1>8 DEF Crash, Queued, Delivered
  <1>9. CASE UNCHANGED vars
    BY <1>0, <1>9 DEF vars, Queued, Delivered
  <1> HIDE DEF IInv
  <1> QED BY <1>1, <1>2, <1>3, <1>4, <1>5, <1>6, <1>7, <1>8, <1>9, NextCases

\* The delivery path keeps the promise of StoreAndForward: nothing accepted is
\* ever forgotten, and only accepted events reach the cloud.
THEOREM KeepsPromise == Spec => Promise
  BY InitPromise, StepPromise, Invariance, PTL DEF Spec, Promise, SF!Spec

-----------------------------------------------------------------------------
(***************************************************************************)
(* The order of delivery: with a wall clock that never steps back, a       *)
(* younger event is delivered before an older one only after a failed      *)
(* attempt of the older one.                                               *)
(*                                                                         *)
(* fetch_pending returns a front part of the pending rows: whatever is     *)
(* older than a fetched row is fetched too.  While the pass works through  *)
(* the batch in order, a pending row older than what is left of it can     *)
(* only be one that was treated, and hence tried (Front).                  *)
(***************************************************************************)

InPass == pc \in {"next", "send", "attempt", "deliver"}

\* A pending row older than one of the batch is in the batch, in hand or tried;
\* one older than the row in hand was tried.
Front ==
    /\ InPass =>
        \A e \in batch, f \in Pending(table) :
            Older(table, f, e) =>
                f \in batch \/ table[f].attempts > 0 \/ (InHand /\ f = cur)
    /\ InHand =>
        \A f \in Pending(table) : Older(table, f, cur) => table[f].attempts > 0

\* The next key is larger than all keys in use.
Numbered == \A e \in Queued(table) : table[e].id < NextId(table)

OInv == Numbered /\ Front /\ OvertakenOnlyAfterAttempt
-----------------------------------------------------------------------------
\* The order of the rows.
LEMMA OlderOrders ==
    ASSUME NEW t \in [Events -> Row], NEW e \in Events, NEW f \in Events, NEW g \in Events
    PROVE  /\ Older(t, e, f) => ~Older(t, f, e)
           /\ Older(t, e, f) /\ Older(t, f, g) => Older(t, e, g)
  <1>1. /\ t[e].created \in Nat /\ t[f].created \in Nat /\ t[g].created \in Nat
        /\ t[e].id \in Nat /\ t[f].id \in Nat /\ t[g].id \in Nat
    BY DEF Row
  <1> QED BY <1>1 DEF Older

\* fetch_pending leaves out no row older than one it returns.
LEMMA FetchIsFront ==
    ASSUME NEW t \in [Events -> Row], NEW limit \in Nat,
           NEW e \in FetchPending(t, limit), NEW f \in Pending(t), Older(t, f, e)
    PROVE  f \in FetchPending(t, limit)
  <1> DEFINE before(x) == {g \in Pending(t) : Older(t, g, x)}
  <1>1. e \in Events /\ f \in Events /\ Pending(t) \subseteq Events
    BY DEF FetchPending, Pending
  <1>2. before(f) \subseteq before(e)
    BY <1>1, OlderOrders
  <1>3. IsFiniteSet(before(e))
    BY <1>1, QueueAssumption, FS_Subset
  <1>4. IsFiniteSet(before(f)) /\ Cardinality(before(f)) <= Cardinality(before(e))
    BY <1>2, <1>3, FS_Subset
  <1>5. Cardinality(before(f)) \in Nat /\ Cardinality(before(e)) \in Nat
    BY <1>3, <1>4, FS_CardinalityType
  <1>6. Cardinality(before(e)) < limit
    BY DEF FetchPending
  <1>7. Cardinality(before(f)) < limit
    BY <1>4, <1>5, <1>6
  <1> QED BY <1>7 DEF FetchPending

\* No update moves a row.
LEMMA UpdatesKeepPlace ==
    ASSUME NEW t \in [Events -> Row], NEW e \in Events, NEW u,
           \/ \E n : u = UpdatePayload(t, e, n)
           \/ u = MarkAttempt(t, e)
           \/ u = MarkDelivered(t, e)
    PROVE  \A f \in Events : u[f].id = t[f].id /\ u[f].created = t[f].created
  <1>1. CASE \E n : u = UpdatePayload(t, e, n)
    BY <1>1 DEF UpdatePayload, Row
  <1>2. CASE u = MarkAttempt(t, e)
    BY <1>2 DEF MarkAttempt, Row
  <1>3. CASE u = MarkDelivered(t, e)
    BY <1>3 DEF MarkDelivered, Row
  <1> QED BY <1>1, <1>2, <1>3
-----------------------------------------------------------------------------
LEMMA InitOInv == Init => OInv
  BY DEF Init, OInv, Numbered, Front, InPass, InHand, OvertakenOnlyAfterAttempt,
         EmptyTable, NoRow, Queued, Pending, Delivered

\* A step that leaves the rows, the batch and the row in hand alone.
LEMMA PlainStep ==
    ASSUME OInv, table' = table,
           InPass' => InPass /\ batch' = batch /\ (InHand' <=> InHand) /\ cur' = cur
    PROVE  OInv'
  BY DEF OInv, Numbered, Front, InPass, InHand, OvertakenOnlyAfterAttempt, Pending,
         Delivered, Queued

LEMMA EnqueueStep == ASSUME IInv, OInv, EnqueueEvent PROVE OInv'
  <1> PICK e \in events, now \in Times :
          ClockReading(now) /\ table' = Enqueue(table, e, now)
    BY DEF EnqueueEvent
  <1>1. e \in Events /\ pc' \notin {"next", "send", "attempt", "deliver"}
    BY DEF EnqueueEvent, IInv, TypeOK
  <1>2. Front'
    BY <1>1 DEF Front, InPass, InHand
  <1>3. CASE table[e].status # "NONE"
    BY <1>2, <1>3 DEF Enqueue, OInv, Numbered, OvertakenOnlyAfterAttempt, Queued, Pending,
                      Delivered, NextId
  <1>4. CASE table[e].status = "NONE"
    <2>1. /\ table \in [Events -> Row]
          /\ table' = [table EXCEPT ![e] = [ status |-> "PENDING", id |-> NextId(table),
                           created |-> now, attempts |-> 0, stamp |-> 0 ]]
      BY <1>4 DEF Enqueue, IInv, TypeOK
    <2>2. /\ \A f \in Events \ {e} : table'[f] = table[f]
          /\ table'[e].status = "PENDING" /\ table'[e].id = NextId(table)
          /\ table'[e].created = now
      BY <1>1, <2>1
    <2>3. Queued(table)' = Queued(table) \cup {e} /\ e \notin Queued(table)
      BY <1>1, <1>4, <2>2 DEF Queued
    <2>4. NextId(table) \in Nat /\ NextId(table)' = NextId(table) + 1
      <3>1. IsFiniteSet(Queued(table))
        BY QueueAssumption, FS_Subset DEF Queued
      <3>2. /\ Cardinality(Queued(table)) \in Nat
            /\ Cardinality(Queued(table) \cup {e}) = Cardinality(Queued(table)) + 1
        BY <2>3, <3>1, FS_AddElement, FS_CardinalityType
      <3>3. NextId(table)' = Cardinality(Queued(table) \cup {e}) + 1
        BY <2>3 DEF NextId
      <3> QED BY <3>2, <3>3 DEF NextId
    <2>5. \A f \in Events : table[f].id \in Nat /\ table[f].created \in Nat
      BY <2>1 DEF Row
    <2>6. Numbered'
      BY <2>2, <2>3, <2>4, <2>5 DEF OInv, Numbered, Queued
    <2>7. ASSUME MonotonicClock, NEW g \in Pending(table)', NEW f \in Delivered(table)',
                 Older(table, g, f)'
          PROVE  table'[g].attempts > 0
      <3>1. f \in Delivered(table) /\ f # e /\ f \in Queued(table)
        BY <2>2 DEF Delivered, Queued
      <3>2. CASE g = e
        <4>1. table[f].created <= now /\ table[f].id < NextId(table) /\ now \in Nat
          BY <2>7, <3>1, QueueAssumption DEF ClockReading, OInv, Numbered
        <4> QED BY <2>2, <2>4, <2>5, <2>7, <3>1, <3>2, <4>1 DEF Older, Queued
      <3>3. CASE g # e
        BY <2>2, <2>7, <3>1, <3>3 DEF Older, OInv, OvertakenOnlyAfterAttempt, Pending, Delivered
      <3> QED BY <3>2, <3>3
    <2> QED BY <1>2, <2>6, <2>7 DEF OInv, OvertakenOnlyAfterAttempt
  <1> QED BY <1>3, <1>4

LEMMA FetchStep == ASSUME IInv, OInv, FetchBatch PROVE OInv'
  <1>1. /\ table' = table /\ pc' = "next" /\ batch' = FetchPending(table, BatchSize)
        /\ table \in [Events -> Row] /\ BatchSize \in Nat
    BY DeliveryAssumption DEF FetchBatch, disk, IInv, TypeOK
  <1>2. Front'
    BY <1>1, FetchIsFront DEF Front, InHand, Pending
  <1> QED BY <1>1, <1>2 DEF OInv, Numbered, OvertakenOnlyAfterAttempt, Queued, Pending, Delivered

LEMMA BeginStep == ASSUME IInv, OInv, BeginEvent PROVE OInv'
  <1> PICK e \in batch :
          /\ Oldest(e) /\ cur' = e /\ batch' = batch \ {e}
          /\ payload' = Bump(table[e].stamp)
          /\ table' = UpdatePayload(table, e, payload')
    BY DEF BeginEvent
  <1>1. /\ table \in [Events -> Row] /\ e \in Events /\ pc = "next" /\ pc' = "send"
        /\ payload' \in 0 .. AttemptCap /\ batch \subseteq Pending(table)
    BY BumpCounts DEF BeginEvent, IInv, TypeOK, Row, Hand
  <1>2. \A f \in Events : /\ table'[f].status = table[f].status
                          /\ table'[f].attempts = table[f].attempts
    <2>1. table' = UpdatePayload(table, e, payload')
      OBVIOUS
    <2>2. \A f \in Events : f # e => table'[f] = table[f]
      BY <1>1, <2>1, UpdatePayloadRow
    <2>3. table'[e].status = table[e].status /\ table'[e].attempts = table[e].attempts
      BY <1>1, <2>1, UpdatePayloadRow
    <2> QED BY <2>2, <2>3
  <1>3. /\ Queued(table)' = Queued(table) /\ Pending(table)' = Pending(table)
        /\ Delivered(table)' = Delivered(table)
    BY <1>2 DEF Queued, Pending, Delivered
  <1>4. \A f \in Events : table'[f].id = table[f].id /\ table'[f].created = table[f].created
    BY <1>1, UpdatesKeepPlace
  <1>5. /\ Numbered'
        /\ \A f, g \in Events : Older(table, f, g)' <=> Older(table, f, g)
    BY <1>3, <1>4 DEF OInv, Numbered, NextId, Queued, Older
  <1>6. \A f \in Pending(table) : Older(table, f, e) => table[f].attempts > 0
    <2> SUFFICES ASSUME NEW f \in Pending(table), Older(table, f, e)
                 PROVE  table[f].attempts > 0
      OBVIOUS
    <2>1. f \in Events
      BY DEF Pending
    <2>2. f \in batch \/ table[f].attempts > 0
      BY <1>1 DEF OInv, Front, InPass, InHand
    <2>3. f \notin batch
      BY <1>1, <2>1, OlderOrders DEF Oldest
    <2> QED BY <2>2, <2>3
  <1>7. Front'
    <2>1. \A g \in batch, f \in Pending(table) :
            Older(table, f, g) => f \in batch \/ table[f].attempts > 0
      BY <1>1 DEF OInv, Front, InPass, InHand
    <2> QED BY <1>1, <1>2, <1>3, <1>5, <1>6, <2>1 DEF Front, InHand, Pending
  <1>8. OvertakenOnlyAfterAttempt'
    BY <1>2, <1>3, <1>5 DEF OInv, OvertakenOnlyAfterAttempt, Pending, Delivered
  <1> QED BY <1>5, <1>7, <1>8 DEF OInv

LEMMA AttemptStep == ASSUME IInv, OInv, RecordAttempt PROVE OInv'
  <1>1. /\ table \in [Events -> Row] /\ cur \in Events /\ pc = "attempt"
        /\ table' = MarkAttempt(table, cur) /\ batch' = batch /\ cur' = cur
        /\ pc' \in {"deliver", "next"} /\ batch \subseteq Events
    BY CurFacts DEF RecordAttempt, run, IInv, TypeOK, InHand
  <1>2. \A f \in Events : /\ table'[f].status = table[f].status
                          /\ table[f].attempts > 0 => table'[f].attempts > 0
                          /\ f = cur => table'[f].attempts > 0
    <2>1. \A f \in Events : table[f].attempts \in 0 .. AttemptCap
      BY <1>1 DEF Row
    <2>2. Bump(table[cur].attempts) > 0
      BY <1>1, <2>1, BumpCounts, QueueAssumption
    <2> QED BY <1>1, <2>1, <2>2, MarkAttemptRow
  <1>3. /\ Queued(table)' = Queued(table) /\ Pending(table)' = Pending(table)
        /\ Delivered(table)' = Delivered(table)
    BY <1>2 DEF Queued, Pending, Delivered
  <1>4. \A f \in Events : table'[f].id = table[f].id /\ table'[f].created = table[f].created
    BY <1>1, UpdatesKeepPlace
  <1>5. /\ Numbered'
        /\ \A f, g \in Events : Older(table, f, g)' <=> Older(table, f, g)
    BY <1>3, <1>4 DEF OInv, Numbered, NextId, Queued, Older
  <1>6. Front'
    BY <1>1, <1>2, <1>3, <1>5 DEF OInv, Front, InPass, InHand, Pending
  <1>7. OvertakenOnlyAfterAttempt'
    BY <1>2, <1>3, <1>5 DEF OInv, OvertakenOnlyAfterAttempt, Pending, Delivered
  <1> QED BY <1>5, <1>6, <1>7 DEF OInv

LEMMA DeliverStep == ASSUME IInv, OInv, RecordDelivery PROVE OInv'
  <1>1. /\ table \in [Events -> Row] /\ cur \in Pending(table) /\ pc = "deliver"
        /\ table' = MarkDelivered(table, cur) /\ batch' = batch /\ cur' = cur
        /\ pc' = "next" /\ batch \subseteq Events
    BY DEF RecordDelivery, run, IInv, TypeOK, Hand, InHand
  <1>2. /\ cur \in Events /\ table'[cur].status = "DELIVERED"
        /\ \A f \in Events : /\ f # cur => table'[f] = table[f]
                              /\ table'[f].attempts = table[f].attempts
    BY <1>1, MarkDeliveredRow DEF Pending
  <1>3. /\ Queued(table)' = Queued(table) /\ Pending(table)' = Pending(table) \ {cur}
        /\ Delivered(table)' = Delivered(table) \cup {cur}
    BY <1>1, <1>2 DEF Queued, Pending, Delivered
  <1>4. \A f \in Events : table'[f].id = table[f].id /\ table'[f].created = table[f].created
    BY <1>1, <1>2, UpdatesKeepPlace
  <1>5. /\ Numbered'
        /\ \A f, g \in Events : Older(table, f, g)' <=> Older(table, f, g)
    BY <1>3, <1>4 DEF OInv, Numbered, NextId, Queued, Older
  <1>6. Front'
    BY <1>1, <1>2, <1>3, <1>5 DEF OInv, Front, InPass, InHand, Pending
  <1>7. OvertakenOnlyAfterAttempt'
    <2>1. \A f \in Pending(table) : Older(table, f, cur) => table[f].attempts > 0
      BY <1>1 DEF OInv, Front, InHand
    <2> QED BY <1>2, <1>3, <1>5, <2>1 DEF OInv, OvertakenOnlyAfterAttempt, Pending, Delivered
  <1> QED BY <1>5, <1>6, <1>7 DEF OInv

LEMMA StepOInv == IInv /\ OInv /\ [Next]_vars => OInv'
  <1> SUFFICES ASSUME IInv, OInv, [Next]_vars PROVE OInv'
    OBVIOUS
  <1> USE DEF disk, world, run
  <1>1. CASE Start \/ Detect \/ RetryDue \/ EndBatch \/ Shutdown \/ Crash
    BY <1>1, PlainStep DEF Start, Detect, RetryDue, EndBatch, Shutdown, Crash, InPass
  <1>2. CASE Send
    BY <1>2, PlainStep DEF Send, SendAccepted, SendReplyLost, SendFailed, SendDelayed,
                           SendReturns, InPass, InHand
  <1>3. CASE LateArrival \/ UNCHANGED vars
    BY <1>3, PlainStep DEF LateArrival, vars, InPass, InHand
  <1> QED BY <1>1, <1>2, <1>3, EnqueueStep, FetchStep, BeginStep, AttemptStep, DeliverStep
          DEF Next, AgentStep

\* With a wall clock that never steps back, process_pending_deliveries lets a
\* younger event overtake an older one only after it has tried the older one.
THEOREM OvertakesOnlyTried == Spec => []OvertakenOnlyAfterAttempt
  <1>1. Spec => []OInv
    BY InitOInv, StepOInv, Invariance, PTL DEF Spec
  <1>2. OInv => OvertakenOnlyAfterAttempt
    BY DEF OInv
  <1> QED BY <1>1, <1>2, PTL
-----------------------------------------------------------------------------
(***************************************************************************)
(* The set that stands for the list of fetch_pending.  Keys are distinct,  *)
(* so the rows are totally ordered, a batch has an oldest row until it is  *)
(* empty, and it has as many rows as there are, up to the limit.           *)
(***************************************************************************)

DistinctKeys == \A e, f \in Queued(table) : table[e].id = table[f].id => e = f

LEMMA StepDistinctKeys == ASSUME IInv, OInv, DistinctKeys, [Next]_vars PROVE DistinctKeys'
  <1> USE DEF disk, world, run
  <1>0. table \in [Events -> Row] /\ table' \in [Events -> Row]
    BY StepIInv DEF IInv, TypeOK
  <1>1. ASSUME Queued(table)' \subseteq Queued(table),
               \A f \in Events : table'[f].id = table[f].id
        PROVE  DistinctKeys'
    BY <1>1 DEF DistinctKeys, Queued
  <1>2. CASE EnqueueEvent
    <2>1. PICK e \in Events, now \in Times : table' = Enqueue(table, e, now)
      BY <1>2 DEF EnqueueEvent, IInv, TypeOK
    <2>2. CASE table[e].status # "NONE"
      BY <2>1, <2>2 DEF Enqueue, DistinctKeys, Queued
    <2>3. CASE table[e].status = "NONE"
      <3>1. /\ table'[e].id = NextId(table)
            /\ \A f \in Events \ {e} : table'[f] = table[f]
        BY <1>0, <2>1, <2>3 DEF Enqueue
      <3>2. \A f \in Queued(table)' \ {e} : f \in Queued(table) /\ table'[f].id # NextId(table)
        <4> SUFFICES ASSUME NEW f \in Queued(table)' \ {e}
                     PROVE  f \in Queued(table) /\ table'[f].id # NextId(table)
          OBVIOUS
        <4>1. f \in Queued(table) /\ table'[f].id = table[f].id
          BY <3>1 DEF Queued
        <4>2. table[f].id < NextId(table) /\ table[f].id \in Nat
          BY <1>0, <4>1 DEF OInv, Numbered, Queued, Row
        <4> QED BY <4>1, <4>2
      <3> QED BY <3>1, <3>2 DEF DistinctKeys, Queued
    <2> QED BY <2>2, <2>3
  <1>3. ASSUME NEW e \in Events,
               \/ \E n \in 0 .. AttemptCap : table' = UpdatePayload(table, e, n)
               \/ table' = MarkAttempt(table, e)
               \/ e \in Pending(table) /\ table' = MarkDelivered(table, e)
        PROVE  DistinctKeys'
    <2>1. \A f \in Events : table'[f].id = table[f].id
      BY <1>0, <1>3, UpdatesKeepPlace
    <2>2. Queued(table)' \subseteq Queued(table)
      <3>1. \A f \in Events : f # e => table'[f] = table[f]
        BY <1>0, <1>3 DEF UpdatePayload, MarkAttempt, MarkDelivered
      <3>2. e \in Pending(table) \/ table'[e].status = table[e].status
        BY <1>0, <1>3 DEF UpdatePayload, MarkAttempt, Row
      <3> QED BY <3>1, <3>2 DEF Queued, Pending
    <2> QED BY <1>1, <2>1, <2>2
  <1>4. CASE BeginEvent
    <2>1. PICK e \in batch : table' = UpdatePayload(table, e, Bump(table[e].stamp))
      BY <1>4 DEF BeginEvent
    <2>2. e \in Events /\ Bump(table[e].stamp) \in 0 .. AttemptCap
      BY <1>0, <2>1, BumpCounts DEF IInv, TypeOK, Row
    <2> QED BY <1>3, <2>1, <2>2
  <1>5. CASE RecordAttempt
    <2>1. cur \in Events
      BY <1>5, CurFacts DEF RecordAttempt, IInv, TypeOK, InHand
    <2> QED BY <1>3, <1>5, <2>1 DEF RecordAttempt
  <1>6. CASE RecordDelivery
    <2>1. cur \in Pending(table) /\ cur \in Events
      BY <1>6 DEF RecordDelivery, IInv, Hand, InHand, Pending
    <2> QED BY <1>3, <1>6, <2>1 DEF RecordDelivery
  <1>7. CASE table' = table
    BY <1>7 DEF DistinctKeys, Queued
  <1> QED BY <1>2, <1>4, <1>5, <1>6, <1>7
          DEF Next, AgentStep, Start, Detect, RetryDue, FetchBatch, EndBatch, Shutdown, Crash, Send,
              SendAccepted, SendReplyLost, SendFailed, SendDelayed, SendReturns, LateArrival, vars

\* Of two rows with distinct keys one is the older.
LEMMA OlderIsTotal ==
    ASSUME NEW t \in [Events -> Row], NEW e \in Events, NEW f \in Events, t[e].id # t[f].id
    PROVE  Older(t, e, f) \/ Older(t, f, e)
  <1>1. /\ t[e].created \in Nat /\ t[f].created \in Nat
        /\ t[e].id \in Nat /\ t[f].id \in Nat
    BY DEF Row
  <1> QED BY <1>1 DEF Older

\* The rows of a finite set with distinct keys are ranked by the number of older ones:
\* each rank from 0 is taken once.
LEMMA Ranks ==
    ASSUME NEW t \in [Events -> Row], NEW S \in SUBSET Events,
           \A e, f \in S : t[e].id = t[f].id => e = f
    PROVE  LET rank == [e \in S |-> Cardinality({g \in S : Older(t, g, e)})]
           IN  /\ Cardinality(S) \in Nat
               /\ rank \in Injection(S, 0 .. Cardinality(S) - 1)
               /\ rank \in Surjection(S, 0 .. Cardinality(S) - 1)
  <1> DEFINE before(e) == {g \in S : Older(t, g, e)}
             n         == Cardinality(S)
             rank      == [e \in S |-> Cardinality(before(e))]
  <1>1. IsFiniteSet(S) /\ n \in Nat
    BY QueueAssumption, FS_Subset, FS_CardinalityType
  <1>2. ASSUME NEW e \in S
        PROVE  IsFiniteSet(before(e)) /\ Cardinality(before(e)) \in 0 .. n - 1
    <2>1. before(e) \subseteq S \ {e}
      <3>1. ~Older(t, e, e)
        BY OlderOrders
      <3> QED BY <3>1
    <2>2. IsFiniteSet(S \ {e}) /\ Cardinality(S \ {e}) = n - 1
      BY <1>1, FS_RemoveElement
    <2>3. IsFiniteSet(before(e)) /\ Cardinality(before(e)) <= n - 1
      BY <2>1, <2>2, FS_Subset
    <2>4. Cardinality(before(e)) \in Nat
      BY <2>3, FS_CardinalityType
    <2> QED BY <1>1, <2>3, <2>4
  <1>3. ASSUME NEW e \in S, NEW f \in S, Older(t, e, f)
        PROVE  Cardinality(before(e)) < Cardinality(before(f))
    <2>1. before(e) \cup {e} \subseteq before(f)
      BY <1>3, OlderOrders
    <2>2. e \notin before(e)
      BY OlderOrders
    <2>3. Cardinality(before(e) \cup {e}) = Cardinality(before(e)) + 1
      BY <1>2, <2>2, FS_AddElement
    <2>4. Cardinality(before(e) \cup {e}) <= Cardinality(before(f))
      BY <1>2, <2>1, FS_Subset
    <2>5. Cardinality(before(e)) \in 0 .. n - 1 /\ Cardinality(before(f)) \in 0 .. n - 1
      BY <1>2
    <2> HIDE DEF before, n
    <2> QED BY <1>1, <2>3, <2>4, <2>5
  <1>4. rank \in [S -> 0 .. n - 1]
    BY <1>2
  <1>5. ASSUME NEW e \in S, NEW f \in S, e # f PROVE rank[e] # rank[f]
    <2>1. Older(t, e, f) \/ Older(t, f, e)
      BY <1>5, OlderIsTotal
    <2>2. Cardinality(before(e)) # Cardinality(before(f))
      <3>1. Cardinality(before(e)) \in 0 .. n - 1 /\ Cardinality(before(f)) \in 0 .. n - 1
        BY <1>2
      <3> HIDE DEF before, n
      <3> QED BY <1>1, <1>3, <2>1, <3>1
    <2> HIDE DEF before
    <2> QED BY <2>2
  <1>6. rank \in Injection(S, 0 .. n - 1)
    <2> HIDE DEF rank, n
    <2> QED BY <1>4, <1>5 DEF Injection, IsInjective
  <1>7. IsFiniteSet(0 .. n - 1) /\ Cardinality(0 .. n - 1) = n
    <2> HIDE DEF n
    <2> QED BY <1>1, FS_Interval
  <1>8. rank \in Surjection(S, 0 .. n - 1)
    <2> HIDE DEF rank
    <2> QED BY <1>1, <1>6, <1>7, FS_Injection
  <1> HIDE DEF rank
  <1>9. n \in Nat /\ rank \in Injection(S, 0 .. n - 1) /\ rank \in Surjection(S, 0 .. n - 1)
    BY <1>1, <1>6, <1>8
  <1> QED BY <1>9 DEF rank

\* fetch_pending returns as many rows as are pending, up to the limit.
LEMMA FetchIsFull ==
    ASSUME NEW t \in [Events -> Row], NEW limit \in Nat,
           \A e, f \in Pending(t) : t[e].id = t[f].id => e = f
    PROVE  Cardinality(FetchPending(t, limit)) =
              IF Cardinality(Pending(t)) < limit THEN Cardinality(Pending(t)) ELSE limit
  <1> DEFINE P    == Pending(t)
             n    == Cardinality(P)
             m    == IF n < limit THEN n ELSE limit
             rank == [e \in P |-> Cardinality({g \in P : Older(t, g, e)})]
             F    == FetchPending(t, limit)
             cut  == [e \in F |-> rank[e]]
  <1>1. P \subseteq Events
    BY DEF Pending
  <1>2. n \in Nat /\ rank \in Injection(P, 0 .. n - 1) /\ rank \in Surjection(P, 0 .. n - 1)
    BY <1>1, Ranks
  <1>3. F = {e \in P : rank[e] < limit}
    BY DEF FetchPending
  <1>4. m \in Nat /\ \A k \in 0 .. n - 1 : k < limit <=> k \in 0 .. m - 1
    <2> HIDE DEF n
    <2> QED BY <1>2
  <1> HIDE DEF P, n, m, rank, F
  <1>5. cut \in Injection(F, 0 .. m - 1)
    <2>1. cut \in [F -> 0 .. m - 1]
      BY <1>2, <1>3, <1>4 DEF Injection
    <2> QED BY <1>2, <1>3, <2>1 DEF Injection, IsInjective
  <1>6. cut \in Surjection(F, 0 .. m - 1)
    <2> SUFFICES ASSUME NEW k \in 0 .. m - 1 PROVE \E e \in F : cut[e] = k
      BY <1>5 DEF Injection, Surjection
    <2>1. k \in 0 .. n - 1 /\ k < limit
      BY <1>2, <1>4 DEF m
    <2>2. PICK e \in P : rank[e] = k
      BY <1>2, <2>1 DEF Surjection
    <2> QED BY <1>3, <2>1, <2>2
  <1>7. IsFiniteSet(0 .. m - 1) /\ Cardinality(0 .. m - 1) = m
    BY <1>4, FS_Interval
  <1>8. Cardinality(F) = m
    <2> HIDE DEF cut
    <2> QED BY <1>5, <1>6, <1>7, FS_Injection
  <1> QED BY <1>8 DEF F, m, n, P

\* While rows of a batch are left, one of them is the oldest.
LEMMA OldestExists ==
    ASSUME TypeOK, DistinctKeys, batch \subseteq Pending(table), batch # {}
    PROVE  \E e \in batch : Oldest(e)
  <1> DEFINE rank == [e \in batch |-> Cardinality({g \in batch : Older(table, g, e)})]
             n    == Cardinality(batch)
  <1>1. batch \subseteq Events /\ \A e, f \in batch : table[e].id = table[f].id => e = f
    BY DEF DistinctKeys, Pending, Queued, TypeOK
  <1>2. n \in Nat /\ rank \in Injection(batch, 0 .. n - 1) /\ rank \in Surjection(batch, 0 .. n - 1)
    BY <1>1, Ranks DEF TypeOK
  <1>3. n # 0 /\ IsFiniteSet(batch)
    BY <1>1, QueueAssumption, FS_Subset, FS_EmptySet
  <1>4. PICK e \in batch : rank[e] = 0
    <2> HIDE DEF rank, n
    <2> QED BY <1>2, <1>3 DEF Surjection
  <1>5. \A f \in batch : ~Older(table, f, e)
    <2>1. IsFiniteSet({g \in batch : Older(table, g, e)})
      BY <1>3, FS_Subset
    <2>2. Cardinality({g \in batch : Older(table, g, e)}) = 0
      BY <1>4
    <2> QED BY <2>1, <2>2, FS_EmptySet
  <1> QED BY <1>1, <1>5, OlderIsTotal DEF Oldest, TypeOK

\* What a pass of AgentLoop takes for granted: process_pending_deliveries fetches the
\* pending rows, all of them or as many as a batch holds ...
FullBatch ==
    [][pc = "fetch" /\ pc' = "next" =>
         Cardinality(batch') = IF Cardinality(Pending(table)) < BatchSize
                               THEN Cardinality(Pending(table)) ELSE BatchSize]_vars

\* ... and never stalls between two of them.
PassGoesOn == pc = "next" => batch = {} \/ \E e \in batch : Oldest(e)

\* process_pending_deliveries works on a full batch, row after row, oldest first,
\* whatever the clock did when the rows were written.
THEOREM PassesAreFull == Spec => FullBatch /\ []PassGoesOn
  <1> DEFINE Full == pc = "fetch" /\ pc' = "next" =>
                Cardinality(batch') = IF Cardinality(Pending(table)) < BatchSize
                                      THEN Cardinality(Pending(table)) ELSE BatchSize
  <1>1. Spec => []OInv
    BY InitOInv, StepOInv, Invariance, PTL DEF Spec
  <1>2. Init => DistinctKeys
    BY DEF Init, EmptyTable, NoRow, DistinctKeys, Queued
  <1>3. IInv /\ OInv /\ DistinctKeys /\ [Next]_vars => DistinctKeys'
    BY StepDistinctKeys
  <1>4. Spec => []DistinctKeys
    BY <1>1, <1>2, <1>3, Invariance, PTL DEF Spec
  <1>5. ASSUME IInv, DistinctKeys PROVE PassGoesOn
    BY <1>5, OldestExists DEF PassGoesOn, IInv, Hand
  <1>6. ASSUME IInv, DistinctKeys, Next PROVE Full
    <2> SUFFICES ASSUME pc = "fetch", pc' = "next"
                 PROVE  Cardinality(batch') = IF Cardinality(Pending(table)) < BatchSize
                                              THEN Cardinality(Pending(table)) ELSE BatchSize
      OBVIOUS
    <2>1. batch' = FetchPending(table, BatchSize)
      BY <1>6 DEF Next, AgentStep, Start, EnqueueEvent, RetryDue, FetchBatch, BeginEvent, EndBatch, Send,
                  SendAccepted, SendReplyLost, SendFailed, SendDelayed, SendReturns, RecordAttempt,
                  RecordDelivery, Detect, LateArrival, Shutdown, Crash, run
    <2>2. table \in [Events -> Row] /\ BatchSize \in Nat
      BY <1>6, DeliveryAssumption DEF IInv, TypeOK
    <2>3. \A e, f \in Pending(table) : table[e].id = table[f].id => e = f
      BY <1>6 DEF DistinctKeys, Pending, Queued
    <2> QED BY <2>1, <2>2, <2>3, FetchIsFull
  <1> HIDE DEF Full
  <1>7. Spec => [][Full]_vars
    BY <1>4, <1>6, Invariance, PTL DEF Spec
  <1>8. [][Full]_vars => FullBatch
    BY PTL DEF Full, FullBatch
  <1> QED BY <1>4, <1>5, <1>7, <1>8, Invariance, PTL
=============================================================================
