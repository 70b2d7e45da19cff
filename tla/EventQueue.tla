----------------------------- MODULE EventQueue -----------------------------
(***************************************************************************)
(* The durable event queue of storage/queue.py: one SQLite table whose     *)
(* rows are never deleted, only moved from PENDING to DELIVERED.  The      *)
(* module holds the operations as operators on the value of the table; the *)
(* modules that own a table make each of them one step, because each       *)
(* method of EventQueue is one SQLite transaction.                         *)
(*                                                                         *)
(* A row keeps what the ordering and the delivery protocol depend on:      *)
(*   status    PENDING or DELIVERED ("NONE": the table has no such row)    *)
(*   id        the autoincrement primary key                               *)
(*   created   created_at, the wall clock of the enqueue                   *)
(*   attempts  attempt_count                                               *)
(*   stamp     which edition of the payload is on disk: 0 as enqueued,     *)
(*             then one more for each edge_send_at written into it         *)
(* last_error, last_attempt_at and delivered_at are abstracted.            *)
(***************************************************************************)
EXTENDS Naturals, FiniteSets

CONSTANTS
    Events,     \* the edge_event_ids that may ever be minted (uuid4: distinct)
    Times,      \* the readings of the wall clock
    AttemptCap  \* bound: attempts and stamp saturate here

ASSUME QueueAssumption ==
    /\ IsFiniteSet(Events)
    /\ Times \subseteq Nat
    /\ AttemptCap \in Nat \ {0}

Bump(n) == IF n < AttemptCap THEN n + 1 ELSE n

Row == [ status   : {"NONE", "PENDING", "DELIVERED"},
         id       : Nat,
         created  : Nat,
         attempts : 0 .. AttemptCap,
         stamp    : 0 .. AttemptCap ]

NoRow == [ status |-> "NONE", id |-> 0, created |-> 0, attempts |-> 0, stamp |-> 0 ]

EmptyTable == [e \in Events |-> NoRow]

Queued(table)    == {e \in Events : table[e].status # "NONE"}
Pending(table)   == {e \in Events : table[e].status = "PENDING"}
Delivered(table) == {e \in Events : table[e].status = "DELIVERED"}

\* Faulty variant: newest first.
NewestFirst(table, e, f) ==
    \/ table[f].created < table[e].created
    \/ table[e].created = table[f].created /\ table[f].id < table[e].id

\* order by created_at asc, id asc
Older(table, e, f) ==
    \/ table[e].created < table[f].created
    \/ table[e].created = table[f].created /\ table[e].id < table[f].id

\* Faulty variants: the status filter forgotten; a row that was tried once is
\* not offered again.
FetchAnyStatus(table, limit) ==
    {e \in Queued(table) :
        Cardinality({f \in Queued(table) : Older(table, f, e)}) < limit}

FetchUntried(table, limit) ==
    {e \in Pending(table) :
        /\ table[e].attempts = 0
        /\ Cardinality({f \in Pending(table) : Older(table, f, e)}) < limit}

\* The `limit` oldest pending rows.  The set stands for the list: Older is a
\* total order on the rows of a table, and the caller takes them in that order.
FetchPending(table, limit) ==
    {e \in Pending(table) :
        Cardinality({f \in Pending(table) : Older(table, f, e)}) < limit}

\* Rows are never deleted, so the autoincrement key counts them.
NextId(table) == Cardinality(Queued(table)) + 1

\* insert or ignore: a row with this edge_event_id is left as it is
Enqueue(table, e, now) ==
    IF table[e].status = "NONE"
    THEN [table EXCEPT ![e] = [ status |-> "PENDING", id |-> NextId(table),
                                created |-> now, attempts |-> 0, stamp |-> 0 ]]
    ELSE table

\* Faulty variant: the restamped payload stays in memory.
UpdateNothing(table, e, stamp) == table

UpdatePayload(table, e, stamp) == [table EXCEPT ![e].stamp = stamp]

MarkAttempt(table, e) == [table EXCEPT ![e].attempts = Bump(@)]

\* Faulty variant: a status the rest of the code does not know.
MarkSent(table, e) == [table EXCEPT ![e].status = "SENT"]

MarkDelivered(table, e) == [table EXCEPT ![e].status = "DELIVERED"]
=============================================================================
