--------------------------- MODULE StoreAndForward ---------------------------
(***************************************************************************)
(* What the edge agent promises about the events it takes responsibility   *)
(* for: an event is accepted once it is durable on the edge device, the    *)
(* cloud only ever holds accepted events, and the agent only believes the  *)
(* delivery of an event the cloud holds.  None of the three sets ever      *)
(* loses a member, whatever crashes, times out or is sent twice.           *)
(***************************************************************************)
CONSTANT Events

VARIABLES
    accepted,   \* events durable on the edge device
    stored,     \* events the cloud has stored
    acked       \* events the edge device knows to be stored

vars == <<accepted, stored, acked>>

Init ==
    /\ accepted = {}
    /\ stored = {}
    /\ acked = {}

Accept(e) ==
    /\ accepted' = accepted \cup {e}
    /\ UNCHANGED <<stored, acked>>

Store(e) ==
    /\ e \in accepted
    /\ stored' = stored \cup {e}
    /\ UNCHANGED <<accepted, acked>>

Ack(e) ==
    /\ e \in stored
    /\ acked' = acked \cup {e}
    /\ UNCHANGED <<accepted, stored>>

Next == \E e \in Events : Accept(e) \/ Store(e) \/ Ack(e)

Spec == Init /\ [][Next]_vars
=============================================================================
