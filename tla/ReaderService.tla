---------------------------- MODULE ReaderService ----------------------------
(***************************************************************************)
(* The reader as the heartbeat shows it, whatever goes on at the link and  *)
(* in the queue: what the record says follows from the reader's state, its *)
(* last inventory, the inventories without an answer since the last valid  *)
(* one, and the last thing that went wrong.                                *)
(*                                                                         *)
(* ReaderLink and AgentLoop both implement it: the one knows every command *)
(* of a connection, the other only how it ended.                           *)
(***************************************************************************)
EXTENDS Naturals

CONSTANT Threshold   \* so many inventories without an answer are an outage

VARIABLES
    reader,       \* reader_state
    report,       \* what the record says of it
    unanswered    \* inventories without an answer since the last valid one

vars == <<reader, report, unanswered>>

Says(state, status, error) ==
    [status     |-> status,
     connected  |-> state = "READY",
     responding |-> status = "HEALTHY",
     error      |-> error]

Moves(state, status, error) ==
    /\ reader' = state
    /\ report' = Says(state, status, error)

Init ==
    /\ reader = "DISCONNECTED"
    /\ report = Says("DISCONNECTED", "OFFLINE", "none")
    /\ unanswered = 0

\* An attempt to connect leaves the error of the last one in view.
Try ==
    /\ reader # "READY"
    /\ Moves("CONNECTING", "RECONNECTING", report.error)
    /\ UNCHANGED unanswered

\* A connection ends every error; that the reader answers is yet to be seen.
Succeed ==
    /\ reader = "CONNECTING"
    /\ Moves("READY", "DEGRADED", "none")
    /\ UNCHANGED unanswered

\* An attempt fails in two ways, a READY reader is only lost in one.
Fail ==
    /\ \/ reader \in {"CONNECTING", "READY"} /\ Moves("DISCONNECTED", "OFFLINE", "SERIAL_DISCONNECTED")
       \/ reader = "CONNECTING" /\ Moves("CONFIG_ERROR", "OFFLINE", "CONFIG")
    /\ UNCHANGED unanswered

Answered ==
    /\ reader = "READY"
    /\ Moves("READY", "HEALTHY", report.error)
    /\ unanswered' = 0

Unanswered ==
    /\ reader = "READY"
    /\ unanswered' = IF unanswered < Threshold THEN unanswered + 1 ELSE unanswered
    /\ Moves("READY", IF unanswered' = Threshold THEN "OFFLINE" ELSE "DEGRADED", report.error)

AnsweredBadly ==
    /\ reader = "READY"
    /\ Moves("READY", "DEGRADED", report.error)
    /\ UNCHANGED unanswered

\* The queue reports through the same error, but not during an attempt.
SendFails ==
    /\ reader # "CONNECTING"
    /\ Moves(reader, report.status, "CLOUD_DELIVERY_FAILED")
    /\ UNCHANGED unanswered

\* A new process knows nothing.
Restart ==
    /\ Moves("DISCONNECTED", "OFFLINE", "none")
    /\ unanswered' = 0

Next ==
    \/ Try \/ Succeed \/ Fail \/ Answered \/ Unanswered \/ AnsweredBadly
    \/ SendFails \/ Restart

Spec == Init /\ [][Next]_vars
=============================================================================
