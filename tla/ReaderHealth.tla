---------------------------- MODULE ReaderHealth ----------------------------
(***************************************************************************)
(* HealthState of health/state.py: what the heartbeat reports about the    *)
(* reader.  The module holds the mark_ operations as operators on the      *)
(* record; timestamps, the EPC snapshot and the texts of errors are        *)
(* abstracted, so an error is only told apart by its kind.                 *)
(***************************************************************************)
EXTENDS Naturals

CONSTANTS
    Threshold,    \* offline_failure_threshold
    MalformedCap  \* bound: malformed_response_count saturates here

ASSUME HealthAssumption ==
    /\ Threshold \in Nat \ {0}
    /\ MalformedCap \in Nat

Statuses == {"HEALTHY", "DEGRADED", "OFFLINE", "RECONNECTING"}
Failures == {"SERIAL_DISCONNECTED", "CONFIG"}
Errors   == {"none", "CLOUD_DELIVERY_FAILED"} \cup Failures

\* What last_reader_error tells apart, which the delivery does not write.
ReaderErrors == {"none", "NO_RESPONSE", "MALFORMED"} \cup Failures

Health == [ status     : Statuses,            \* health_status
            connected  : BOOLEAN,             \* reader_connected
            responding : BOOLEAN,             \* inventory_responding
            silences   : 0 .. Threshold,      \* consecutive_no_response_count, saturated
            malformed  : 0 .. MalformedCap,   \* malformed_response_count
            readerError : ReaderErrors,       \* last_reader_error
            error      : Errors ]             \* last_error

FreshHealth == [ status |-> "OFFLINE", connected |-> FALSE, responding |-> FALSE,
                 silences |-> 0, malformed |-> 0, readerError |-> "none", error |-> "none" ]

\* What a heartbeat says of the reader.
Report(h) == [ status |-> h.status, connected |-> h.connected,
               responding |-> h.responding, error |-> h.error ]

UpTo(n, cap) == IF n < cap THEN n + 1 ELSE n

\* mark_reconnect_attempt calls mark_reader_connecting
MarkReconnectAttempt(h) ==
    [h EXCEPT !.connected = FALSE, !.responding = FALSE, !.status = "RECONNECTING"]

MarkReaderReady(h) ==
    [h EXCEPT !.connected = TRUE,
              !.status = IF @ \in {"OFFLINE", "RECONNECTING"} THEN "DEGRADED" ELSE @]

\* Faulty variant: the failures before a success go on counting.
MarkSuccessCounting(h) ==
    [h EXCEPT !.connected = TRUE, !.responding = TRUE, !.readerError = "none",
              !.status = "HEALTHY"]

MarkInventorySuccess(h) ==
    [h EXCEPT !.connected = TRUE, !.responding = TRUE, !.silences = 0,
              !.readerError = "none", !.status = "HEALTHY"]

\* Faulty variant: the threshold is compared before this failure is counted.
MarkNoResponseLate(h) ==
    [h EXCEPT !.connected = TRUE, !.responding = FALSE,
              !.silences = UpTo(h.silences, Threshold),
              !.readerError = "NO_RESPONSE",
              !.status = IF h.silences >= Threshold THEN "OFFLINE" ELSE "DEGRADED"]

MarkInventoryNoResponse(h) ==
    [h EXCEPT !.connected = TRUE, !.responding = FALSE,
              !.silences = UpTo(h.silences, Threshold),
              !.readerError = "NO_RESPONSE",
              !.status = IF UpTo(h.silences, Threshold) >= Threshold
                         THEN "OFFLINE" ELSE "DEGRADED"]

MarkInventoryMalformed(h) ==
    [h EXCEPT !.connected = TRUE, !.responding = FALSE,
              !.malformed = UpTo(h.malformed, MalformedCap),
              !.readerError = "MALFORMED",
              !.status = "DEGRADED"]

\* Faulty variant: the reader state's word in the place of the health status.
MarkReaderDisconnected(h, kind) ==
    [h EXCEPT !.connected = FALSE, !.responding = FALSE, !.readerError = kind,
              !.status = "DISCONNECTED"]

MarkReaderOffline(h, kind) ==
    [h EXCEPT !.connected = FALSE, !.responding = FALSE, !.readerError = kind,
              !.status = "OFFLINE"]

MarkError(h, kind) == [h EXCEPT !.error = kind]

ClearError(h) == [h EXCEPT !.error = "none"]
=============================================================================
