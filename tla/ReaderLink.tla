----------------------------- MODULE ReaderLink -----------------------------
(***************************************************************************)
(* The agent's side of the serial link: the part of run_agent that         *)
(* connects, verifies and configures the reader (connect_and_verify_reader)*)
(* and sends it one inventory command per iteration, with the reader, its  *)
(* USB adapter and the health record the heartbeat reports.                *)
(*                                                                         *)
(* Each serial command is one step, because the hardware can change        *)
(* between any two: the adapter is unplugged (a handle opened before       *)
(* raises from then on), the reader loses power behind an adapter that     *)
(* stays (commands time out), replies are disturbed.                       *)
(***************************************************************************)
EXTENDS ReaderHealth, FiniteSets

CONSTANTS
    ModeSurvives,   \* TRUE: a reader that lost power comes back in its mode
    MaxHandles,     \* bound: serial handles open at once (more would be a leak)
    MaxRestarts     \* bound: restarts of the process

ASSUME LinkAssumption ==
    /\ ModeSurvives \in BOOLEAN
    /\ MaxHandles \in Nat \ {0, 1}
    /\ MaxRestarts \in Nat

Modes   == {"ANSWER", "SCAN"}
Results == {"none", "VALID", "NO_RESPONSE", "MALFORMED"} \cup Failures

VARIABLES
    config,       \* AUTO_CONFIGURE_READER; whether SERIAL_PORT is AUTO, and
                  \* READER_VERIFY_METHOD, whose other values send one command
    plugged,      \* the adapter is attached
    powered,      \* the reader behind it is on
    mode,         \* the reader's work mode
    disturbed,    \* replies may be lost or garbled, a second reader may answer,
                  \* the port may be busy
    pc,           \* where the iteration stands
    readerState,  \* reader_state of run_agent
    serial,       \* the current IDT85Reader holds an open handle
    stale,        \* that handle lost its adapter
    handles,      \* open handles, of discarded readers too
    health,       \* HealthState
    deceived,     \* READY rests on a reply whose mode was disturbed
    last,         \* what last came of the reader: the result of an inventory, or
                  \* how a connection failed or ended
    streak,       \* NO_RESPONSE results since the last VALID one (saturates)
    restarts      \* restarts of the process

world == <<plugged, powered, mode, disturbed>>
link  == <<serial, stale, handles>>
conn  == <<deceived, last, streak>>
rest  == <<config, restarts>>
vars  == <<world, pc, readerState, link, health, conn, rest>>

Configs == [autoConfigure : BOOLEAN, autoDiscover : BOOLEAN, autoVerify : BOOLEAN]

Init ==
    /\ config \in Configs
    /\ plugged \in BOOLEAN
    /\ powered \in BOOLEAN
    /\ mode \in Modes
    /\ disturbed = FALSE
    /\ pc = "top"
    /\ readerState = "DISCONNECTED"
    /\ serial = FALSE
    /\ stale = FALSE
    /\ handles = 0
    /\ health = FreshHealth
    /\ deceived = FALSE
    /\ last = "none"
    /\ streak = 0
    /\ restarts = 0
-----------------------------------------------------------------------------
(* The hardware *)

AgentUnchanged == UNCHANGED <<pc, readerState, serial, handles, health, conn, rest>>

Unplug ==
    /\ plugged
    /\ plugged' = FALSE
    /\ stale' = serial
    /\ UNCHANGED <<powered, mode, disturbed>>
    /\ AgentUnchanged

\* Whatever is plugged in next may be in any mode.
Plug ==
    /\ ~plugged
    /\ plugged' = TRUE
    /\ powered' \in BOOLEAN
    /\ mode' \in Modes
    /\ UNCHANGED <<disturbed, stale>>
    /\ AgentUnchanged

PowerOff ==
    /\ powered
    /\ powered' = FALSE
    /\ UNCHANGED <<plugged, mode, disturbed, stale>>
    /\ AgentUnchanged

PowerOn ==
    /\ ~powered
    /\ powered' = TRUE
    /\ mode' \in IF ModeSurvives THEN {mode} ELSE Modes
    /\ UNCHANGED <<plugged, disturbed, stale>>
    /\ AgentUnchanged

Disturb ==
    /\ disturbed' = ~disturbed
    /\ UNCHANGED <<plugged, powered, mode, stale>>
    /\ AgentUnchanged

World == Unplug \/ Plug \/ PowerOff \/ PowerOn \/ Disturb

\* What _send_command can do with an open handle.
Raises  == stale
Silent  == ~stale /\ (~powered \/ disturbed)
Replies == ~stale /\ powered
Garbled == Replies /\ disturbed
-----------------------------------------------------------------------------
(* IDT85Reader handles *)

Close ==
    /\ handles' = IF serial THEN handles - 1 ELSE handles
    /\ serial' = FALSE
    /\ stale' = FALSE
-----------------------------------------------------------------------------
(* run_agent: the connection *)

\* Faulty variant: a configuration error is final.
ConnectUnlessConfigError ==
    /\ pc = "top"
    /\ readerState = "DISCONNECTED"
    /\ readerState' = "CONNECTING"
    /\ health' = MarkReconnectAttempt(health)
    /\ pc' = "resolve"
    /\ UNCHANGED <<world, link, conn, rest>>

\* next_reader_attempt is due and the reader is not READY.
Connect ==
    /\ pc = "top"
    /\ readerState # "READY"
    /\ readerState' = "CONNECTING"
    /\ health' = MarkReconnectAttempt(health)
    /\ pc' = "resolve"
    /\ UNCHANGED <<world, link, conn, rest>>

\* The message that goes with the state.
Failure(state) == IF state = "CONFIG_ERROR" THEN "CONFIG" ELSE "SERIAL_DISCONNECTED"

\* The attempt failed: the iteration goes on without a reader.
Unavailable(state) ==
    /\ readerState' = state
    /\ health' = MarkReaderOffline(MarkError(health, Failure(state)), Failure(state))
    /\ pc' = "top"
    /\ deceived' = FALSE
    /\ last' = Failure(state)
    /\ UNCHANGED <<plugged, powered, disturbed, streak, rest>>

\* Faulty variant: a reader that fails verification is left open.
AbandonForgetting(state) ==
    Unavailable(state) /\ IF state = "CONFIG_ERROR" THEN UNCHANGED link ELSE Close

\* The attempt failed after open: the handle is closed.
Abandon(state) == Unavailable(state) /\ Close

\* resolve_reader_port found no reader, or more than one.
ResolveNone ==
    /\ pc = "resolve"
    /\ config.autoDiscover
    /\ \/ (~plugged \/ ~powered \/ disturbed) /\ Unavailable("DISCONNECTED")
       \/ disturbed /\ Unavailable("CONFIG_ERROR")
    /\ UNCHANGED <<mode, link>>

\* A port is selected: the configured one, or the one a reader answered on.  A
\* new IDT85Reader replaces the old object, whatever that one holds.
ResolvePort ==
    /\ pc = "resolve"
    /\ config.autoDiscover => plugged /\ powered
    /\ serial' = FALSE
    /\ stale' = FALSE
    /\ pc' = "open"
    /\ UNCHANGED <<world, readerState, handles, health, conn, rest>>

Open ==
    /\ pc = "open"
    /\ plugged
    /\ handles < MaxHandles
    /\ handles' = handles + 1
    /\ serial' = TRUE
    /\ pc' = "verify"
    /\ UNCHANGED <<world, readerState, stale, health, conn, rest>>

\* The port is gone, or is there and cannot be opened.
OpenRaises ==
    /\ pc = "open"
    /\ ~plugged \/ disturbed
    /\ Abandon("DISCONNECTED")
    /\ UNCHANGED mode

Commands == {"verify", "verifyMode", "getMode", "setMode", "recheck"}

\* Any exception between open and READY.
CommandRaises ==
    /\ pc \in Commands
    /\ Raises
    /\ Abandon("DISCONNECTED")
    /\ UNCHANGED mode

\* The reply to a command is missing or is not its reply.
NoProperReply(command) == pc = command /\ (Silent \/ Garbled)

Verify ==
    /\ pc \in {"verify", "verifyMode"}
    /\ Replies
    /\ pc' = "getMode"
    /\ UNCHANGED <<world, readerState, link, health, conn, rest>>

\* The method AUTO asks for the work mode when the reader's information fails.
VerifyAgain ==
    /\ NoProperReply("verify")
    /\ config.autoVerify
    /\ pc' = "verifyMode"
    /\ UNCHANGED <<world, readerState, link, health, conn, rest>>

VerifyFails ==
    /\ \/ NoProperReply("verify") /\ ~config.autoVerify
       \/ NoProperReply("verifyMode")
    /\ Abandon("CONFIG_ERROR")
    /\ UNCHANGED mode

\* get_work_mode returns ANSWER: only the command byte and the mode byte of the
\* reply are looked at, and not its CRC, so a disturbance can forge the mode.
ReadsAnswer == Replies /\ (mode = "ANSWER" \/ disturbed)

\* connect_and_verify_reader returns READY: the error is cleared, and the same
\* iteration goes on to the inventory.
Ready ==
    /\ ReadsAnswer
    /\ readerState' = "READY"
    /\ health' = ClearError(MarkReaderReady(health))
    /\ deceived' = (mode # "ANSWER")
    /\ pc' = "scan"
    /\ UNCHANGED <<world, link, last, streak, rest>>

ModeIsAnswer == pc = "getMode" /\ Ready

\* get_work_mode is not ANSWER: another mode, or None for want of a reply.
NotAnswer(command) == NoProperReply(command) \/ (pc = command /\ Replies /\ mode # "ANSWER")

\* Faulty variant: AUTO_CONFIGURE_READER is not looked at.
ConfigureAnyway ==
    /\ NotAnswer("getMode")
    /\ pc' = "setMode"
    /\ UNCHANGED <<world, readerState, link, health, conn, rest>>

ConfigureMode ==
    /\ NotAnswer("getMode")
    /\ config.autoConfigure
    /\ pc' = "setMode"
    /\ UNCHANGED <<world, readerState, link, health, conn, rest>>

ModeNotConfigurable ==
    /\ NotAnswer("getMode")
    /\ ~config.autoConfigure
    /\ Abandon("CONFIG_ERROR")
    /\ UNCHANGED mode

\* Faulty variant: the reply to Set Work Mode is taken for its success.
SetModeTrusting ==
    /\ pc = "setMode"
    /\ Replies
    /\ mode' \in {mode, "ANSWER"}
    /\ readerState' = "READY"
    /\ health' = ClearError(MarkReaderReady(health))
    /\ pc' = "scan"
    /\ UNCHANGED <<plugged, powered, disturbed, link, conn, rest>>

\* set_answer_mode is answered.  Only the command byte of the reply is looked
\* at, so the reader may have refused.
SetMode ==
    /\ pc = "setMode"
    /\ Replies
    /\ mode' \in {mode, "ANSWER"}
    /\ pc' = "recheck"
    /\ UNCHANGED <<plugged, powered, disturbed, readerState, link, health, conn, rest>>

\* No proper reply, although the command may have worked.
SetModeFails ==
    /\ NoProperReply("setMode")
    /\ mode' \in IF powered THEN {mode, "ANSWER"} ELSE {mode}
    /\ Abandon("CONFIG_ERROR")

RecheckIsAnswer == pc = "recheck" /\ Ready

RecheckFails ==
    /\ NotAnswer("recheck")
    /\ Abandon("CONFIG_ERROR")
    /\ UNCHANGED mode

Connecting ==
    \/ Connect \/ ResolveNone \/ ResolvePort \/ Open \/ OpenRaises \/ CommandRaises
    \/ Verify \/ VerifyAgain \/ VerifyFails \/ ModeIsAnswer
    \/ ConfigureMode \/ ModeNotConfigurable \/ SetMode \/ SetModeFails \/ RecheckIsAnswer \/ RecheckFails
-----------------------------------------------------------------------------
(* run_agent: the inventory, once per iteration while READY *)

Scanning == pc = "scan" \/ (pc = "top" /\ readerState = "READY")

\* read_inventory_events got a result: the reader stays READY whatever it is.
Inventory(result, record) ==
    /\ Scanning
    /\ health' = record
    /\ last' = result
    /\ pc' = "top"
    /\ UNCHANGED <<world, readerState, link, deceived, rest>>

InventoryValid ==
    /\ Replies
    /\ Inventory("VALID", MarkInventorySuccess(health))
    /\ streak' = 0

InventoryNoResponse ==
    /\ Silent
    /\ Inventory("NO_RESPONSE", MarkInventoryNoResponse(health))
    /\ streak' = UpTo(streak, Threshold)

InventoryMalformed ==
    /\ Garbled
    /\ Inventory("MALFORMED", MarkInventoryMalformed(health))
    /\ UNCHANGED streak

\* The handle raises: it is closed, the reader is DISCONNECTED.
InventoryRaises ==
    /\ Scanning
    /\ Raises
    /\ Abandon("DISCONNECTED")
    /\ UNCHANGED mode

Inventories == InventoryValid \/ InventoryNoResponse \/ InventoryMalformed \/ InventoryRaises
-----------------------------------------------------------------------------
(* The life of the process *)

Fresh ==
    /\ readerState' = "DISCONNECTED"
    /\ health' = FreshHealth
    /\ deceived' = FALSE
    /\ last' = "none"
    /\ streak' = 0

\* The flag is read at the top of the loop; finally closes the reader.
Shutdown ==
    /\ pc = "top"
    /\ restarts < MaxRestarts
    /\ restarts' = restarts + 1
    /\ pc' = "down"
    /\ Close
    /\ Fresh
    /\ UNCHANGED <<config, world>>

\* The process dies anywhere; the operating system closes its handles.
Crash ==
    /\ pc # "down"
    /\ restarts < MaxRestarts
    /\ restarts' = restarts + 1
    /\ pc' = "down"
    /\ handles' = 0
    /\ serial' = FALSE
    /\ stale' = FALSE
    /\ Fresh
    /\ UNCHANGED <<config, world>>

Start ==
    /\ pc = "down"
    /\ pc' = "top"
    /\ UNCHANGED <<world, readerState, link, health, conn, rest>>

AgentStep == Connecting \/ Inventories \/ Start

Next == AgentStep \/ World \/ Shutdown \/ Crash

Spec == Init /\ [][Next]_vars

\* The loop goes on, the service is started again, and a reader that is told to
\* change its mode again and again does so in the end.
FairSpec ==
    /\ Spec
    /\ WF_vars(AgentStep)
    /\ SF_vars(SetMode /\ mode' = "ANSWER")
-----------------------------------------------------------------------------
(* Properties *)

PCs == {"down", "top", "resolve", "open", "scan"} \cup Commands

ReaderStates == {"DISCONNECTED", "CONNECTING", "CONFIG_ERROR", "READY"}

\* Type invariant.
TypeOK ==
    /\ config \in Configs
    /\ {plugged, powered, disturbed, serial, stale, deceived} \subseteq BOOLEAN
    /\ mode \in Modes
    /\ pc \in PCs
    /\ readerState \in ReaderStates
    /\ handles \in 0 .. MaxHandles
    /\ health \in Health
    /\ last \in Results
    /\ streak \in 0 .. Threshold
    /\ restarts \in 0 .. MaxRestarts

\* The agent holds the one handle it uses, and between iterations holds it
\* exactly while the reader is READY: no failure path leaks a handle, none
\* keeps a dead one for the next connection.
HandleDiscipline ==
    /\ handles = IF serial THEN 1 ELSE 0
    /\ pc = "top" => (serial <=> readerState = "READY")
    /\ pc = "down" => handles = 0

\* An inventory command only reaches a reader in ANSWER mode, whatever was
\* unplugged, exchanged or disturbed since the connection.  ("... and only
\* resumes inventory when the reader is in Answer Mode", README.md.)  It holds
\* of readers that keep their mode without power, unless the mode in a reply was
\* disturbed.
ScanInAnswerMode == Scanning /\ ~stale /\ powered /\ ~deceived => mode = "ANSWER"

\* Unless it may configure the reader, the agent never changes its mode.
ModeLeftAlone ==
    [][mode' # mode => config.autoConfigure \/ ~plugged \/ ~powered]_vars

\* What a heartbeat says of the reader, from what really happened.
Verdict ==
    IF readerState = "READY"
    THEN CASE last = "VALID"       -> "HEALTHY"
           [] last = "NO_RESPONSE" -> IF streak >= Threshold THEN "OFFLINE" ELSE "DEGRADED"
           [] OTHER                -> "DEGRADED"
    ELSE "OFFLINE"

\* Between iterations, when heartbeats are sent, the health record is what the
\* history says.  Flags, status and both errors are those of the last thing
\* that came of the reader: no error of an earlier connection or inventory
\* survives, and none is lost.  The count of silences is that since the last
\* VALID inventory of the process, as mark_inventory_success alone resets it: a
\* connection does not, so that the first silence of a new one may be reported
\* as OFFLINE.  (malformed_response_count, which nothing resets, and the error
\* CLOUD_DELIVERY_FAILED, which shares last_error, are left out.)
HealthTruth ==
    pc = "top" =>
        /\ health.status = Verdict
        /\ health.connected = (readerState = "READY")
        /\ health.responding = (readerState = "READY" /\ last = "VALID")
        /\ health.silences = streak
        /\ health.readerError = IF last = "VALID" THEN "none" ELSE last
        /\ health.error = IF readerState = "READY" THEN "none" ELSE last

\* What the heartbeat shows of the reader (ReaderService), from every command.
Service == INSTANCE ReaderService WITH
            reader     <- readerState,
            report     <- Report(health),
            unanswered <- streak

Serves == Service!Spec

\* The reader is there, answers, and is in the mode or may be put into it.
Good == plugged /\ powered /\ ~disturbed /\ (mode = "ANSWER" \/ config.autoConfigure)

\* Once the reader is and stays good, the agent reads it again without help.
Recovers == <>[]Good => <>[](pc # "down" => readerState = "READY" /\ health.status = "HEALTHY")
-----------------------------------------------------------------------------
(* What README.md says of communication loss, and the code does not keep. *)

\* "During reader communication loss, the agent closes the stale serial handle":
\* a reader the agent itself reports OFFLINE is not held open.
StaleHandleClosed == pc = "top" /\ health.status = "OFFLINE" => ~serial
=============================================================================
