--------------------------- MODULE ReaderLinkProofs ---------------------------
(***************************************************************************)
(* Theorems about ReaderLink, for every threshold, configuration and       *)
(* number of restarts.                                                     *)
(***************************************************************************)
EXTENDS ReaderLink, TLAPS

\* Where the handle is open, and that it is stale once its adapter was gone.
Held ==
    /\ handles = IF serial THEN 1 ELSE 0
    /\ stale => serial
    /\ serial /\ ~plugged => stale
    /\ pc \in {"down", "resolve", "open"} => ~serial
    /\ pc \in Commands \cup {"scan"} => serial
    /\ pc = "top" => (serial <=> readerState = "READY")
    /\ pc = "scan" => readerState = "READY"

\* A mode is set only with permission.
Permitted == pc \in {"setMode", "recheck"} => config.autoConfigure

\* The counter of the health record is the history's, a new process knows
\* nothing, and a connection begins without an error.
Recorded ==
    /\ health.silences = streak
    /\ pc = "down" => readerState = "DISCONNECTED" /\ last = "none" /\ health = FreshHealth
    /\ pc = "scan" => health.error = "none"
    /\ HealthTruth

\* What get_work_mode found stays true for as long as the handle lives.
ModeKnown ==
    ModeSurvives /\ Scanning /\ ~stale /\ ~deceived => mode = "ANSWER"

IInv ==
    /\ TypeOK
    /\ Held
    /\ Permitted
    /\ Recorded
    /\ ModeKnown
-----------------------------------------------------------------------------
LEMMA InitIInv == Init => IInv
  <1> SUFFICES ASSUME Init PROVE IInv
    OBVIOUS
  <1>1. TypeOK
    <2>1. {plugged, powered, disturbed, serial, stale, deceived} \subseteq BOOLEAN
      BY Zenon DEF Init
    <2>2. config \in Configs /\ mode \in Modes
      BY Zenon DEF Init
    <2>3. /\ pc \in PCs /\ readerState \in ReaderStates /\ last \in Results
          /\ handles \in 0 .. MaxHandles /\ streak \in 0 .. Threshold
          /\ restarts \in 0 .. MaxRestarts
      BY LinkAssumption, HealthAssumption DEF Init, PCs, ReaderStates, Results
    <2>4. health \in Health
      BY HealthAssumption DEF Init, Health, FreshHealth, Statuses, Errors, ReaderErrors
    <2> QED BY <2>1, <2>2, <2>3, <2>4 DEF TypeOK
  <1>2. Held /\ Permitted
    BY DEF Init, Held, Permitted, Commands
  <1>3. Recorded
    BY DEF Init, Recorded, HealthTruth, Verdict, FreshHealth
  <1>4. ModeKnown
    BY DEF Init, ModeKnown, Scanning
  <1> QED BY <1>1, <1>2, <1>3, <1>4 DEF IInv
-----------------------------------------------------------------------------
(* The health record. *)

LEMMA HealthType ==
    ASSUME NEW h \in Health
    PROVE  /\ FreshHealth \in Health
           /\ MarkReconnectAttempt(h) \in Health
           /\ ClearError(MarkReaderReady(h)) \in Health
           /\ MarkInventorySuccess(h) \in Health
           /\ MarkInventoryNoResponse(h) \in Health
           /\ MarkInventoryMalformed(h) \in Health
           /\ \A kind \in Failures : MarkReaderOffline(MarkError(h, kind), kind) \in Health
  <1> USE DEF Health, Statuses, Errors, ReaderErrors, Failures
  <1>0. 0 \in 0 .. Threshold /\ 0 \in 0 .. MalformedCap
    BY HealthAssumption
  <1>1. FreshHealth \in Health /\ MarkReconnectAttempt(h) \in Health
    <2>1. FreshHealth \in Health
      BY <1>0 DEF FreshHealth
    <2>2. MarkReconnectAttempt(h) \in Health
      BY DEF MarkReconnectAttempt
    <2> QED BY <2>1, <2>2
  <1>2. ClearError(MarkReaderReady(h)) \in Health
    BY DEF ClearError, MarkReaderReady
  <1>3. UpTo(h.silences, Threshold) \in 0 .. Threshold
    BY HealthAssumption DEF UpTo
  <1>4. UpTo(h.malformed, MalformedCap) \in 0 .. MalformedCap
    BY HealthAssumption DEF UpTo
  <1>5. MarkInventorySuccess(h) \in Health
    BY <1>0 DEF MarkInventorySuccess
  <1>6. MarkInventoryNoResponse(h) \in Health
    BY <1>3 DEF MarkInventoryNoResponse
  <1>7. MarkInventoryMalformed(h) \in Health
    BY <1>4 DEF MarkInventoryMalformed
  <1>8. \A kind \in Failures : MarkReaderOffline(MarkError(h, kind), kind) \in Health
    BY DEF MarkReaderOffline, MarkError
  <1> HIDE DEF Health
  <1> QED BY <1>1, <1>2, <1>5, <1>6, <1>7, <1>8

LEMMA StepHeld == IInv /\ [Next]_vars => Held'
  <1> SUFFICES ASSUME IInv, [Next]_vars PROVE Held'
    OBVIOUS
  <1> USE DEF IInv, Held, TypeOK, Commands, world, link, conn, rest
  <1>1. CASE World
    BY <1>1 DEF World, Unplug, Plug, PowerOff, PowerOn, Disturb, AgentUnchanged
  <1>2. CASE \/ Connect \/ ResolvePort \/ Open \/ Verify \/ VerifyAgain \/ ModeIsAnswer
             \/ ConfigureMode \/ SetMode \/ RecheckIsAnswer \/ Start
    BY <1>2 DEF Connect, ResolvePort, Open, Verify, VerifyAgain, ModeIsAnswer, ConfigureMode, SetMode,
                RecheckIsAnswer, Start, Ready, NotAnswer, NoProperReply, Recorded
  <1>3. CASE ResolveNone
    BY <1>3 DEF ResolveNone, Unavailable
  <1>4. CASE \/ OpenRaises \/ CommandRaises \/ VerifyFails \/ ModeNotConfigurable
             \/ SetModeFails \/ RecheckFails \/ InventoryRaises
    BY <1>4 DEF OpenRaises, CommandRaises, VerifyFails, ModeNotConfigurable, SetModeFails,
                RecheckFails, InventoryRaises, Abandon, Unavailable, Close
  <1>5. CASE InventoryValid \/ InventoryNoResponse \/ InventoryMalformed
    BY <1>5 DEF InventoryValid, InventoryNoResponse, InventoryMalformed, Inventory, Scanning
  <1>6. CASE Shutdown \/ Crash
    BY <1>6 DEF Shutdown, Crash, Close, Fresh
  <1>7. CASE UNCHANGED vars
    BY <1>7 DEF vars
  <1> QED BY <1>1, <1>2, <1>3, <1>4, <1>5, <1>6, <1>7 DEF Next, AgentStep, Connecting, Inventories

LEMMA StepPermitted == IInv /\ [Next]_vars => Permitted'
  <1> SUFFICES ASSUME IInv, [Next]_vars PROVE Permitted'
    OBVIOUS
  <1> USE DEF IInv, Permitted, world, link, conn, rest
  <1>1. CASE World
    BY <1>1 DEF World, Unplug, Plug, PowerOff, PowerOn, Disturb, AgentUnchanged
  <1>2. CASE Connecting \/ Start
    BY <1>2 DEF Connecting, Start, Connect, ResolveNone, ResolvePort, Open, OpenRaises,
        CommandRaises, Verify, VerifyAgain, VerifyFails, ModeIsAnswer, ConfigureMode,
        ModeNotConfigurable, SetMode, SetModeFails, RecheckIsAnswer, RecheckFails,
        Ready, NotAnswer, NoProperReply, Abandon, Unavailable, Close, Commands
  <1>3. CASE Inventories
    BY <1>3 DEF Inventories, InventoryValid, InventoryNoResponse, InventoryMalformed,
        InventoryRaises, Inventory, Abandon, Unavailable
  <1>4. CASE Shutdown \/ Crash
    BY <1>4 DEF Shutdown, Crash
  <1>5. CASE UNCHANGED vars
    BY <1>5 DEF vars
  <1> QED BY <1>1, <1>2, <1>3, <1>4, <1>5 DEF Next, AgentStep

LEMMA StepModeKnown == IInv /\ [Next]_vars => ModeKnown'
  <1> SUFFICES ASSUME IInv, [Next]_vars PROVE ModeKnown'
    OBVIOUS
  <1> USE DEF IInv, Held, ModeKnown, Scanning, world, link, conn, rest
  <1>1. CASE World
    BY <1>1 DEF World, Unplug, Plug, PowerOff, PowerOn, Disturb, AgentUnchanged
  <1>2. CASE ModeIsAnswer \/ RecheckIsAnswer
    BY <1>2 DEF ModeIsAnswer, RecheckIsAnswer, Ready
  <1>3. CASE Connect \/ ResolvePort \/ Open \/ Verify \/ VerifyAgain \/ ConfigureMode \/ SetMode \/ Start
    BY <1>3 DEF Connect, ResolvePort, Open, Verify, VerifyAgain, ConfigureMode, SetMode, Start,
        NotAnswer, NoProperReply, Commands, Recorded
  <1>4. CASE ResolveNone
    BY <1>4 DEF ResolveNone, Unavailable
  <1>5. CASE OpenRaises \/ CommandRaises \/ VerifyFails \/ ModeNotConfigurable
             \/ SetModeFails \/ RecheckFails \/ InventoryRaises
    BY <1>5 DEF OpenRaises, CommandRaises, VerifyFails, ModeNotConfigurable, SetModeFails,
        RecheckFails, InventoryRaises, Abandon, Unavailable
  <1>6. CASE InventoryValid \/ InventoryNoResponse \/ InventoryMalformed
    BY <1>6 DEF InventoryValid, InventoryNoResponse, InventoryMalformed, Inventory
  <1>7. CASE Shutdown \/ Crash
    BY <1>7 DEF Shutdown, Crash
  <1>8. CASE UNCHANGED vars
    BY <1>8 DEF vars
  <1> QED BY <1>1, <1>2, <1>3, <1>4, <1>5, <1>6, <1>7, <1>8
          DEF Next, AgentStep, Connecting, Inventories

LEMMA StepRecorded == IInv /\ [Next]_vars => Recorded'
  <1> SUFFICES ASSUME IInv, [Next]_vars PROVE Recorded'
    OBVIOUS
  <1> USE DEF IInv, Recorded, world, link, conn, rest
  <1>1. CASE World
    BY <1>1 DEF World, Unplug, Plug, PowerOff, PowerOn, Disturb, AgentUnchanged,
        HealthTruth, Verdict
  <1>2. CASE Connect
    BY <1>2 DEF Connect, MarkReconnectAttempt, HealthTruth
  <1>3. CASE ResolvePort \/ Open \/ Verify \/ VerifyAgain \/ ConfigureMode \/ SetMode
    BY <1>3 DEF ResolvePort, Open, Verify, VerifyAgain, ConfigureMode, SetMode, HealthTruth
  <1>4. CASE ModeIsAnswer \/ RecheckIsAnswer
    <2>1. pc' = "scan" /\ streak' = streak /\ health' = ClearError(MarkReaderReady(health))
      BY <1>4 DEF ModeIsAnswer, RecheckIsAnswer, Ready
    <2>2. health'.silences = health.silences /\ health'.error = "none"
      BY <2>1 DEF ClearError, MarkReaderReady, TypeOK, Health
    <2> QED BY <2>1, <2>2 DEF HealthTruth
  <1>5. ASSUME NEW state \in {"DISCONNECTED", "CONFIG_ERROR"}, Unavailable(state)
        PROVE  Recorded'
    <2>1. /\ pc' = "top" /\ readerState' = state /\ streak' = streak
          /\ last' = Failure(state)
          /\ health' = MarkReaderOffline(MarkError(health, Failure(state)), Failure(state))
      BY <1>5 DEF Unavailable
    <2>2. /\ health'.silences = health.silences
          /\ health'.error = Failure(state) /\ health'.readerError = Failure(state)
          /\ health'.status = "OFFLINE"
          /\ health'.connected = FALSE /\ health'.responding = FALSE
      BY <2>1 DEF MarkReaderOffline, MarkError, TypeOK, Health
    <2>3. health'.silences = streak'
      BY <2>1, <2>2
    <2>4. readerState' # "READY" /\ last' # "VALID"
      BY <2>1 DEF Failure
    <2>5. Verdict' = "OFFLINE"
      BY <2>4 DEF Verdict
    <2>6. HealthTruth'
      BY <2>1, <2>2, <2>3, <2>4, <2>5 DEF HealthTruth
    <2> QED BY <2>1, <2>3, <2>6
  <1>6. CASE ResolveNone \/ OpenRaises \/ CommandRaises \/ VerifyFails
             \/ ModeNotConfigurable \/ SetModeFails \/ RecheckFails \/ InventoryRaises
    BY <1>5, <1>6 DEF ResolveNone, OpenRaises, CommandRaises, VerifyFails,
        ModeNotConfigurable, SetModeFails, RecheckFails, InventoryRaises, Abandon
  <1>7. CASE InventoryValid \/ InventoryNoResponse \/ InventoryMalformed
    <2>1. /\ pc' = "top" /\ readerState' = "READY" /\ health.error = "none"
      BY <1>7 DEF InventoryValid, InventoryNoResponse, InventoryMalformed, Inventory,
          Scanning, HealthTruth, Held, FreshHealth
    <2>2. CASE InventoryValid
      BY <2>1, <2>2 DEF InventoryValid, Inventory, MarkInventorySuccess, HealthTruth,
          Verdict, TypeOK, Health
    <2>3. CASE InventoryNoResponse
      BY <2>1, <2>3 DEF InventoryNoResponse, Inventory, MarkInventoryNoResponse,
          HealthTruth, Verdict, TypeOK, Health
    <2>4. CASE InventoryMalformed
      BY <2>1, <2>4 DEF InventoryMalformed, Inventory, MarkInventoryMalformed,
          HealthTruth, Verdict, TypeOK, Health
    <2> QED BY <1>7, <2>2, <2>3, <2>4
  <1>8. CASE Shutdown \/ Crash
    BY <1>8 DEF Shutdown, Crash, Fresh, FreshHealth, HealthTruth
  <1>9. CASE Start
    <2>1. /\ readerState' # "READY" /\ health' = FreshHealth
          /\ pc' # "down" /\ pc' # "scan" /\ streak' = health'.silences /\ last' = "none"
      BY <1>9 DEF Start
    <2>2. Verdict' = "OFFLINE"
      BY <2>1 DEF Verdict
    <2>3. /\ health'.status = "OFFLINE" /\ health'.error = "none"
          /\ health'.readerError = "none"
          /\ health'.connected = FALSE /\ health'.responding = FALSE
      BY <2>1 DEF FreshHealth
    <2>4. HealthTruth'
      BY <2>1, <2>2, <2>3, Zenon DEF HealthTruth
    <2> QED BY <2>1, <2>4
  <1>10. CASE UNCHANGED vars
    BY <1>10 DEF vars, HealthTruth, Verdict
  <1> QED BY <1>1, <1>2, <1>3, <1>4, <1>6, <1>7, <1>8, <1>9, <1>10
          DEF Next, AgentStep, Connecting, Inventories

LEMMA StepTypeOK == IInv /\ [Next]_vars => TypeOK'
  <1> SUFFICES ASSUME IInv, [Next]_vars PROVE TypeOK'
    OBVIOUS
  <1> USE DEF IInv, TypeOK, Commands, world, link, conn, rest, PCs, ReaderStates, Modes, Results,
             Failures, Failure
  <1>1. CASE World
    <2>1. /\ UNCHANGED <<pc, readerState, handles, health, last, streak, config, restarts>>
          /\ mode' \in Modes
      BY <1>1 DEF World, Unplug, Plug, PowerOff, PowerOn, Disturb, AgentUnchanged
    <2>2. {plugged, powered, disturbed, serial, stale, deceived}' \subseteq BOOLEAN
      BY <1>1 DEF World, Unplug, Plug, PowerOff, PowerOn, Disturb, AgentUnchanged
    <2> QED BY <2>1, <2>2
  <1>2. CASE Connect
    BY <1>2, HealthType DEF Connect
  <1>3. CASE ResolvePort
    BY <1>3 DEF ResolvePort
  <1>4. CASE Open
    BY <1>4, LinkAssumption DEF Open
  <1>5. CASE Verify \/ VerifyAgain \/ ConfigureMode \/ SetMode \/ Start
    BY <1>5 DEF Verify, VerifyAgain, ConfigureMode, SetMode, Start
  <1>6. CASE ModeIsAnswer \/ RecheckIsAnswer
    BY <1>6, HealthType DEF ModeIsAnswer, RecheckIsAnswer, Ready
  <1>7. CASE ResolveNone
    BY <1>7, HealthType DEF ResolveNone, Unavailable
  <1>8. ASSUME NEW state \in {"DISCONNECTED", "CONFIG_ERROR"}, Abandon(state), mode' \in Modes
        PROVE  TypeOK'
    <2>1. handles' = 0 /\ serial' = FALSE /\ stale' = FALSE
      BY <1>8, LinkAssumption DEF Abandon, Close, Held
    <2>2. health' \in Health
      BY <1>8, HealthType DEF Abandon, Unavailable
    <2>3. /\ readerState' = state /\ pc' = "top" /\ last' = Failure(state) /\ deceived' = FALSE
          /\ UNCHANGED <<plugged, powered, disturbed, streak, config, restarts>>
      BY <1>8 DEF Abandon, Unavailable
    <2>4. {plugged, powered, disturbed, serial, stale, deceived}' \subseteq BOOLEAN
      BY <2>1, <2>3
    <2>5. handles' \in 0 .. MaxHandles
      BY <2>1, LinkAssumption
    <2> QED BY <1>8, <2>2, <2>3, <2>4, <2>5
  <1>9. CASE OpenRaises \/ CommandRaises \/ VerifyFails \/ ModeNotConfigurable
             \/ SetModeFails \/ RecheckFails \/ InventoryRaises
    BY <1>8, <1>9 DEF OpenRaises, CommandRaises, VerifyFails, ModeNotConfigurable,
        SetModeFails, RecheckFails, InventoryRaises
  <1>10. CASE InventoryValid \/ InventoryNoResponse \/ InventoryMalformed
    <2>1. 0 \in 0 .. Threshold /\ UpTo(streak, Threshold) \in 0 .. Threshold
      BY HealthAssumption DEF UpTo
    <2> QED BY <1>10, <2>1, HealthType
            DEF InventoryValid, InventoryNoResponse, InventoryMalformed, Inventory
  <1>11. CASE Shutdown \/ Crash
    <2>1. restarts' \in 0 .. MaxRestarts /\ 0 \in 0 .. Threshold
      BY <1>11, LinkAssumption, HealthAssumption DEF Shutdown, Crash
    <2>2. handles' \in 0 .. MaxHandles /\ serial' = FALSE /\ stale' = FALSE
      BY <1>11, LinkAssumption DEF Shutdown, Crash, Close, Held
    <2> QED BY <1>11, <2>1, <2>2, HealthType DEF Shutdown, Crash, Fresh
  <1>12. CASE UNCHANGED vars
    BY <1>12 DEF vars
  <1> QED BY <1>1, <1>2, <1>3, <1>4, <1>5, <1>6, <1>7, <1>9, <1>10, <1>11, <1>12
          DEF Next, AgentStep, Connecting, Inventories
-----------------------------------------------------------------------------
\* The inductive invariant holds in every reachable state.
THEOREM Invariance == Spec => []IInv
  <1>1. IInv /\ [Next]_vars => IInv'
    BY StepTypeOK, StepHeld, StepPermitted, StepRecorded, StepModeKnown DEF IInv
  <1> QED BY <1>1, InitIInv, PTL DEF Spec

\* Types of the link, the health record and the bounds.
THEOREM TypeCorrect == Spec => []TypeOK
  <1>1. IInv => TypeOK
    BY DEF IInv
  <1> QED BY <1>1, Invariance, PTL

\* No path through connect_and_verify_reader, read_inventory_events or finally
\* leaves a handle behind, and READY always has one.
THEOREM NoHandleLeaks == Spec => []HandleDiscipline
  <1>1. IInv => HandleDiscipline
    BY DEF IInv, Held, HandleDiscipline
  <1> QED BY <1>1, Invariance, PTL

\* If a reader keeps its mode without power, read_inventory_events only ever
\* reaches one that is in ANSWER mode.
THEOREM OnlyScansInAnswerMode == ModeSurvives => (Spec => []ScanInAnswerMode)
  <1> SUFFICES ASSUME ModeSurvives PROVE Spec => []ScanInAnswerMode
    OBVIOUS
  <1>1. IInv => ScanInAnswerMode
    BY DEF IInv, ModeKnown, ScanInAnswerMode
  <1> QED BY <1>1, Invariance, PTL

\* With AUTO_CONFIGURE_READER off no step of the agent changes a reader's mode.
THEOREM NeverConfiguresUnasked == Spec => ModeLeftAlone
  <1>1. IInv /\ [Next]_vars =>
          [mode' # mode => config.autoConfigure \/ ~plugged \/ ~powered]_vars
    <2> SUFFICES ASSUME IInv, Next, mode' # mode, plugged, powered
                 PROVE  config.autoConfigure
      BY DEF vars
    <2> USE DEF IInv, Permitted, world, link
    <2>1. CASE World
      BY <2>1 DEF World, Unplug, Plug, PowerOff, PowerOn, Disturb
    <2>2. CASE Connecting \/ Start
      BY <2>2 DEF Connecting, Start, Connect, ResolveNone, ResolvePort, Open, OpenRaises,
          CommandRaises, Verify, VerifyAgain, VerifyFails, ModeIsAnswer, ConfigureMode,
          ModeNotConfigurable, SetMode, SetModeFails, RecheckIsAnswer, RecheckFails,
          Ready, NoProperReply
    <2>3. CASE Inventories
      BY <2>3 DEF Inventories, InventoryValid, InventoryNoResponse, InventoryMalformed,
          InventoryRaises, Inventory
    <2>4. CASE Shutdown \/ Crash
      BY <2>4 DEF Shutdown, Crash
    <2> QED BY <2>1, <2>2, <2>3, <2>4 DEF Next, AgentStep
  <1> QED BY <1>1, Invariance, PTL DEF Spec, ModeLeftAlone

\* Whenever a heartbeat may be sent, the health record is what happened.
THEOREM HealthIsTrue == Spec => []HealthTruth
  <1>1. IInv => HealthTruth
    BY DEF IInv, Recorded
  <1> QED BY <1>1, Invariance, PTL
-----------------------------------------------------------------------------
(* The refinement of ReaderService *)

\* During an attempt to connect the record says so.
Trying ==
    pc \in {"resolve", "open"} \cup Commands =>
        readerState = "CONNECTING" /\ health.status = "RECONNECTING" /\ health.responding = FALSE

LEMMA StepTrying == ASSUME TypeOK, Trying, [Next]_vars PROVE Trying'
  <1> USE DEF Trying, Commands, world, link, conn, rest
  <1>1. CASE World
    BY <1>1 DEF World, Unplug, Plug, PowerOff, PowerOn, Disturb, AgentUnchanged
  <1>2. CASE Connect
    BY <1>2 DEF Connect, MarkReconnectAttempt, TypeOK, Health
  <1>3. CASE \/ ResolvePort \/ Open \/ Verify \/ VerifyAgain \/ ConfigureMode \/ SetMode
             \/ ModeIsAnswer \/ RecheckIsAnswer \/ Start
    BY <1>3 DEF ResolvePort, Open, Verify, VerifyAgain, ConfigureMode, SetMode, ModeIsAnswer,
                RecheckIsAnswer, Start, Ready, NotAnswer, NoProperReply
  <1>4. CASE ResolveNone \/ OpenRaises \/ CommandRaises \/ VerifyFails
             \/ ModeNotConfigurable \/ SetModeFails \/ RecheckFails \/ InventoryRaises
    BY <1>4 DEF ResolveNone, OpenRaises, CommandRaises, VerifyFails, ModeNotConfigurable,
                SetModeFails, RecheckFails, InventoryRaises, Abandon, Unavailable
  <1>5. CASE InventoryValid \/ InventoryNoResponse \/ InventoryMalformed
    BY <1>5 DEF InventoryValid, InventoryNoResponse, InventoryMalformed, Inventory
  <1>6. CASE Shutdown \/ Crash \/ UNCHANGED vars
    BY <1>6 DEF Shutdown, Crash, vars
  <1> QED BY <1>1, <1>2, <1>3, <1>4, <1>5, <1>6 DEF Next, AgentStep, Connecting, Inventories

\* What a heartbeat says after each operation on the record.
LEMMA Reports ==
    ASSUME NEW h \in Health
    PROVE  /\ Report(FreshHealth) = Service!Says("DISCONNECTED", "OFFLINE", "none")
           /\ Report(MarkReconnectAttempt(h)) = Service!Says("CONNECTING", "RECONNECTING", h.error)
           /\ h.status = "RECONNECTING" /\ h.responding = FALSE =>
                Report(ClearError(MarkReaderReady(h))) = Service!Says("READY", "DEGRADED", "none")
           /\ \A kind \in Failures, state \in ReaderStates \ {"READY"} :
                Report(MarkReaderOffline(MarkError(h, kind), kind)) = Service!Says(state, "OFFLINE", kind)
           /\ Report(MarkInventorySuccess(h)) = Service!Says("READY", "HEALTHY", h.error)
           /\ Report(MarkInventoryNoResponse(h)) =
                Service!Says("READY", IF UpTo(h.silences, Threshold) >= Threshold
                                      THEN "OFFLINE" ELSE "DEGRADED", h.error)
           /\ Report(MarkInventoryMalformed(h)) = Service!Says("READY", "DEGRADED", h.error)
  <1> USE DEF Report, Service!Says
  <1>1. Report(FreshHealth) = Service!Says("DISCONNECTED", "OFFLINE", "none")
    BY DEF FreshHealth
  <1>2. Report(MarkReconnectAttempt(h)) = Service!Says("CONNECTING", "RECONNECTING", h.error)
    BY DEF MarkReconnectAttempt, Health
  <1>3. ASSUME h.status = "RECONNECTING", h.responding = FALSE
        PROVE  Report(ClearError(MarkReaderReady(h))) = Service!Says("READY", "DEGRADED", "none")
    BY <1>3 DEF ClearError, MarkReaderReady, Health
  <1>4. ASSUME NEW kind \in Failures, NEW state \in ReaderStates \ {"READY"}
        PROVE  Report(MarkReaderOffline(MarkError(h, kind), kind)) = Service!Says(state, "OFFLINE", kind)
    BY <1>4 DEF MarkReaderOffline, MarkError, Health
  <1>5. Report(MarkInventorySuccess(h)) = Service!Says("READY", "HEALTHY", h.error)
    BY DEF MarkInventorySuccess, Health
  <1>6. Report(MarkInventoryNoResponse(h)) =
            Service!Says("READY", IF UpTo(h.silences, Threshold) >= Threshold
                                  THEN "OFFLINE" ELSE "DEGRADED", h.error)
    BY DEF MarkInventoryNoResponse, Health
  <1>7. Report(MarkInventoryMalformed(h)) = Service!Says("READY", "DEGRADED", h.error)
    BY DEF MarkInventoryMalformed, Health
  <1> QED BY <1>1, <1>2, <1>3, <1>4, <1>5, <1>6, <1>7

\* Each step of the link is a step of the service, or shows nothing of itself.
LEMMA StepServes == ASSUME IInv, Trying, [Next]_vars PROVE [Service!Next]_(Service!vars)
  <1> USE DEF world, link, conn, rest, Service!Moves
  <1>0. health \in Health /\ streak \in 0 .. Threshold /\ health.silences = streak
    BY DEF IInv, TypeOK, Recorded
  <1>e. Report(health).error = health.error
    BY DEF Report
  <1>1. CASE World
    BY <1>1 DEF World, Unplug, Plug, PowerOff, PowerOn, Disturb, AgentUnchanged, Service!vars
  <1>2. CASE Connect
    <2>1. readerState # "READY" /\ readerState' = "CONNECTING" /\ streak' = streak
          /\ Report(health)' = Service!Says("CONNECTING", "RECONNECTING", health.error)
      BY <1>0, <1>2, Reports DEF Connect
    <2> QED BY <1>e, <2>1 DEF Service!Next, Service!Try
  <1>3. CASE ResolvePort \/ Open \/ Verify \/ VerifyAgain \/ ConfigureMode \/ SetMode \/ Start
    BY <1>3 DEF ResolvePort, Open, Verify, VerifyAgain, ConfigureMode, SetMode, Start, Service!vars
  <1>4. CASE ModeIsAnswer \/ RecheckIsAnswer
    <2>1. readerState = "CONNECTING" /\ readerState' = "READY" /\ streak' = streak
          /\ health' = ClearError(MarkReaderReady(health))
          /\ health.status = "RECONNECTING" /\ health.responding = FALSE
      BY <1>4 DEF ModeIsAnswer, RecheckIsAnswer, Ready, Trying, Commands
    <2>2. Report(health)' = Service!Says("READY", "DEGRADED", "none")
      BY <1>0, <2>1, Reports
    <2> QED BY <2>1, <2>2 DEF Service!Next, Service!Succeed
  <1>5. ASSUME NEW state \in {"DISCONNECTED", "CONFIG_ERROR"}, Unavailable(state),
               readerState = "CONNECTING" \/ (readerState = "READY" /\ state = "DISCONNECTED")
        PROVE  Service!Fail
    <2> DEFINE kind == Failure(state)
    <2>1. kind \in Failures /\ state \in ReaderStates \ {"READY"}
      BY DEF Failures, Failure, ReaderStates
    <2>2. readerState' = state /\ streak' = streak
          /\ Report(health)' = Service!Says(state, "OFFLINE", kind)
      BY <1>0, <1>5, <2>1, Reports DEF Unavailable
    <2> QED BY <1>5, <2>2 DEF Service!Fail, Failure
  <1>6. CASE ResolveNone \/ OpenRaises \/ CommandRaises \/ VerifyFails
             \/ ModeNotConfigurable \/ SetModeFails \/ RecheckFails
    <2>1. readerState = "CONNECTING"
      BY <1>6 DEF ResolveNone, OpenRaises, CommandRaises, VerifyFails, ModeNotConfigurable,
                  SetModeFails, RecheckFails, NotAnswer, NoProperReply, Trying, Commands
    <2>2. Unavailable("DISCONNECTED") \/ Unavailable("CONFIG_ERROR")
      BY <1>6 DEF ResolveNone, OpenRaises, CommandRaises, VerifyFails, ModeNotConfigurable,
                  SetModeFails, RecheckFails, Abandon
    <2> QED BY <1>5, <2>1, <2>2 DEF Service!Next
  <1>7. CASE InventoryRaises
    <2>1. readerState = "READY"
      BY <1>7 DEF InventoryRaises, Scanning, IInv, Held
    <2> QED BY <1>5, <1>7, <2>1 DEF InventoryRaises, Abandon, Service!Next
  <1>8. ASSUME InventoryValid \/ InventoryNoResponse \/ InventoryMalformed
        PROVE  readerState = "READY" /\ readerState' = "READY"
    BY <1>8 DEF InventoryValid, InventoryNoResponse, InventoryMalformed, Inventory,
                Scanning, IInv, Held
  <1>9. CASE InventoryValid
    BY <1>0, <1>e, <1>8, <1>9, Reports DEF InventoryValid, Inventory, Service!Next, Service!Answered
  <1>10. CASE InventoryNoResponse
    <2>1. streak' = (IF streak < Threshold THEN streak + 1 ELSE streak)
          /\ UpTo(health.silences, Threshold) = streak'
      BY <1>0, <1>10 DEF InventoryNoResponse, UpTo
    <2>2. streak' >= Threshold <=> streak' = Threshold
      BY <1>0, <2>1, HealthAssumption
    <2>3. Report(health)' = Service!Says("READY", IF streak' = Threshold
                                                  THEN "OFFLINE" ELSE "DEGRADED", health.error)
      BY <1>0, <1>10, <2>1, <2>2, Reports DEF InventoryNoResponse, Inventory
    <2> QED BY <1>e, <1>8, <1>10, <2>1, <2>3 DEF Service!Next, Service!Unanswered
  <1>11. CASE InventoryMalformed
    BY <1>0, <1>e, <1>8, <1>11, Reports
       DEF InventoryMalformed, Inventory, Service!Next, Service!AnsweredBadly
  <1>12. CASE Shutdown \/ Crash
    BY <1>0, <1>12, Reports DEF Shutdown, Crash, Fresh, Service!Next, Service!Restart
  <1>13. CASE UNCHANGED vars
    BY <1>13 DEF vars, Service!vars
  <1> QED BY <1>1, <1>2, <1>3, <1>4, <1>6, <1>7, <1>9, <1>10, <1>11, <1>12, <1>13
          DEF Next, AgentStep, Connecting, Inventories

\* Whatever happens to the reader between two commands, connect_and_verify_reader
\* and read_inventory_events keep the record to what ReaderService says of it.
THEOREM LinkServes == Spec => Serves
  <1>1. Init => Trying
    BY DEF Init, Trying, Commands
  <1>2. Init => Service!Init
    BY InitIInv, Reports DEF Init, Service!Init, IInv, TypeOK
  <1>3. TypeOK /\ Trying /\ [Next]_vars => Trying'
    BY StepTrying
  <1>4. IInv /\ Trying /\ [Next]_vars => [Service!Next]_(Service!vars)
    BY StepServes
  <1> QED BY <1>1, <1>2, <1>3, <1>4, Invariance, TypeCorrect, PTL DEF Spec, Serves, Service!Spec
=============================================================================
