---------------------------- MODULE AgentInputs ----------------------------
(***************************************************************************)
(* What the agent takes in: its configuration, the replies of the reader   *)
(* and the state of the network.  None of the three reads what another     *)
(* changes, so each is taken alone, while the others stay as they were.    *)
(***************************************************************************)
EXTENDS ReaderFrames, AgentConfig, NetworkTelemetry

VARIABLE job   \* which of the three goes on

inputVars == <<job, configVars, frameVars, netVars>>

\* Those that do not go on start in one state of theirs.
Some(S) == CHOOSE x \in S : TRUE

NoStart     == setup = Some(Setups) /\ ConfigInit
NoScan      == field = Some(Fields) /\ mode = Some(Modes) /\ FrameInit
NoHeartbeat == network = Some(Networks) /\ NetInit

Init ==
    \/ job = "start" /\ ConfigInit /\ NoScan /\ NoHeartbeat
    \/ job = "scan" /\ FrameInit /\ NoStart /\ NoHeartbeat
    \/ job = "heartbeat" /\ NetInit /\ NoStart /\ NoScan

Start     == job = "start" /\ ConfigNext /\ UNCHANGED <<job, frameVars, netVars>>
Scan      == job = "scan" /\ FrameNext /\ UNCHANGED <<job, configVars, netVars>>
Heartbeat == job = "heartbeat" /\ NetNext /\ UNCHANGED <<job, configVars, frameVars>>

Next == Start \/ Scan \/ Heartbeat

Spec == Init /\ [][Next]_inputVars

\* The settings, the frames and the report are of their types.
TypeOK == ConfigTypeOK /\ FrameTypeOK /\ NetTypeOK
=============================================================================
