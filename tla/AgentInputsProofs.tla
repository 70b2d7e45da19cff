-------------------------- MODULE AgentInputsProofs --------------------------
(* Theorems about AgentConfig, for whatever is installed: an accepted         *)
(* configuration has one source, and what the loop is started with is usable; *)
(* and about AgentInputs, which the theorems on its three parts carry over to. *)
EXTENDS AgentInputs, ReaderFramesProofs, NetworkTelemetryProofs

-----------------------------------------------------------------------------
(* The configuration *)

\* The inductive invariant: a configuration is what from_env makes of the setup.
ConfigInv ==
    /\ setup \in Setups
    /\ config \in {NotLoaded, from_env}

\* from_env is the only thing a start does.
THEOREM Loading == ConfigSpec => []ConfigInv
<1>1. ConfigInit => ConfigInv
    BY DEF ConfigInit, ConfigInv
<1>2. ConfigInv /\ [ConfigNext]_configVars => ConfigInv'
    <2> SUFFICES ASSUME ConfigInv, [ConfigNext]_configVars
                 PROVE  ConfigInv'
        OBVIOUS
    <2> UNCHANGED setup
        BY DEF ConfigNext, LoadConfig, configVars
    <2>1. from_env' = from_env
        BY DEF from_env, Value, Text, Source, Selected, Runtime, Default, Meaning, Accepted
    <2> QED
        BY <2>1 DEF ConfigInv, ConfigNext, LoadConfig, configVars
<1> QED
    BY <1>1, <1>2, PTL DEF ConfigSpec

\* What an accepted configuration says of a setting.
LEMMA LoadedSettings ==
    ASSUME ConfigInv, config.status = "loaded", NEW s \in Settings
    PROVE  /\ From(s) = Source(s)
           /\ Given(s) = Meaning(s, Value(s))
           /\ Value(s) \in Accepted(s)
           /\ \A t, u \in USBIds : Meaning(t, Value(t)) = "none" <=> Meaning(u, Value(u)) = "none"
<1> DEFINE all == [t \in Settings |-> [from |-> Source(t), value |-> Meaning(t, Value(t))]]
<1>1. /\ config = [status |-> "loaded", settings |-> all]
      /\ \A t \in Settings : Value(t) \in Accepted(t)
      /\ \A t, u \in USBIds : Meaning(t, Value(t)) = "none" <=> Meaning(u, Value(u)) = "none"
    <2>1. config = from_env /\ from_env # [status |-> "refused"]
        BY DEF ConfigInv, NotLoaded
    <2> QED
        BY <2>1 DEF from_env
<1>2. config.settings[s] = [from |-> Source(s), value |-> Meaning(s, Value(s))]
    <2> HIDE DEF all
    <2>1. config.settings = all
        BY <1>1
    <2> QED
        BY <2>1 DEF all
<1> QED
    BY <1>1, <1>2 DEF From, Given

\* A setting comes from the selected file, or without it from where it may.
LEMMA SourceOf ==
    ASSUME setup \in Setups, NEW s \in Settings
    PROVE  /\ Source(s) \in Files => Source(s) = Selected /\ Selected \in setup.existing
                                     /\ s \in DOMAIN setup.content
           /\ Source(s) = "process" => Selected \notin setup.existing \/ s = "EDGE_DATA_DIR"
<1>1. Selected # "process"
    BY DEF Selected, Runtime, Setups
<1>2. CASE Selected \in setup.existing /\ s \in DOMAIN setup.content
    BY <1>1, <1>2 DEF Source
<1>3. CASE Selected \in setup.existing /\ s \notin DOMAIN setup.content /\ s # "EDGE_DATA_DIR"
    BY <1>3 DEF Source, Files
<1>4. CASE Selected \notin setup.existing \/ (s \notin DOMAIN setup.content /\ s = "EDGE_DATA_DIR")
    <2>1. Source(s) \in {"process", "code"}
        BY <1>4 DEF Source
    <2> QED
        BY <1>4, <2>1 DEF Files
<1> QED
    BY <1>2, <1>3, <1>4

\* Nobody's settings are mixed.
THEOREM AlwaysOneSource == ConfigSpec => []OneSource
<1>1. ConfigInv => OneSource
    <2> SUFFICES ASSUME ConfigInv, config.status = "loaded"
                 PROVE  OneSource
        BY DEF OneSource
    <2> DEFINE files == {From(s) : s \in Settings} \cap Files
    <2>1. setup \in Setups
        BY DEF ConfigInv
    <2>2. \A s \in Settings : From(s) = Source(s)
        BY LoadedSettings
    <2>3. \A f \in files : f = Selected /\ Selected \in setup.existing
        BY <2>1, <2>2, SourceOf
    <2>4. setup.new # "unset" => Selected = setup.new
        BY DEF Selected
    <2>5. files # {} => \A s \in Settings \ {"EDGE_DATA_DIR"} : From(s) # "process"
        BY <2>1, <2>2, <2>3, SourceOf
    <2>6. setup.frozen => Selected # "cwd"
        BY <2>1 DEF Selected, Runtime, Setups
    <2> HIDE DEF files
    <2>7. /\ \A f, g \in files : f = g
          /\ setup.new # "unset" => files \subseteq {setup.new}
          /\ setup.frozen => "cwd" \notin files
        BY <2>3, <2>4, <2>6
    <2> QED
        BY <2>5, <2>7 DEF OneSource, files
<1> QED
    BY <1>1, Loading, PTL

\* What the loop is started with is usable.
THEOREM AlwaysUsable == ConfigSpec => []Usable
<1>1. ConfigInv => Usable
    <2> SUFFICES ASSUME ConfigInv, config.status = "loaded"
                 PROVE  Usable
        BY DEF Usable
    <2>1. setup \in Setups
        BY DEF ConfigInv
    <2>2. \A s \in Settings : /\ From(s) = Source(s)
                              /\ Given(s) = Meaning(s, Value(s))
                              /\ Value(s) \in Accepted(s)
        BY LoadedSettings
    <2>3. Intervals \subseteq Settings /\ USBIds \subseteq Settings /\ "QUEUE_BATCH_SIZE" \in Settings
        BY DEF Settings, Intervals
    <2>4. ASSUME NEW s \in Intervals
          PROVE  Given(s) = Value(s) /\ Given(s) \in Numbers \ AtMostZero
        <3>1. Value(s) \in PositiveFloats
            <4>1. /\ s \notin Names \cup USBIds
                  /\ s \notin {"QUEUE_BATCH_SIZE", "READER_ADDRESS", "AUTO_CONFIGURE_READER", "TARGET_READ_DISTANCE_M"}
                BY DEF Names, Intervals, USBIds
            <4>2. Accepted(s) = PositiveFloats
                BY <4>1 DEF Accepted
            <4> QED
                BY <4>2, <2>2, <2>3
        <3>2. Meaning(s, Value(s)) = Value(s)
            BY <3>1 DEF Meaning, Absent, PositiveFloats, Numbers, Wholes, USBIds, Intervals
        <3> QED
            BY <2>2, <2>3, <3>1, <3>2 DEF PositiveFloats
    <2>5. ASSUME NEW s \in Intervals, Given(s) \in {"nan", "inf"}
          PROVE  \E t \in {s, "SERIAL_RECONNECT_INTERVAL"} : From(t) \in Files /\ setup.content[t] = Given(s)
        <3>1. PICK t \in {s, "SERIAL_RECONNECT_INTERVAL"} : Value(s) = Text(t)
            BY DEF Value
        <3>2. t \in Settings /\ t \in Intervals
            BY <3>1, <2>3 DEF Intervals
        <3>3. Text(t) \in {"nan", "inf"}
            BY <2>4, <2>5, <3>1
        <3>4. Default[t] \notin {"nan", "inf"}
            BY <3>2 DEF Default
        <3>5. Source(t) \notin {"process", "code"}
            BY <3>3, <3>4 DEF Text
        <3>6. Source(t) \in Files
            BY <3>5, <2>1 DEF Source, Selected, Runtime, Files, Setups
        <3>7. setup.content[t] = Text(t)
            BY <3>5 DEF Text
        <3> QED
            BY <3>1, <3>2, <3>6, <3>7, <2>2, <2>4
    <2>6. Given("QUEUE_BATCH_SIZE") \in {"one", "few", "huge"}
        <3>1. Value("QUEUE_BATCH_SIZE") \in Wholes \ AtMostZero
            BY <2>2, <2>3 DEF Accepted, Names, Intervals, USBIds
        <3> QED
            BY <2>2, <2>3, <3>1 DEF Meaning, Wholes, AtMostZero, Absent, USBIds
    <2>7. (Given("USB_VENDOR_ID") = "none") = (Given("USB_PRODUCT_ID") = "none")
        BY <2>2, <2>3, LoadedSettings DEF USBIds
    <2> QED
        BY <2>4, <2>5, <2>6, <2>7 DEF Usable
<1> QED
    BY <1>1, Loading, PTL

\* The settings are of the types that EdgeConfig declares.
THEOREM ConfigTyped == ConfigSpec => []ConfigTypeOK
<1>1. ConfigInv => ConfigTypeOK
    <2> SUFFICES ASSUME ConfigInv PROVE ConfigTypeOK
        OBVIOUS
    <2>1. setup \in Setups /\ config.status \in {"none", "refused", "loaded"}
        BY DEF ConfigInv, NotLoaded, from_env
    <2>2. ASSUME config.status = "loaded", NEW s \in Settings
          PROVE  config.settings[s].value \in
                    CASE s \in Intervals -> Numbers
                      [] s = "QUEUE_BATCH_SIZE" -> Wholes
                      [] s = "READER_ADDRESS" -> {"zero", "one", "few"}
                      [] s \in USBIds -> {"zero", "one", "few", "none"}
                      [] s = "AUTO_CONFIGURE_READER" -> {"zero", "one"}
                      [] s = "TARGET_READ_DISTANCE_M" -> Numbers \cup {"none"}
                      [] OTHER -> Texts \cup {"none"}
        <3> DEFINE v == Value(s)
        <3>1. config.settings[s].value = Meaning(s, v) /\ v \in Accepted(s)
            BY <2>2, LoadedSettings DEF Given
        <3> HIDE DEF v
        <3>2. CASE s \in Names
            <4>1. v \in Texts
                BY <3>1, <3>2 DEF Accepted, Names, Intervals, USBIds
            <4> QED
                BY <3>1, <3>2, <4>1 DEF Meaning, Names, Intervals, USBIds
        <3>3. CASE s \in Intervals
            <4>1. s \notin Names
                BY <3>3 DEF Names, Intervals
            <4>2. v \in PositiveFloats /\ v \notin Absent /\ s \notin USBIds
                BY <3>1, <3>3, <4>1 DEF Accepted, PositiveFloats, Numbers, Wholes, Absent, USBIds, Intervals
            <4>3. config.settings[s].value \in Numbers
                BY <3>1, <4>2 DEF Meaning, PositiveFloats
            <4> QED
                BY <3>3, <4>3 DEF Intervals, USBIds
        <3>4. CASE s \in USBIds
            <4>1. s \notin Names /\ s \notin Intervals
                BY <3>4 DEF Names, Intervals, USBIds
            <4>2. v \in Absent \cup {"blank", "zero", "one", "few"}
                BY <3>1, <3>4, <4>1 DEF Accepted, USBIds
            <4> QED
                BY <3>1, <3>4, <4>1, <4>2 DEF Meaning, USBIds
        <3>5. CASE s = "QUEUE_BATCH_SIZE"
            <4>1. v \in Wholes /\ v \notin Absent
                BY <3>1, <3>5 DEF Accepted, Names, Intervals, USBIds, Wholes, Absent
            <4> QED
                BY <3>1, <3>5, <4>1 DEF Meaning, Intervals, USBIds
        <3>6. CASE s = "READER_ADDRESS"
            <4>1. v \in {"zero", "one", "few"}
                BY <3>1, <3>6 DEF Accepted, Names, Intervals, USBIds, Bytes
            <4> QED
                BY <3>1, <3>6, <4>1 DEF Meaning, Intervals, USBIds, Absent
        <3>7. CASE s = "AUTO_CONFIGURE_READER"
            <4>1. v \in {"zero", "one"}
                BY <3>1, <3>7 DEF Accepted, Names, Intervals, USBIds
            <4> QED
                BY <3>1, <3>7, <4>1 DEF Meaning, Intervals, USBIds, Absent
        <3>8. CASE s = "TARGET_READ_DISTANCE_M"
            <4>1. v \in Absent \cup PositiveFloats
                BY <3>1, <3>8 DEF Accepted, Names, Intervals, USBIds
            <4> QED
                BY <3>1, <3>8, <4>1 DEF Meaning, Intervals, USBIds, PositiveFloats
        <3>9. CASE s \in {"HEARTBEAT_API_URL", "EDGE_DATA_DIR"}
            <4>1. v \in Texts \cup {"none"}
                BY <3>1, <3>9 DEF Accepted, Names, Intervals, USBIds
            <4> QED
                BY <3>1, <3>9, <4>1 DEF Meaning, Intervals, USBIds
        <3> QED
            BY <3>2, <3>3, <3>4, <3>5, <3>6, <3>7, <3>8, <3>9 DEF Settings
    <2> QED
        BY <2>1, <2>2 DEF ConfigTypeOK
<1> QED
    BY <1>1, Loading, PTL
-----------------------------------------------------------------------------
(* The three together *)

\* Each of the three behaves by its own specification, so that what is proved of it
\* there holds here.
LEMMA EachByItself == Spec => ConfigSpec /\ FrameSpec /\ NetSpec
<1>1. Init => ConfigInit /\ FrameInit /\ NetInit
    BY DEF Init, NoStart, NoScan, NoHeartbeat
<1>2. [Next]_inputVars => [ConfigNext]_configVars /\ [FrameNext]_frameVars /\ [NetNext]_netVars
    BY DEF Next, Start, Scan, Heartbeat, inputVars
<1> QED
    BY <1>1, <1>2, PTL DEF Spec, ConfigSpec, FrameSpec, NetSpec

\* The settings, the frames and the report are of their types.
THEOREM InputsTyped == Spec => []TypeOK
<1>1. ConfigTypeOK /\ FrameTypeOK /\ NetTypeOK <=> TypeOK
    BY DEF TypeOK
<1> QED
    BY <1>1, EachByItself, ConfigTyped, FramesTyped, NetTyped, PTL
==============================================================================
