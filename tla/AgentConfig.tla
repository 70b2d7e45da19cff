---------------------------- MODULE AgentConfig ----------------------------
(***************************************************************************)
(* EdgeConfig.from_env of config.py: which file is read, whether a value   *)
(* comes from it, from the environment of the process or from the code,    *)
(* and which values are accepted.                                          *)
(*                                                                         *)
(* A text is told apart by what the parsers make of it.  One setting       *)
(* stands for those that are treated alike: CUSTOMER_ID for the required   *)
(* names, SCAN_INTERVAL for the intervals with a constant default,         *)
(* EDGE_DATA_DIR for both directories.  The two methods of the reader,     *)
(* its port and its serial number are words like CUSTOMER_ID with a        *)
(* default and are left out.                                               *)
(***************************************************************************)
EXTENDS Naturals

CONSTANTS
    Contents,  \* bound: what a file may hold, a text for some of the settings
    Existing   \* bound: which files may exist

VARIABLES
    setup,   \* an installation: see Setups
    config   \* "none", "refused" or "loaded", and the settings from_env returned

configVars == <<setup, config>>

Names     == {"CUSTOMER_ID", "RFID_API_URL"}
Intervals == {"SCAN_INTERVAL", "SERIAL_RECONNECT_INTERVAL", "READER_DISCOVERY_INTERVAL"}
USBIds    == {"USB_VENDOR_ID", "USB_PRODUCT_ID"}
Settings  == Names \cup Intervals \cup USBIds \cup
    {"QUEUE_BATCH_SIZE", "READER_ADDRESS", "AUTO_CONFIGURE_READER", "TARGET_READ_DISTANCE_M",
     "HEARTBEAT_API_URL", "EDGE_DATA_DIR"}

Files == {"configured", "legacy", "executable", "cwd", "project"}

\* "bare" is a setting without a value, "none" one that is not there; "few" is
\* another whole number below 256, "huge" one that is no USB ID either.
Absent  == {"none", "bare", "empty"}
Wholes  == {"negative", "zero", "one", "few", "huge"}
Numbers == Wholes \cup {"half", "inf", "nan"}
Texts   == Numbers \cup {"bare", "empty", "blank", "word"}

\* What MVD_EDGE_CONFIG and its older name name, whether the program is an
\* executable of its own, the files, what is in them, and the settings that the
\* environment of the process has.
Setups ==
    [new : {"unset", "configured"}, old : {"unset", "legacy"}, frozen : BOOLEAN,
     existing : Existing, content : Contents, process : {{}, Settings}]

ASSUME ConfigAssumption ==
    /\ Existing \subseteq SUBSET Files
    /\ \A c \in Contents : DOMAIN c \subseteq Settings /\ \A s \in DOMAIN c : c[s] \in Texts
-----------------------------------------------------------------------------
(* Parsing *)

\* Numbers that compare as not above 0: no comparison with NaN is true.
AtMostZero == {"negative", "zero"}

\* Faulty variant: parsed < minimum for parsed <= minimum.
IntervalsFromZero == Numbers \ {"negative"}

\* parse_float with 0 as its exclusive minimum
PositiveFloats == Numbers \ AtMostZero

\* Faulty variant: parse_reader_address without its upper bound.
Addresses == {"zero", "one", "few", "huge"}

\* parse_reader_address
Bytes == {"zero", "one", "few"}

\* The texts a setting accepts.
Accepted(s) ==
    CASE s \in Names -> Texts \ {"bare", "empty", "blank"}
      [] s \in Intervals -> PositiveFloats
      [] s \in USBIds -> Absent \cup {"blank", "zero", "one", "few"}
      [] s = "QUEUE_BATCH_SIZE" -> Wholes \ AtMostZero
      [] s = "READER_ADDRESS" -> Bytes
      [] s = "AUTO_CONFIGURE_READER" -> {"zero", "one"}
      [] s = "TARGET_READ_DISTANCE_M" -> Absent \cup PositiveFloats
      [] OTHER -> Texts \cup {"none"}

\* What an accepted text means: some settings may be left empty.
Meaning(s, text) ==
    IF text \in Absent \/ (s \in USBIds /\ text = "blank") THEN "none" ELSE text
-----------------------------------------------------------------------------
(* from_env *)

Runtime == IF setup.frozen THEN "executable" ELSE "cwd"

\* Faulty variant: a file that is missing is looked for elsewhere.
SelectedExisting ==
    CASE setup.new \in setup.existing -> setup.new
      [] setup.new \notin setup.existing /\ setup.old \in setup.existing -> setup.old
      [] OTHER -> IF Runtime \in setup.existing THEN Runtime ELSE "project"

\* discover_config_file: a file that is named need not exist.
Selected ==
    CASE setup.new # "unset" -> setup.new
      [] setup.new = "unset" /\ setup.old # "unset" -> setup.old
      [] OTHER -> IF Runtime \in setup.existing THEN Runtime ELSE "project"

\* get_env: a setting of the file counts even when it is empty, and a file that
\* exists hides the environment of the process but for the directories.
Source(s) ==
    CASE Selected \in setup.existing /\ s \in DOMAIN setup.content -> Selected
      [] Selected \in setup.existing /\ s \notin DOMAIN setup.content /\ s # "EDGE_DATA_DIR" -> "code"
      [] OTHER -> IF s \in setup.process THEN "process" ELSE "code"

Default == [s \in Settings |-> CASE s = "SCAN_INTERVAL" -> "half"
                                 [] s \in {"READER_ADDRESS", "AUTO_CONFIGURE_READER"} -> "zero"
                                 [] s \in {"SERIAL_RECONNECT_INTERVAL", "QUEUE_BATCH_SIZE"} -> "few"
                                 [] OTHER -> "none"]

\* The environment of the process says "one" wherever it has a setting.
Text(s) ==
    CASE Source(s) = "process" -> "one"
      [] Source(s) = "code" -> Default[s]
      [] OTHER -> setup.content[s]

\* The interval between attempts to connect is the older setting's by default.
Value(s) ==
    IF s = "READER_DISCOVERY_INTERVAL" /\ Source(s) = "code" THEN Text("SERIAL_RECONNECT_INTERVAL")
    ELSE Text(s)

from_env ==
    IF /\ \A s \in Settings : Value(s) \in Accepted(s)
       /\ \A s, t \in USBIds : Meaning(s, Value(s)) = "none" <=> Meaning(t, Value(t)) = "none"
    THEN [status |-> "loaded",
          settings |-> [s \in Settings |-> [from |-> Source(s), value |-> Meaning(s, Value(s))]]]
    ELSE [status |-> "refused"]
-----------------------------------------------------------------------------
(* A start of the program *)

NotLoaded == [status |-> "none"]

ConfigInit ==
    /\ setup \in Setups
    /\ config = NotLoaded

\* main: without a configuration it ends.
LoadConfig ==
    /\ config = NotLoaded
    /\ config' = from_env
    /\ UNCHANGED setup

ConfigNext == LoadConfig

ConfigSpec == ConfigInit /\ [][ConfigNext]_configVars
-----------------------------------------------------------------------------
(* Properties *)

\* The settings are of the types that EdgeConfig declares.
ConfigTypeOK ==
    /\ setup \in Setups
    /\ config.status \in {"none", "refused", "loaded"}
    /\ config.status = "loaded" =>
         \A s \in Settings :
            LET value == config.settings[s].value
                type  == CASE s \in Intervals -> Numbers
                           [] s = "QUEUE_BATCH_SIZE" -> Wholes
                           [] s = "READER_ADDRESS" -> {"zero", "one", "few"}
                           [] s \in USBIds -> {"zero", "one", "few", "none"}
                           [] s = "AUTO_CONFIGURE_READER" -> {"zero", "one"}
                           [] s = "TARGET_READ_DISTANCE_M" -> Numbers \cup {"none"}
                           [] OTHER -> Texts \cup {"none"}
            IN  value \in type

From(s)  == config.settings[s].from
Given(s) == config.settings[s].value

\* Nobody's settings are mixed.  An accepted configuration takes at most one
\* file's; a file that MVD_EDGE_CONFIG names but that is missing is replaced by no
\* other; and beside a file the environment of the process, where the settings
\* of an earlier installation may linger, decides of nothing but the directories.
OneSource ==
    config.status = "loaded" =>
        LET files == {From(s) : s \in Settings} \cap Files IN
        /\ \A f, g \in files : f = g
        /\ setup.new # "unset" => files \subseteq {setup.new}
        /\ files # {} => \A s \in Settings \ {"EDGE_DATA_DIR"} : From(s) # "process"
        /\ setup.frozen => "cwd" \notin files

\* What the loop is started with.  Its intervals are above zero, or NaN or
\* infinity, which no comparison refuses and with which a timer never fires and a
\* tag never leaves; but these only when somebody wrote them, if only as another
\* interval's value.  A batch has a size, and a USB ID never comes alone.
Usable ==
    config.status = "loaded" =>
        /\ \A s \in Intervals :
             /\ Given(s) \in Numbers \ AtMostZero
             /\ Given(s) \in {"nan", "inf"} =>
                  \E t \in {s, "SERIAL_RECONNECT_INTERVAL"} : From(t) \in Files /\ setup.content[t] = Given(s)
        /\ Given("QUEUE_BATCH_SIZE") \in {"one", "few", "huge"}
        /\ (Given("USB_VENDOR_ID") = "none") = (Given("USB_PRODUCT_ID") = "none")
=============================================================================
