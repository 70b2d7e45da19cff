-------------------------- MODULE NetworkTelemetry --------------------------
(***************************************************************************)
(* collect_network_telemetry of health/network.py, run before a heartbeat. *)
(* It asks `ip` and `nmcli` one command after the other: each may fail or  *)
(* time out, and the network may change between two of them.  The report   *)
(* is put together from answers of different moments.                      *)
(***************************************************************************)
EXTENDS Naturals, Sequences, FiniteSets

CONSTANTS
    Listed,      \* the devices in the order in which nmcli lists them
    Links,       \* states and addresses that a device may have
    MaxChanges   \* bound: changes of the network during one collection

NetNames == {Listed[i].name : i \in DOMAIN Listed}

\* The default route may go through a device that nmcli does not list.
Networks == [link : [NetNames -> Links], route : NetNames \cup {"tunnel", "none"},
             radio : {"missing", "enabled"}]

ASSUME NetworkAssumption ==
    /\ Listed \in Seq([name : STRING, type : {"ethernet", "gsm", "wwan", "wifi", "other"}])
    /\ \A i, j \in DOMAIN Listed : Listed[i].name = Listed[j].name => i = j
    /\ NetNames \cap {"tunnel", "none"} = {}
    /\ Links \subseteq [state : {"connected", "unmanaged", "down"}, address : STRING]
    /\ MaxChanges \in Nat

VARIABLES
    at,       \* which of Commands is next, 0 between two collections
    network,  \* the network as it is
    held,     \* the networks there have been since the collection began
    failed,   \* some command has failed
    found,    \* what the commands have said
    report    \* the telemetry of the heartbeat, once it is done

netVars == <<at, network, held, failed, found, report>>

Kinds    == {"ETHERNET", "LTE", "WIFI"}
Parts    == Kinds \cup {"primary"}
Before(k) == CASE k = "ETHERNET" -> {} [] k = "LTE" -> {"ETHERNET"} [] k = "WIFI" -> {"ETHERNET", "LTE"}
Commands == <<"route", "devices", "radio", "primary", "ETHERNET", "LTE", "WIFI">>

NothingFound == [route |-> "none", states |-> <<>>, answered |-> FALSE, radio |-> "unknown",
                 address |-> [s \in Parts |-> "none"]]
NoReport     == [connected |-> "unknown"]
-----------------------------------------------------------------------------
(* Selection *)

\* _network_type
TypeOf(name) ==
    LET type == {Listed[i].type : i \in {j \in DOMAIN Listed : Listed[j].name = name}}
    IN  CASE "ethernet" \in type -> "ETHERNET"
          [] type \cap {"gsm", "wwan"} # {} -> "LTE"
          [] "wifi" \in type -> "WIFI"
          [] OTHER -> "none"

\* Faulty variant: the state is not looked at.
FirstListed(k, states) ==
    LET fit == {i \in DOMAIN Listed : TypeOf(Listed[i].name) = k}
    IN  IF fit = {} THEN "none" ELSE Listed[CHOOSE i \in fit : \A j \in fit : i <= j].name

FirstConnected(k, states) ==
    LET fit == {i \in DOMAIN Listed : TypeOf(Listed[i].name) = k /\ states[Listed[i].name] = "connected"}
    IN  IF fit = {} THEN "none" ELSE Listed[CHOOSE i \in fit : \A j \in fit : i <= j].name

\* The first of ethernet, LTE and Wi-Fi that is connected.
Preferred(states) ==
    LET up == {k \in Kinds : FirstConnected(k, states) # "none"}
    IN  IF up = {} THEN "none" ELSE FirstConnected(CHOOSE k \in up : Before(k) \cap up = {}, states)

\* Faulty variant: the default route is not looked at.
PrimaryByKind(route, states) == Preferred(states)

\* The device of the default route, whatever its state, if its type is known.
Primary(route, states) == IF TypeOf(route) # "none" THEN route ELSE Preferred(states)

\* The device a part of the report is about.
Device(s, f) == IF s = "primary" THEN Primary(f.route, f.states) ELSE FirstConnected(s, f.states)

\* network_connected and the rest; without nmcli's list only the route is told.
Telemetry(f) ==
    IF ~f.answered THEN [connected |-> "unknown", route |-> f.route]
    ELSE [connected |-> IF \E k \in Kinds : FirstConnected(k, f.states) # "none" THEN "yes" ELSE "no",
          route     |-> f.route,
          type      |-> TypeOf(Device("primary", f)),
          interface |-> [s \in Parts |->
                            IF s = "primary" /\ Device(s, f) = "none" THEN f.route ELSE Device(s, f)],
          address   |-> f.address,
          wifi      |-> f.radio]
-----------------------------------------------------------------------------
(* A collection *)

NetInit ==
    /\ at = 0
    /\ network \in Networks
    /\ held = {}
    /\ failed = FALSE
    /\ found = NothingFound
    /\ report = NoReport

\* Between two collections the network may become any other.
Collect ==
    /\ at = 0
    /\ at' = 1
    /\ network' \in Networks
    /\ held' = {network'}
    /\ UNCHANGED <<failed, found, report>>

\* A device comes up, goes down or gets an address, or the route moves.
NetworkChanges ==
    /\ at \in DOMAIN Commands
    /\ Cardinality(held) <= MaxChanges
    /\ network' \in {[network EXCEPT !.link[d] = l] : d \in NetNames, l \in Links}
                    \cup {[network EXCEPT !.route = r] : r \in NetNames \cup {"tunnel", "none"}}
    /\ held' = held \cup {network'}
    /\ UNCHANGED <<at, failed, found, report>>

\* What `ip` or `nmcli` answers; no command is run for the address of no device.
Heard(c) ==
    CASE c = "route"   -> [found EXCEPT !.route = network.route]
      [] c = "devices" -> [found EXCEPT !.states = [d \in NetNames |-> network.link[d].state], !.answered = TRUE]
      [] c = "radio"   -> [found EXCEPT !.radio = IF network.radio = "missing" THEN "no" ELSE "yes"]
      [] OTHER -> IF Device(c, found) = "none" THEN found
                     ELSE [found EXCEPT !.address[c] = network.link[Device(c, found)].address]

\* _run returns None if the command is missing, says no or takes too long.  The
\* addresses are asked for only if nmcli has listed the devices.
Run ==
    /\ at \in DOMAIN Commands
    /\ Commands[at] \in Parts => found.answered
    /\ \/ found' = Heard(Commands[at]) /\ UNCHANGED failed
       \/ found' = found /\ failed' = TRUE
    /\ at' = at + 1
    /\ UNCHANGED <<network, held, report>>

Report ==
    /\ report = NoReport
    /\ \/ at = Len(Commands) + 1
       \/ at \in DOMAIN Commands /\ Commands[at] = "primary" /\ ~found.answered
    /\ report' = Telemetry(found)
    /\ at' = Len(Commands) + 1
    /\ UNCHANGED <<network, held, failed, found>>

\* The heartbeat takes the report along.
Sent ==
    /\ report # NoReport
    /\ at' = 0
    /\ held' = {}
    /\ failed' = FALSE
    /\ found' = NothingFound
    /\ report' = NoReport
    /\ UNCHANGED network

NetNext == Collect \/ NetworkChanges \/ Run \/ Report \/ Sent

NetSpec == NetInit /\ [][NetNext]_netVars
-----------------------------------------------------------------------------
(* Properties *)

NetTypeOK ==
    /\ at \in 0 .. Len(Commands) + 1
    /\ network \in Networks
    /\ held \subseteq Networks
    /\ failed \in BOOLEAN
    /\ found.route \in NetNames \cup {"tunnel", "none"}
    /\ report.connected \in {"unknown", "yes", "no"}

Reported == report.connected # "unknown"
Up(n)    == {d \in NetNames : n.link[d].state = "connected"}

\* Whatever changes or fails meanwhile, a report invents nothing.  The devices it
\* calls connected, and the kinds it says are not, were so at one moment; its
\* route was the route, and an address was its device's, each at some moment; and a
\* primary device that is not connected was the default route's.
ReportedWasSo ==
    Reported =>
        /\ \E n \in held : \A k \in Kinds :
             LET up == {d \in Up(n) : TypeOf(d) = k}
             IN  report.interface[k] \in IF up = {} THEN {"none"} ELSE up
        /\ report.route = "none" \/ \E n \in held : n.route = report.route
        /\ \A s \in Parts :
             report.address[s] # "none" => \E n \in held : \E d \in NetNames :
                 report.interface[s] = d /\ n.link[d].address = report.address[s]
        /\ report.type # "none" => \E n \in held : report.interface["primary"] \in Up(n) \cup {n.route}
        /\ report.connected = "no" => \E n \in held : \A d \in Up(n) : TypeOf(d) = "none"

\* A report is true of the network if nothing changed and no command failed.  The
\* primary device is the default route's, or without a known one a connected
\* device, of the kind that is preferred.
QuietReportIsTrue ==
    Reported /\ held = {network} /\ ~failed =>
        LET primary == report.interface["primary"]
            up      == {d \in Up(network) : TypeOf(d) # "none"} IN
        /\ report.connected = IF up = {} THEN "no" ELSE "yes"
        /\ report.route = network.route
        /\ CASE TypeOf(network.route) # "none" -> primary = network.route
             [] TypeOf(network.route) = "none" /\ up # {} ->
                  primary \in up /\ \A d \in up : TypeOf(d) \notin Before(TypeOf(primary))
             [] OTHER -> primary = network.route /\ report.type = "none"
        /\ \A s \in Kinds : {d \in up : TypeOf(d) = s} # {} => TypeOf(report.interface[s]) = s
        /\ \A s \in Kinds : report.interface[s] # "none" =>
             report.address[s] = network.link[report.interface[s]].address
        /\ report.wifi = IF network.radio = "missing" THEN "no" ELSE "yes"
=============================================================================
