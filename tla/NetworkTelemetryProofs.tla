----------------------- MODULE NetworkTelemetryProofs -----------------------
(* Theorems about NetworkTelemetry, for every list of devices, every state   *)
(* and address of theirs, and any number of changes of the network.          *)
EXTENDS NetworkTelemetry, WellFoundedInduction, NaturalsInduction, TLAPS

\* A set of numbers that is not empty has a least one.
LEMMA Least ==
    ASSUME NEW T, T \subseteq Nat, T # {}
    PROVE  \E m \in T : \A j \in T : m <= j
<1>1. IsWellFoundedOn(OpToRel(<, Nat), Nat)
    BY NatLessThanWellFounded
<1>2. \E m \in T : \A j \in T : <<j, m>> \notin OpToRel(<, Nat)
    BY <1>1, WFMin
<1>3. \A j, m \in Nat : <<j, m>> \notin OpToRel(<, Nat) => ~(j < m)
    BY DEF OpToRel
<1>4. PICK m \in T : \A j \in T : ~(j < m)
    BY <1>2, <1>3
<1> QED
    BY <1>4

\* The commands, and when each has its turn.
LEMMA Order ==
    /\ Commands[1] = "route" /\ Commands[2] = "devices" /\ Commands[3] = "radio"
    /\ Commands[4] = "primary" /\ Commands[5] = "ETHERNET" /\ Commands[6] = "LTE" /\ Commands[7] = "WIFI"
    /\ DOMAIN Commands = 1 .. 7
    /\ Len(Commands) = 7
BY DEF Commands

\* The first connected device of a kind, if there is one.
LEMMA FirstConnectedIs ==
    ASSUME NEW k, NEW states
    PROVE  \/ /\ FirstConnected(k, states) = "none"
              /\ \A d \in NetNames : ~(TypeOf(d) = k /\ states[d] = "connected")
           \/ /\ FirstConnected(k, states) \in NetNames
              /\ FirstConnected(k, states) # "none"
              /\ TypeOf(FirstConnected(k, states)) = k
              /\ states[FirstConnected(k, states)] = "connected"
<1> DEFINE fit == {i \in DOMAIN Listed : TypeOf(Listed[i].name) = k /\ states[Listed[i].name] = "connected"}
<1>1. CASE fit = {}
    BY <1>1 DEF FirstConnected, NetNames
<1>2. CASE fit # {}
    <2>1. fit \subseteq Nat
        BY NetworkAssumption
    <2>2. \E i \in fit : \A j \in fit : i <= j
        <3> HIDE DEF fit
        <3> QED
            BY <1>2, <2>1, Least
    <2>3. \E i \in fit : FirstConnected(k, states) = Listed[i].name
        BY <1>2, <2>2 DEF FirstConnected
    <2> QED
        BY <2>3, NetworkAssumption DEF NetNames
<1> QED
    BY <1>1, <1>2

\* The preferred device: of the first kind that has one.
LEMMA PreferredIs ==
    ASSUME NEW states
    PROVE  \/ /\ Preferred(states) = "none"
              /\ \A k \in Kinds : FirstConnected(k, states) = "none"
           \/ \E k \in Kinds : /\ Preferred(states) = FirstConnected(k, states)
                               /\ FirstConnected(k, states) # "none"
                               /\ \A j \in Before(k) : FirstConnected(j, states) = "none"
<1> DEFINE up == {k \in Kinds : FirstConnected(k, states) # "none"}
<1>1. CASE up = {}
    BY <1>1 DEF Preferred
<1>2. CASE up # {}
    <2>1. \E k \in up : Before(k) \cap up = {}
        <3> HIDE DEF up
        <3>1. /\ Before("ETHERNET") = {} /\ Before("LTE") = {"ETHERNET"}
              /\ Before("WIFI") = {"ETHERNET", "LTE"}
            BY DEF Before
        <3>2. up \subseteq {"ETHERNET", "LTE", "WIFI"}
            BY DEF up, Kinds
        <3>3. CASE "ETHERNET" \in up
            BY <3>1, <3>3
        <3>4. CASE "ETHERNET" \notin up /\ "LTE" \in up
            BY <3>1, <3>4
        <3>5. CASE up = {"WIFI"}
            BY <3>1, <3>5
        <3> QED
            BY <1>2, <3>2, <3>3, <3>4, <3>5
    <2>2. \E k \in up : Before(k) \cap up = {} /\ Preferred(states) = FirstConnected(k, states)
        BY <1>2, <2>1 DEF Preferred
    <2>3. \A k \in Kinds : Before(k) \subseteq Kinds
        BY DEF Before, Kinds
    <2> QED
        BY <2>2, <2>3
<1> QED
    BY <1>1, <1>2

\* The device of a part is the default route's, or a connected one, or none.
LEMMA DeviceIs ==
    ASSUME NEW f, NEW s \in Parts
    PROVE  \/ Device(s, f) = "none"
           \/ s = "primary" /\ Device(s, f) = f.route /\ TypeOf(f.route) # "none" 
           \/ Device(s, f) \in NetNames /\ f.states[Device(s, f)] = "connected"
<1>1. CASE s # "primary"
    BY <1>1, FirstConnectedIs DEF Device
<1>2. CASE s = "primary" /\ TypeOf(f.route) # "none"
    BY <1>2 DEF Device, Primary
<1>3. CASE s = "primary" /\ TypeOf(f.route) = "none"
    <2>1. Device(s, f) = Preferred(f.states)
        BY <1>3 DEF Device, Primary
    <2> QED
        BY <2>1, PreferredIs, FirstConnectedIs
<1> QED
    BY <1>1, <1>2, <1>3

\* Only a listed device has a type.
LEMMA TypedIsListed ==
    ASSUME NEW d, TypeOf(d) # "none"
    PROVE  d \in NetNames
<1>1. CASE {j \in DOMAIN Listed : Listed[j].name = d} = {}
    <2>1. {Listed[i].type : i \in {j \in DOMAIN Listed : Listed[j].name = d}} = {}
        BY <1>1
    <2> QED
        BY <2>1 DEF TypeOf
<1>2. CASE {j \in DOMAIN Listed : Listed[j].name = d} # {}
    BY <1>2 DEF NetNames
<1> QED
    BY <1>1, <1>2
-----------------------------------------------------------------------------
States(n) == [d \in NetNames |-> n.link[d].state]
Routes    == NetNames \cup {"tunnel", "none"}
NetAddresses == {l.address : l \in Links} \cup {"none"}

\* What the commands may have said.
Answers ==
    [route : Routes, states : {<<>>} \cup [NetNames -> {"connected", "unmanaged", "down"}],
     answered : BOOLEAN, radio : {"unknown", "yes", "no"}, address : [Parts -> NetAddresses]]

Typed ==
    /\ at \in 0 .. 8
    /\ network \in Networks
    /\ held \subseteq Networks
    /\ failed \in BOOLEAN
    /\ found \in Answers

\* The present network is among those held.
Holding ==
    /\ at # 0 => network \in held
    /\ at = 0 => held = {} /\ failed = FALSE /\ found = NothingFound

\* What a command has said was so in one of the networks held.
Founded ==
    /\ found.route = "none" \/ \E n \in held : n.route = found.route
    /\ found.answered => \E n \in held : found.states = States(n)
    /\ \A s \in Parts : found.address[s] # "none" =>
         \E n \in held : Device(s, found) \in NetNames /\ n.link[Device(s, found)].address = found.address[s]

\* NetAddresses are told last, and only of devices that are listed.
InTurn ==
    /\ at <= 2 => ~found.answered
    /\ at <= 4 \/ ~found.answered => \A s \in Parts : found.address[s] = "none"
    /\ at \in 5 .. 7 => found.answered

\* Without a change and a failure, each command that has run told what is so.
Quiet ==
    held = {network} /\ ~failed =>
        /\ at > 1 => found.route = network.route
        /\ at > 2 => found.answered /\ found.states = States(network)
        /\ at > 3 => found.radio = IF network.radio = "missing" THEN "no" ELSE "yes"
        /\ \A i \in 5 .. 7 : at > i /\ Device(Commands[i], found) # "none" =>
              found.address[Commands[i]] = network.link[Device(Commands[i], found)].address

\* A report is made of what was found, when everything has been asked.
ReportMade ==
    \/ report = NoReport /\ at \in 0 .. 8
    \/ report = Telemetry(found) /\ at = 8

NetInv == Typed /\ Holding /\ Founded /\ InTurn /\ Quiet /\ ReportMade

\* Which device a part is about depends on the route and the states only.
LEMMA SameDevice ==
    ASSUME NEW f, NEW g, f.route = g.route, f.states = g.states, NEW s
    PROVE  Device(s, f) = Device(s, g)
BY DEF Device

\* Nothing found, nothing founded.
LEMMA Fresh ==
    /\ NothingFound.route = "none" /\ NothingFound.answered = FALSE
    /\ \A s \in Parts : NothingFound.address[s] = "none"
    /\ NothingFound \in Answers
<1>1. [s \in Parts |-> "none"] \in [Parts -> NetAddresses]
    BY DEF NetAddresses
<1>2. "none" \in Routes /\ <<>> \in {<<>>} \cup [NetNames -> {"connected", "unmanaged", "down"}]
    BY DEF Routes
<1>3. NothingFound \in Answers
    <2> DEFINE blank == [s \in Parts |-> "none"]
    <2>1. NothingFound = [route |-> "none", states |-> <<>>, answered |-> FALSE, radio |-> "unknown",
                          address |-> blank]
        BY DEF NothingFound
    <2> HIDE DEF blank
    <2> QED
        BY <1>1, <1>2, <2>1 DEF Answers, blank
<1> QED
    BY <1>3 DEF NothingFound

\* The networks are of their type.
LEMMA NetStates ==
    ASSUME NEW n \in Networks, NEW d \in NetNames
    PROVE  n.link[d].state \in {"connected", "unmanaged", "down"} /\ n.link[d].address \in NetAddresses
<1>1. n.link[d] \in Links
    BY DEF Networks
<1>2. n.link[d] \in [state : {"connected", "unmanaged", "down"}, address : STRING]
    BY <1>1, NetworkAssumption
<1> DEFINE l == n.link[d]
<1>3. l.state \in {"connected", "unmanaged", "down"} /\ l.address \in NetAddresses
    <2> HIDE DEF l
    <2>1. l \in [state : {"connected", "unmanaged", "down"}, address : STRING]
        BY <1>2 DEF l
    <2>2. l \in Links
        BY <1>1 DEF l
    <2> QED
        BY <2>1, <2>2 DEF NetAddresses
<1> QED
    BY <1>3

LEMMA NetInitially == NetInit => NetInv
<1> SUFFICES ASSUME NetInit PROVE NetInv
    OBVIOUS
<1> USE DEF NetInit
<1>1. Typed
    <2>1. at \in 0 .. 8
        OBVIOUS
    <2>2. failed \in BOOLEAN
        BY Zenon
    <2> QED
        BY <2>1, <2>2, Fresh DEF Typed
<1>2. Holding /\ ReportMade
    BY DEF Holding, ReportMade
<1>3. Founded /\ InTurn
    BY Fresh DEF Founded, InTurn
<1>4. Quiet
    BY DEF Quiet
<1> QED
    BY <1>1, <1>2, <1>3, <1>4 DEF NetInv

LEMMA CollectKeeps == NetInv /\ Collect => NetInv'
<1> SUFFICES ASSUME NetInv, Collect PROVE NetInv'
    OBVIOUS
<1> USE DEF Collect
<1>1. found = NothingFound /\ failed = FALSE /\ report = NoReport
    <2>1. NoReport # Telemetry(found) \/ report = NoReport
        BY DEF NetInv, ReportMade
    <2> QED
        BY <2>1 DEF NetInv, Holding, ReportMade
<1>2. Typed'
    BY DEF NetInv, Typed
<1>3. Holding' /\ ReportMade'
    BY <1>1 DEF Holding, ReportMade
<1>4. Founded' /\ InTurn'
    BY <1>1, Fresh DEF Founded, InTurn
<1>5. Quiet'
    BY DEF Quiet
<1> QED
    BY <1>2, <1>3, <1>4, <1>5 DEF NetInv

LEMMA NetChangeKeeps == NetInv /\ NetworkChanges => NetInv'
<1> SUFFICES ASSUME NetInv, NetworkChanges PROVE NetInv'
    OBVIOUS
<1>1. /\ at \in 1 .. 7
      /\ held' = held \cup {network'}
      /\ UNCHANGED <<at, failed, found, report>>
    BY Order DEF NetworkChanges
<1>2. network' \in Networks
    <2>1. network \in Networks
        BY DEF NetInv, Typed
    <2>2. CASE \E d \in NetNames, l \in Links : network' = [network EXCEPT !.link[d] = l]
        BY <2>1, <2>2 DEF Networks
    <2>3. CASE \E r \in NetNames \cup {"tunnel", "none"} : network' = [network EXCEPT !.route = r]
        BY <2>1, <2>3 DEF Networks
    <2> QED
        BY <2>2, <2>3 DEF NetworkChanges
<1>3. Typed'
    BY <1>1, <1>2 DEF NetInv, Typed
<1>4. Holding' /\ InTurn'
    BY <1>1 DEF NetInv, Holding, InTurn
<1>5. ReportMade'
    BY <1>1 DEF NetInv, ReportMade
<1>6. Founded'
    <2>1. \A s \in Parts : Device(s, found)' = Device(s, found)
        BY <1>1, SameDevice
    <2> QED
        BY <1>1, <2>1 DEF NetInv, Founded, States
<1>7. Quiet'
    <2> SUFFICES ASSUME held' = {network'} PROVE network' = network /\ held' = held
        BY <1>1 DEF NetInv, Quiet, States, Device
    <2> QED
        BY <1>1 DEF NetInv, Holding
<1> QED
    BY <1>3, <1>4, <1>5, <1>6, <1>7 DEF NetInv

LEMMA ReportKeeps == NetInv /\ Report => NetInv'
<1> SUFFICES ASSUME NetInv, Report PROVE NetInv'
    OBVIOUS
<1>1. /\ at' = 8 /\ UNCHANGED <<network, held, failed, found>>
      /\ report' = Telemetry(found)
      /\ at = 8 \/ (at = 4 /\ ~found.answered)
    <2>1. \A i \in DOMAIN Commands : Commands[i] = "primary" => i = 4
        BY Order DEF Commands
    <2> QED
        BY Order, <2>1 DEF Report
<1>2. Typed' /\ Holding'
    BY <1>1 DEF NetInv, Typed, Holding
<1>3. Founded'
    <2>1. \A s \in Parts : Device(s, found)' = Device(s, found)
        BY <1>1, SameDevice
    <2> QED
        BY <1>1, <2>1 DEF NetInv, Founded, States
<1>4. InTurn' /\ ReportMade'
    <2>1. Telemetry(found)' = Telemetry(found)
        BY <1>1
    <2> QED
        BY <1>1, <2>1 DEF NetInv, InTurn, ReportMade
<1>5. Quiet'
    <2>1. CASE at = 8
        BY <1>1, <2>1 DEF NetInv, Quiet, States, Device
    <2>2. CASE at = 4 /\ ~found.answered
        BY <1>1, <2>2 DEF NetInv, Quiet
    <2> QED
        BY <1>1, <2>1, <2>2
<1> QED
    BY <1>2, <1>3, <1>4, <1>5 DEF NetInv

LEMMA SentKeeps == NetInv /\ Sent => NetInv'
<1> SUFFICES ASSUME NetInv, Sent PROVE NetInv'
    OBVIOUS
<1> USE DEF Sent
<1>1. Typed'
    <2>1. at' \in 0 .. 8
        OBVIOUS
    <2>2. failed' \in BOOLEAN
        BY Zenon
    <2> QED
        BY <2>1, <2>2, Fresh DEF NetInv, Typed
<1>2. Holding' /\ ReportMade'
    BY DEF Holding, ReportMade
<1>3. Founded' /\ InTurn'
    BY Fresh DEF Founded, InTurn
<1>4. Quiet'
    BY DEF Quiet
<1> QED
    BY <1>1, <1>2, <1>3, <1>4 DEF NetInv

\* Every leaf below is about one command: what it answers, or that it fails.
LEMMA RouteKeeps ==
    ASSUME NetInv, Run, at = 1
    PROVE  NetInv'
<1>1. /\ at' = 2 /\ UNCHANGED <<network, held, report>>
      /\ \/ found' = [found EXCEPT !.route = network.route] /\ failed' = failed
         \/ found' = found /\ failed' = TRUE
    <2>1. Heard("route") = [found EXCEPT !.route = network.route]
        BY DEF Heard
    <2> QED
        BY <2>1, Order DEF Run
<1>2. found \in Answers /\ network \in Networks /\ network \in held /\ ~found.answered
      /\ \A s \in Parts : found.address[s] = "none"
    BY DEF NetInv, Typed, Holding, InTurn
<1>3. network.route \in Routes
    BY <1>2 DEF Networks, Routes
<1>4. /\ found' \in Answers /\ ~found'.answered
      /\ \A s \in Parts : found'.address[s] = "none"
      /\ found'.route = "none" \/ \E n \in held : n.route = found'.route
      /\ failed' \/ found'.route = network.route
    BY <1>1, <1>2, <1>3 DEF Answers, NetInv, Founded
<1>5. failed' \in BOOLEAN
    BY <1>1, Zenon DEF NetInv, Typed
<1>6. Typed' /\ Holding'
    BY <1>1, <1>2, <1>4, <1>5 DEF NetInv, Typed, Holding
<1>7. Founded' /\ InTurn'
    BY <1>1, <1>4 DEF Founded, InTurn
<1>8. Quiet' /\ ReportMade'
    BY <1>1, <1>4 DEF NetInv, Quiet, ReportMade
<1> QED
    BY <1>6, <1>7, <1>8 DEF NetInv

LEMMA DevicesKeeps ==
    ASSUME NetInv, Run, at = 2
    PROVE  NetInv'
<1>1. /\ at' = 3 /\ UNCHANGED <<network, held, report>>
      /\ \/ /\ found' = [found EXCEPT !.states = States(network), !.answered = TRUE]
            /\ failed' = failed
         \/ found' = found /\ failed' = TRUE
    <2>1. Heard("devices") = [found EXCEPT !.states = States(network), !.answered = TRUE]
        BY DEF Heard, States
    <2> QED
        BY <2>1, Order DEF Run
<1>2. found \in Answers /\ network \in Networks /\ network \in held /\ ~found.answered
      /\ \A s \in Parts : found.address[s] = "none"
    BY DEF NetInv, Typed, Holding, InTurn
<1>3. States(network) \in [NetNames -> {"connected", "unmanaged", "down"}]
    BY <1>2, NetStates DEF States
<1>4. /\ found' \in Answers /\ found'.route = found.route
      /\ \A s \in Parts : found'.address[s] = "none"
      /\ found'.answered => found'.states = States(network)
      /\ failed' \/ (found'.answered /\ found'.states = States(network))
    <2>1. CASE found' = found
        BY <1>1, <1>2, <2>1 DEF Answers
    <2>2. CASE found' = [found EXCEPT !.states = States(network), !.answered = TRUE]
        BY <1>2, <1>3, <2>2 DEF Answers
    <2> QED
        BY <1>1, <2>1, <2>2
<1>5. failed' \in BOOLEAN
    BY <1>1, Zenon DEF NetInv, Typed
<1>6. Typed' /\ Holding'
    BY <1>1, <1>2, <1>4, <1>5 DEF NetInv, Typed, Holding
<1>7. Founded'
    BY <1>1, <1>2, <1>4 DEF NetInv, Founded, States
<1>8. InTurn' /\ ReportMade'
    BY <1>1, <1>4 DEF NetInv, InTurn, ReportMade
<1>9. Quiet'
    <2>1. ~failed' => ~failed
        BY <1>1
    <2> QED
        BY <1>1, <1>4, <2>1 DEF NetInv, Quiet, States
<1> QED
    BY <1>6, <1>7, <1>8, <1>9 DEF NetInv

LEMMA RadioKeeps ==
    ASSUME NetInv, Run, at = 3
    PROVE  NetInv'
<1> DEFINE radio == IF network.radio = "missing" THEN "no" ELSE "yes"
<1>1. /\ at' = 4 /\ UNCHANGED <<network, held, report>>
      /\ \/ found' = [found EXCEPT !.radio = radio] /\ failed' = failed
         \/ found' = found /\ failed' = TRUE
    <2>1. Heard("radio") = [found EXCEPT !.radio = radio]
        BY DEF Heard
    <2> QED
        BY <2>1, Order DEF Run
<1>2. found \in Answers /\ network \in Networks /\ network \in held
      /\ \A s \in Parts : found.address[s] = "none"
    BY DEF NetInv, Typed, Holding, InTurn
<1>3. radio \in {"unknown", "yes", "no"}
    OBVIOUS
<1> HIDE DEF radio
<1>4. /\ found' \in Answers /\ found'.route = found.route
      /\ found'.states = found.states /\ found'.answered = found.answered
      /\ found'.address = found.address
      /\ failed' \/ found'.radio = radio
    <2>1. CASE found' = found
        BY <1>1, <1>2, <2>1 DEF Answers
    <2>2. CASE found' = [found EXCEPT !.radio = radio]
        BY <1>2, <1>3, <2>2 DEF Answers
    <2> QED
        BY <1>1, <2>1, <2>2
<1>5. failed' \in BOOLEAN
    BY <1>1, Zenon DEF NetInv, Typed
<1>6. Typed' /\ Holding'
    BY <1>1, <1>2, <1>4, <1>5 DEF NetInv, Typed, Holding
<1>7. Founded'
    BY <1>1, <1>2, <1>4 DEF NetInv, Founded, States
<1>8. InTurn' /\ ReportMade'
    BY <1>1, <1>2, <1>4 DEF NetInv, InTurn, ReportMade
<1>9. Quiet'
    <2>1. ~failed' => ~failed
        BY <1>1
    <2> QED
        BY <1>1, <1>4, <2>1 DEF NetInv, Quiet, States, radio
<1> QED
    BY <1>6, <1>7, <1>8, <1>9 DEF NetInv

LEMMA AddressKeeps ==
    ASSUME NetInv, Run, at \in 4 .. 7
    PROVE  NetInv'
<1> DEFINE c == Commands[at]
           d == Device(c, found)
<1>1. c \in Parts /\ found.answered
    <2>1. at = 4 \/ at = 5 \/ at = 6 \/ at = 7
        OBVIOUS
    <2>2. c \in Parts
        BY <2>1, Order DEF Parts, Kinds
    <2> QED
        BY <2>2 DEF Run
<1>2. /\ at' = at + 1 /\ UNCHANGED <<network, held, report>>
      /\ \/ found' = found
         \/ d # "none" /\ found' = [found EXCEPT !.address[c] = network.link[d].address]
      /\ failed' \/ (failed' = failed /\ (d # "none" =>
                       found' = [found EXCEPT !.address[c] = network.link[d].address]))
    <2>1. c \notin {"route", "devices", "radio"}
        BY <1>1 DEF Parts, Kinds
    <2>2. Heard(c) = IF d = "none" THEN found
                     ELSE [found EXCEPT !.address[c] = network.link[d].address]
        BY <2>1 DEF Heard
    <2>3. CASE found' = Heard(c) /\ failed' = failed
        BY <2>2, <2>3 DEF Run
    <2>4. CASE found' = found /\ failed' = TRUE
        BY <2>4 DEF Run
    <2> QED
        BY <2>3, <2>4 DEF Run
<1>3. found \in Answers /\ network \in Networks /\ network \in held
    BY DEF NetInv, Typed, Holding
<1>4. d # "none" => d \in NetNames
    BY <1>1, DeviceIs, TypedIsListed
<1>5. d # "none" => network.link[d].address \in NetAddresses
    BY <1>3, <1>4, NetStates
<1> HIDE DEF c, d
<1>6. /\ found' \in Answers /\ found'.route = found.route /\ found'.states = found.states
      /\ found'.answered = found.answered /\ found'.radio = found.radio
      /\ \A s \in Parts \ {c} : found'.address[s] = found.address[s]
      /\ found'.address[c] = found.address[c] \/ (d # "none" /\ found'.address[c] = network.link[d].address)
      /\ failed' \/ (d # "none" => found'.address[c] = network.link[d].address)
    <2>1. CASE found' = found
        <3>1. CASE d # "none" /\ found' = [found EXCEPT !.address[c] = network.link[d].address]
            BY <1>1, <1>3, <1>5, <2>1, <3>1 DEF Answers
        <3> QED
            BY <1>2, <1>3, <2>1, <3>1
    <2>2. CASE d # "none" /\ found' = [found EXCEPT !.address[c] = network.link[d].address]
        BY <1>1, <1>3, <1>5, <2>2 DEF Answers
    <2> QED
        BY <1>2, <2>1, <2>2
<1>7. \A s \in Parts : Device(s, found)' = Device(s, found)
    BY <1>6, SameDevice
<1>8. failed' \in BOOLEAN
    BY <1>2, Zenon DEF NetInv, Typed
<1>9. Typed' /\ Holding'
    BY <1>2, <1>3, <1>6, <1>8 DEF NetInv, Typed, Holding
<1>10. Founded'
    <2>1. \A s \in Parts : found'.address[s] # "none" =>
             \E n \in held : Device(s, found) \in NetNames /\ n.link[Device(s, found)].address = found'.address[s]
        BY <1>1, <1>3, <1>4, <1>6 DEF NetInv, Founded, d
    <2> QED
        BY <1>2, <1>6, <1>7, <2>1 DEF NetInv, Founded, States
<1>11. InTurn' /\ ReportMade'
    BY <1>1, <1>2, <1>6 DEF NetInv, InTurn, ReportMade
<1>12. Quiet'
    <2>1. ~failed' => ~failed
        BY <1>2
    <2>2. ASSUME NEW i \in 5 .. 7, held = {network}, ~failed', at + 1 > i, Device(Commands[i], found) # "none"
          PROVE  found'.address[Commands[i]] = network.link[Device(Commands[i], found)].address
        <3>1. CASE i = at
            BY <1>6, <2>2, <3>1 DEF c, d
        <3>2. CASE i < at
            <4>1. Commands[i] \in Parts \ {c}
                <5>1. /\ i = 5 \/ i = 6
                      /\ at = 6 \/ at = 7
                    BY <3>2
                <5> QED
                    BY <3>2, <5>1, Order DEF c, Parts, Kinds
            <4> QED
                BY <1>6, <2>1, <2>2, <3>2, <4>1 DEF NetInv, Quiet
        <3> QED
            BY <2>2, <3>1, <3>2
    <2>3. \A i \in 5 .. 7 : Commands[i] \in Parts
        <3>1. \A i \in 5 .. 7 : i = 5 \/ i = 6 \/ i = 7
            OBVIOUS
        <3> QED
            BY <3>1, Order DEF Parts, Kinds
    <2>4. held = {network} /\ ~failed' =>
            /\ found'.route = network.route
            /\ found'.answered /\ found'.states = States(network)
            /\ found'.radio = IF network.radio = "missing" THEN "no" ELSE "yes"
        BY <1>6, <2>1 DEF NetInv, Quiet
    <2> QED
        BY <1>2, <1>7, <2>2, <2>3, <2>4 DEF Quiet, States
<1> QED
    BY <1>9, <1>10, <1>11, <1>12 DEF NetInv

\* A collection keeps the invariant at every step, whatever fails or changes.
THEOREM NetInvariance == NetSpec => []NetInv
<1>1. NetInv /\ [NetNext]_netVars => NetInv'
    <2> SUFFICES ASSUME NetInv, [NetNext]_netVars PROVE NetInv'
        OBVIOUS
    <2>1. CASE Collect
        BY <2>1, CollectKeeps
    <2>2. CASE NetworkChanges
        BY <2>2, NetChangeKeeps
    <2>3. CASE Run
        <3>1. at = 1 \/ at = 2 \/ at = 3 \/ at \in 4 .. 7
            BY <2>3, Order DEF Run
        <3> QED
            BY <2>3, <3>1, RouteKeeps, DevicesKeeps, RadioKeeps, AddressKeeps
    <2>4. CASE Report
        BY <2>4, ReportKeeps
    <2>5. CASE Sent
        BY <2>5, SentKeeps
    <2>6. CASE UNCHANGED netVars
        <3>1. UNCHANGED <<at, network, held, failed, found, report>>
            BY <2>6 DEF netVars
        <3>2. (Typed <=> Typed') /\ (Holding <=> Holding')
            BY <3>1 DEF Typed, Holding
        <3>3. (Founded <=> Founded') /\ (Quiet <=> Quiet')
            BY <3>1 DEF Founded, Quiet, Device, Primary, Preferred, FirstConnected, TypeOf, States
        <3>4. (InTurn <=> InTurn') /\ (ReportMade <=> ReportMade')
            BY <3>1 DEF InTurn, ReportMade, Telemetry, Device, Primary, Preferred, FirstConnected, TypeOf
        <3> QED
            BY <3>2, <3>3, <3>4 DEF NetInv
    <2> QED
        BY <2>1, <2>2, <2>3, <2>4, <2>5, <2>6 DEF NetNext
<1> QED
    BY NetInitially, <1>1, PTL DEF NetSpec

\* What a report says, in the terms of what was found.
LEMMA ReportIs ==
    ASSUME NetInv, Reported
    PROVE  /\ at = 8 /\ found.answered
           /\ report.connected = IF \E k \in Kinds : FirstConnected(k, found.states) # "none" THEN "yes" ELSE "no"
           /\ report.route = found.route /\ report.address = found.address /\ report.wifi = found.radio
           /\ report.type = TypeOf(Device("primary", found))
           /\ \A s \in Kinds : report.interface[s] = FirstConnected(s, found.states)
           /\ report.interface["primary"] = IF Device("primary", found) = "none" THEN found.route
                                            ELSE Device("primary", found)
<1>1. at = 8 /\ report = Telemetry(found)
    <2>1. report # NoReport
        BY DEF Reported, NoReport
    <2> QED
        BY <2>1 DEF NetInv, ReportMade
<1>2. found.answered
    <2>1. ~found.answered => report.connected = "unknown"
        BY <1>1 DEF Telemetry
    <2> QED
        BY <2>1 DEF Reported
<1> DEFINE interface == [s \in Parts |-> IF s = "primary" /\ Device(s, found) = "none" THEN found.route
                                         ELSE Device(s, found)]
           connected == IF \E k \in Kinds : FirstConnected(k, found.states) # "none" THEN "yes" ELSE "no"
<1>3. report = [connected |-> connected, route |-> found.route, type |-> TypeOf(Device("primary", found)),
                interface |-> interface, address |-> found.address, wifi |-> found.radio]
    BY <1>1, <1>2 DEF Telemetry
<1>4. \A s \in Kinds : interface[s] = FirstConnected(s, found.states)
    BY DEF Device, Kinds, Parts
<1>5. interface["primary"] = IF Device("primary", found) = "none" THEN found.route
                             ELSE Device("primary", found)
    BY DEF Parts
<1> HIDE DEF interface, connected
<1>6. /\ report.connected = connected /\ report.route = found.route /\ report.address = found.address
      /\ report.wifi = found.radio /\ report.type = TypeOf(Device("primary", found))
      /\ report.interface = interface
    BY <1>3
<1> QED
    BY <1>1, <1>2, <1>4, <1>5, <1>6 DEF connected

\* What the commands say, and what is reported, is of its type.
THEOREM NetTyped == NetSpec => []NetTypeOK
<1>1. NetInv => NetTypeOK
    <2> SUFFICES ASSUME NetInv PROVE NetTypeOK
        OBVIOUS
    <2>1. /\ at \in 0 .. 8 /\ network \in Networks /\ held \subseteq Networks /\ failed \in BOOLEAN
          /\ found.route \in NetNames \cup {"tunnel", "none"}
        BY DEF NetInv, Typed, Answers, Routes
    <2>2. at \in 0 .. Len(Commands) + 1
        BY <2>1, Order
    <2>3. report.connected \in {"unknown", "yes", "no"}
        <3>1. CASE Reported
            BY <3>1, ReportIs
        <3>2. CASE ~Reported
            BY <3>2 DEF Reported
        <3> QED
            BY <3>1, <3>2
    <2> QED
        BY <2>1, <2>2, <2>3 DEF NetTypeOK
<1> QED
    BY <1>1, NetInvariance, PTL

\* What is reported of the kinds is so in the network that nmcli listed.
LEMMA ListedIsSo ==
    ASSUME NEW n, NEW k, NEW states, states = States(n)
    PROVE  FirstConnected(k, states) \in
             IF {d \in Up(n) : TypeOf(d) = k} = {} THEN {"none"} ELSE {d \in Up(n) : TypeOf(d) = k}
<1>1. \A d \in NetNames : states[d] = n.link[d].state
    BY DEF States
<1>2. {d \in Up(n) : TypeOf(d) = k} = {d \in NetNames : TypeOf(d) = k /\ states[d] = "connected"}
    BY <1>1 DEF Up
<1> QED
    BY <1>2, FirstConnectedIs

\* Whatever changes or fails meanwhile, a report invents nothing.
THEOREM NothingInvented == NetSpec => []ReportedWasSo
<1>1. NetInv => ReportedWasSo
    <2> SUFFICES ASSUME NetInv, Reported PROVE ReportedWasSo
        BY DEF ReportedWasSo
    <2>1. PICK n \in held : found.states = States(n)
        BY ReportIs DEF NetInv, Founded
    <2>2. \A k \in Kinds : LET up == {d \in Up(n) : TypeOf(d) = k}
                           IN  report.interface[k] \in IF up = {} THEN {"none"} ELSE up
        BY <2>1, ReportIs, ListedIsSo
    <2>3. report.route = "none" \/ \E m \in held : m.route = report.route
        BY ReportIs DEF NetInv, Founded
    <2>4. \A s \in Parts : report.address[s] # "none" => \E m \in held : \E d \in NetNames :
                 report.interface[s] = d /\ m.link[d].address = report.address[s]
        <3> SUFFICES ASSUME NEW s \in Parts, found.address[s] # "none"
                     PROVE  \E m \in held : \E d \in NetNames :
                                report.interface[s] = d /\ m.link[d].address = found.address[s]
            BY ReportIs
        <3>1. PICK m \in held : /\ Device(s, found) \in NetNames
                                /\ m.link[Device(s, found)].address = found.address[s]
            BY DEF NetInv, Founded
        <3>2. Device(s, found) # "none"
            BY <3>1, NetworkAssumption
        <3>3. report.interface[s] = Device(s, found)
            BY <3>2, ReportIs DEF Parts, Kinds, Device
        <3> QED
            BY <3>1, <3>3
    <2>5. report.type # "none" => \E m \in held : report.interface["primary"] \in Up(m) \cup {m.route}
        <3> SUFFICES ASSUME TypeOf(Device("primary", found)) # "none"
                     PROVE  \E m \in held : report.interface["primary"] \in Up(m) \cup {m.route}
            BY ReportIs
        <3> DEFINE d == Device("primary", found)
        <3>1. d \in NetNames
            BY TypedIsListed
        <3>2. d # "none" /\ report.interface["primary"] = d
            BY <3>1, ReportIs, NetworkAssumption
        <3>3. d = found.route \/ found.states[d] = "connected"
            BY <3>2, DeviceIs DEF Parts
        <3>4. CASE d = found.route
            BY <3>2, <3>4 DEF NetInv, Founded
        <3>5. CASE found.states[d] = "connected"
            BY <2>1, <3>1, <3>2, <3>5 DEF States, Up
        <3> QED
            BY <3>3, <3>4, <3>5
    <2>6. report.connected = "no" => \E m \in held : \A d \in Up(m) : TypeOf(d) = "none"
        <3> SUFFICES ASSUME \A k \in Kinds : FirstConnected(k, found.states) = "none"
                     PROVE  \A d \in Up(n) : TypeOf(d) = "none"
            BY ReportIs
        <3>1. \A d \in NetNames : TypeOf(d) \in Kinds \cup {"none"}
            BY DEF TypeOf, Kinds
        <3>2. \A k \in Kinds : \A d \in NetNames : ~(TypeOf(d) = k /\ found.states[d] = "connected")
            BY FirstConnectedIs
        <3> QED
            BY <2>1, <3>1, <3>2 DEF Up, States
    <2> QED
        BY <2>2, <2>3, <2>4, <2>5, <2>6 DEF ReportedWasSo
<1> QED
    BY <1>1, NetInvariance, PTL

\* A report is true of the network if nothing changed and no command failed.
THEOREM QuietIsTrue == NetSpec => []QuietReportIsTrue
<1>1. NetInv => QuietReportIsTrue
    <2> SUFFICES ASSUME NetInv, Reported, held = {network}, ~failed PROVE QuietReportIsTrue
        BY DEF QuietReportIsTrue
    <2> DEFINE up == {d \in Up(network) : TypeOf(d) # "none"}
               dev == Device("primary", found)
               primary == report.interface["primary"]
    <2>1. /\ at = 8 /\ found.route = network.route /\ found.states = States(network)
          /\ found.radio = IF network.radio = "missing" THEN "no" ELSE "yes"
        BY ReportIs DEF NetInv, Quiet
    <2>2. \A d \in NetNames : found.states[d] = network.link[d].state
        BY <2>1 DEF States
    <2>3. up = {d \in NetNames : TypeOf(d) # "none" /\ found.states[d] = "connected"}
        BY <2>2 DEF Up
    <2>4. \A d : TypeOf(d) \in Kinds \cup {"none"}
        BY DEF TypeOf, Kinds
    <2>5. \A k \in Kinds :
             \/ FirstConnected(k, found.states) = "none" /\ \A d \in up : TypeOf(d) # k
             \/ /\ FirstConnected(k, found.states) # "none" /\ FirstConnected(k, found.states) \in up
                /\ TypeOf(FirstConnected(k, found.states)) = k
        <3>1. "none" \notin Kinds
            BY DEF Kinds
        <3> HIDE DEF up
        <3> QED
            BY <2>3, <3>1, FirstConnectedIs
    <2> HIDE DEF up
    <2>6. report.connected = IF up = {} THEN "no" ELSE "yes"
        <3>1. (\E k \in Kinds : FirstConnected(k, found.states) # "none") <=> up # {}
            BY <2>3, <2>4, <2>5
        <3> QED
            BY <3>1, ReportIs
    <2>7. report.route = network.route /\ report.wifi = IF network.radio = "missing" THEN "no" ELSE "yes"
        BY <2>1, ReportIs
    <2>8. \A s \in Kinds : {d \in up : TypeOf(d) = s} # {} => TypeOf(report.interface[s]) = s
        BY <2>5, ReportIs
    <2>9. \A s \in Kinds : report.interface[s] # "none" =>
             report.address[s] = network.link[report.interface[s]].address
        <3>1. \A s \in Kinds : Device(s, found) = FirstConnected(s, found.states)
            BY DEF Device, Kinds
        <3>2. \A s \in Kinds : \E i \in 5 .. 7 : Commands[i] = s
            <4>1. \A s \in Kinds : s = Commands[5] \/ s = Commands[6] \/ s = Commands[7]
                BY Order DEF Kinds
            <4> QED
                BY <4>1
        <3>3. \A s \in Kinds : Device(s, found) # "none" =>
                 found.address[s] = network.link[Device(s, found)].address
            BY <2>1, <3>2 DEF NetInv, Quiet
        <3> QED
            BY <3>1, <3>3, ReportIs
    <2>10. TypeOf(network.route) # "none" => primary = network.route
        <3> SUFFICES ASSUME TypeOf(network.route) # "none" PROVE primary = network.route
            OBVIOUS
        <3>1. dev = network.route
            BY <2>1 DEF Device, Primary
        <3>2. dev # "none"
            BY <3>1, TypedIsListed, NetworkAssumption
        <3> QED
            BY <3>1, <3>2, ReportIs
    <2>11. TypeOf(network.route) = "none" => dev = Preferred(found.states)
        BY <2>1 DEF Device, Primary
    <2>12. TypeOf(network.route) = "none" /\ up # {} =>
              primary \in up /\ \A d \in up : TypeOf(d) \notin Before(TypeOf(primary))
        <3> SUFFICES ASSUME TypeOf(network.route) = "none", up # {}
                     PROVE  primary \in up /\ \A d \in up : TypeOf(d) \notin Before(TypeOf(primary))
            OBVIOUS
        <3>1. PICK k \in Kinds : FirstConnected(k, found.states) # "none"
            BY <2>3, <2>4, <2>5
        <3>2. PICK l \in Kinds : /\ Preferred(found.states) = FirstConnected(l, found.states)
                                 /\ FirstConnected(l, found.states) # "none"
                                 /\ \A j \in Before(l) : FirstConnected(j, found.states) = "none"
            BY <3>1, PreferredIs
        <3>3. primary = FirstConnected(l, found.states) /\ TypeOf(primary) = l /\ primary \in up
            BY <2>5, <2>11, <3>2, ReportIs
        <3>4. Before(l) \subseteq Kinds
            BY DEF Before, Kinds
        <3>5. \A d \in up : TypeOf(d) \notin Before(l)
            BY <2>5, <3>2, <3>4
        <3> QED
            BY <3>3, <3>5
    <2>13. TypeOf(network.route) = "none" /\ up = {} => primary = network.route /\ report.type = "none"
        <3> SUFFICES ASSUME TypeOf(network.route) = "none", up = {}
                     PROVE  primary = network.route /\ report.type = "none"
            OBVIOUS
        <3>1. dev = "none"
            BY <2>5, <2>11, PreferredIs
        <3>2. TypeOf("none") = "none"
            BY TypedIsListed, NetworkAssumption
        <3> QED
            BY <2>1, <3>1, <3>2, ReportIs
    <2> QED
        BY <2>6, <2>7, <2>8, <2>9, <2>10, <2>12, <2>13 DEF QuietReportIsTrue, up
<1> QED
    BY <1>1, NetInvariance, PTL
=============================================================================
