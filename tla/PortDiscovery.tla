---------------------------- MODULE PortDiscovery ----------------------------
(***************************************************************************)
(* Automatic discovery (SERIAL_PORT=AUTO) from an attempt of run_agent to  *)
(* the open reader: discovery/serial.py and its callers.  The listings,    *)
(* each link and each probe are steps of their own, and adapters are       *)
(* attached, detached, renumbered and switched between any two of them.    *)
(*                                                                         *)
(* A path is <<"id", a>>, the link under /dev/serial/by-id that names an   *)
(* adapter, or <<"tty", p>>, the changing name of whatever is at port p.   *)
(***************************************************************************)
EXTENDS Naturals, FiniteSets

CONSTANTS
    Adapters,     \* USB serial adapters
    Ports,        \* /dev/ttyUSB numbers
    NoAdapter     \* nothing at a port; no reader

ASSUME DiscoveryAssumption == NoAdapter \notin Adapters /\ IsFiniteSet(Adapters)

VARIABLES
    matching,     \* adapters the USB filters (vendor, product, serial) accept
    byId,         \* adapters that get a link under /dev/serial/by-id
    at,           \* the adapter at each port
    answering,    \* adapters with a reader behind them that answers
    pc,
    state,        \* reader_state
    links,        \* by_id_candidates that are still to be resolved
    targets,      \* stable_paths_by_target: the link that resolved to a port
    candidates,   \* paths still to be probed
    verified,     \* paths whose probe succeeded
    selected,     \* selected_port: a set of at most one path
    reader,       \* the adapter of the open handle, NoAdapter once detached
    answered,     \* adapters that answered a probe of this attempt
    touched,      \* ports whose adapter changed during this attempt
    quiet         \* nothing at all changed during this attempt

setup == <<matching, byId>>
world == <<at, answering>>
found == <<links, targets, candidates, verified, selected>>
past  == <<answered, touched, quiet>>
vars  == <<setup, world, pc, state, found, reader, past>>

Paths == ({"id"} \X Adapters) \cup ({"tty"} \X Ports)

Placements ==
    {f \in [Ports -> Adapters \cup {NoAdapter}] :
        \A p, q \in Ports : f[p] = f[q] => p = q \/ f[p] = NoAdapter}

Attached == {at[p] : p \in Ports} \ {NoAdapter}

Init ==
    /\ matching \in SUBSET Adapters
    /\ byId \in SUBSET Adapters
    /\ at \in Placements
    /\ answering \in SUBSET Adapters
    /\ pc = "idle"
    /\ state = "DISCONNECTED"
    /\ links = {}
    /\ targets = [p \in Ports |-> NoAdapter]
    /\ candidates = {}
    /\ verified = {}
    /\ selected = {}
    /\ reader = NoAdapter
    /\ answered = {}
    /\ touched = {}
    /\ quiet = TRUE
-----------------------------------------------------------------------------
(* The hardware *)

Attempting == pc \in {"link", "list", "probe", "open"}

\* What the history of an attempt notes of a change at some ports.
Note(ports) ==
    /\ touched' = IF Attempting THEN touched \cup ports ELSE touched
    /\ quiet' = FALSE
    /\ UNCHANGED answered

Attach(a, p) ==
    /\ a \notin Attached
    /\ at[p] = NoAdapter
    /\ at' = [at EXCEPT ![p] = a]
    /\ Note({p})
    /\ UNCHANGED <<setup, answering, pc, state, found, reader>>

Detach(p) ==
    /\ at[p] # NoAdapter
    /\ at' = [at EXCEPT ![p] = NoAdapter]
    /\ reader' = IF reader = at[p] THEN NoAdapter ELSE reader
    /\ Note({p})
    /\ UNCHANGED <<setup, answering, pc, state, found>>

Switch(a) ==
    /\ answering' = IF a \in answering THEN answering \ {a} ELSE answering \cup {a}
    /\ Note({})
    /\ UNCHANGED <<setup, at, pc, state, found, reader>>

World ==
    \/ \E a \in Adapters, p \in Ports : Attach(a, p)
    \/ \E p \in Ports : Detach(p)
    \/ \E a \in Adapters : Switch(a)
-----------------------------------------------------------------------------
(* discover_reader_port *)

\* Faulty variant: several readers at once are taken for final.
BeginUnlessRefused ==
    /\ pc = "idle"
    /\ state # "CONFIG_ERROR"
    /\ pc' = "link"
    /\ state' = "CONNECTING"
    /\ answered' = {}
    /\ touched' = {}
    /\ quiet' = TRUE
    /\ UNCHANGED <<setup, world, found, reader>>

\* The attempt is due: run_agent calls resolve_reader_port.
Begin ==
    /\ pc = "idle"
    /\ pc' = "link"
    /\ state' = "CONNECTING"
    /\ answered' = {}
    /\ touched' = {}
    /\ quiet' = TRUE
    /\ UNCHANGED <<setup, world, found, reader>>

\* enumerate_by_id_paths.
ListLinks ==
    /\ pc = "link"
    /\ links' = Attached \cap byId
    /\ targets' = [p \in Ports |-> NoAdapter]
    /\ pc' = "list"
    /\ UNCHANGED <<setup, world, state, candidates, verified, selected, reader, past>>

\* Where a link leads by now: nowhere if its adapter was detached.
ResolveLink(a) ==
    /\ pc = "list"
    /\ links' = links \ {a}
    /\ targets' = [p \in Ports |-> IF at[p] = a THEN a ELSE targets[p]]
    /\ UNCHANGED <<setup, world, pc, state, candidates, verified, selected, reader, past>>

\* Faulty variant: a port without a link gets an empty stable path.
PathOfLink(p) == <<"id", targets[p]>>

\* candidate_port: the stable path if there is one, else the port.
PathOf(p) == IF targets[p] # NoAdapter THEN <<"id", targets[p]>> ELSE <<"tty", p>>

\* Faulty variant: the USB filters are not applied.
ListPortsUnfiltered ==
    /\ pc = "list"
    /\ links = {}
    /\ candidates' = {PathOf(p) : p \in {q \in Ports : at[q] # NoAdapter}}
    /\ verified' = {}
    /\ pc' = "probe"
    /\ UNCHANGED <<setup, world, state, links, targets, selected, reader, past>>

\* enumerate_serial_ports, and the USB filters on what it reports.
ListPorts ==
    /\ pc = "list"
    /\ links = {}
    /\ candidates' = {PathOf(p) : p \in {q \in Ports : at[q] \in matching}}
    /\ verified' = {}
    /\ pc' = "probe"
    /\ UNCHANGED <<setup, world, state, links, targets, selected, reader, past>>

\* Stable paths have the first rank; that of the others depends on their
\* descriptions.
Ranked(c) == c[1] = "tty" => \A d \in candidates : d[1] = "tty"

\* Faulty variant: a link leads where it led when it was listed.
ReachedAsListed(path) ==
    IF path[1] = "tty" THEN at[path[2]]
    ELSE IF \E p \in Ports : targets[p] = path[2]
         THEN at[CHOOSE p \in Ports : targets[p] = path[2]] ELSE NoAdapter

\* The adapter that opening a path reaches now, if any.
Reached(path) ==
    IF path[1] = "tty" THEN at[path[2]]
    ELSE IF path[2] \in Attached THEN path[2] ELSE NoAdapter

\* probe_reader_port: open, verify_reader, close; any exception is a failure.
Probe(c) ==
    /\ pc = "probe"
    /\ Ranked(c)
    /\ candidates' = candidates \ {c}
    /\ IF Reached(c) \in answering
       THEN /\ verified' = verified \cup {c}
            /\ answered' = answered \cup {Reached(c)}
       ELSE UNCHANGED <<verified, answered>>
    /\ UNCHANGED <<setup, world, pc, state, links, targets, selected, reader, touched, quiet>>

\* Faulty variant: the best of several readers is selected.
SelectFirst ==
    /\ pc = "probe"
    /\ candidates = {}
    /\ \E c \in verified : selected' = {c} /\ pc' = "open"
    /\ UNCHANGED <<setup, world, state, links, targets, candidates, verified, reader, past>>

\* Exactly one reader answered.
Select ==
    /\ pc = "probe"
    /\ candidates = {}
    /\ \E c \in verified : verified = {c}
    /\ selected' = verified
    /\ pc' = "open"
    /\ UNCHANGED <<setup, world, state, links, targets, candidates, verified, reader, past>>

\* None, or more than one, answered.
Refuse ==
    /\ pc = "probe"
    /\ candidates = {}
    /\ \A c \in verified : verified # {c}
    /\ selected' = {}
    /\ state' = IF verified = {} THEN "DISCONNECTED" ELSE "CONFIG_ERROR"
    /\ pc' = "idle"
    /\ UNCHANGED <<setup, world, links, targets, candidates, verified, reader, past>>
-----------------------------------------------------------------------------
(* run_agent *)

\* connect_and_verify_reader on the selected path, as far as discovery goes.
Connect ==
    /\ pc = "open"
    /\ \E path \in selected :
        LET a == Reached(path) IN
        IF a \in answering
        THEN pc' = "ready" /\ state' = "READY" /\ reader' = a
        ELSE /\ pc' = "idle"
             /\ state' = IF a = NoAdapter THEN "DISCONNECTED" ELSE "CONFIG_ERROR"
             /\ UNCHANGED reader
    /\ UNCHANGED <<setup, world, found, past>>

\* The next inventory raises.
Lost ==
    /\ pc = "ready"
    /\ reader = NoAdapter
    /\ state' = "DISCONNECTED"
    /\ pc' = "idle"
    /\ UNCHANGED <<setup, world, found, reader, past>>

AgentStep ==
    \/ Begin \/ ListLinks \/ ListPorts \/ Select \/ Refuse \/ Connect \/ Lost
    \/ \E a \in links : ResolveLink(a)
    \/ \E c \in candidates : Probe(c)

Next == AgentStep \/ World

Spec == Init /\ [][Next]_vars

\* Every attempt that does not end READY is repeated after
\* reader_discovery_interval, and none of its steps waits for ever.
FairSpec == Spec /\ WF_vars(AgentStep)
-----------------------------------------------------------------------------
(* Properties *)

\* Type invariant.
TypeOK ==
    /\ matching \subseteq Adapters
    /\ byId \subseteq Adapters
    /\ at \in Placements
    /\ answering \subseteq Adapters
    /\ pc \in {"idle", "link", "list", "probe", "open", "ready"}
    /\ state \in {"DISCONNECTED", "CONNECTING", "CONFIG_ERROR", "READY"}
    /\ links \subseteq Adapters
    /\ targets \in [Ports -> Adapters \cup {NoAdapter}]
    /\ candidates \subseteq Paths
    /\ verified \subseteq Paths
    /\ selected \subseteq Paths
    /\ reader \in Adapters \cup {NoAdapter}
    /\ answered \subseteq Adapters
    /\ touched \subseteq Ports
    /\ quiet \in BOOLEAN

\* The readers an attempt should find.
Eligible == Attached \cap matching \cap answering

\* In an attempt during which nothing changes, discover_reader_port selects the
\* reader if there is exactly one, reports several, and else finds none.
FindsTheOne ==
    [][ pc = "probe" /\ pc' # "probe" /\ quiet =>
          \/ /\ pc' = "open" /\ Cardinality(Eligible) = 1
             /\ \A path \in selected' : Reached(path) \in Eligible
          \/ pc' = "idle" /\ state' = "CONFIG_ERROR" /\ Cardinality(Eligible) > 1
          \/ pc' = "idle" /\ state' = "DISCONNECTED" /\ Eligible = {} ]_vars

\* The ports a path was found at.
Origins(path) == {p \in Ports : path = <<"tty", p>> \/ path = <<"id", targets[p]>>}

\* The agent reads from a reader the USB filters exclude only if the port it was
\* found at got another adapter in the middle of the attempt.
FilterKept ==
    \A path \in selected :
        pc = "ready" /\ reader \in Adapters \ matching => Origins(path) \cap touched # {}

\* The reader that is connected is one that was probed: for certain by its stable
\* path, and by a ttyUSB name if that was not given to another adapter meanwhile.
ConnectsWhatItProbed ==
    \A path \in selected :
        pc = "ready" /\ reader \in Adapters \ answered =>
            path[1] = "tty" /\ path[2] \in touched

\* Once there is one eligible reader and nothing changes any more, the agent
\* connects and stays connected.
Settles ==
    <>[][UNCHANGED world]_vars /\ <>[](Cardinality(Eligible) = 1) => <>[](state = "READY")
=============================================================================
