------------------------- MODULE PortDiscoveryProofs -------------------------
(***************************************************************************)
(* Theorems about PortDiscovery, for every set of adapters and ports.      *)
(***************************************************************************)
EXTENDS PortDiscovery, FiniteSetTheorems, TLAPS

\* A path was found at a port that got another adapter since, or still leads to
\* an adapter the filters accept.
Accepted(c) ==
    \E p \in Origins(c) :
        p \in touched \/ (at[p] \in matching /\ (c[1] = "id" => c[2] = at[p]))

\* A path that was probed leads to an adapter that answered.
Seen(c) ==
    /\ c[1] = "id" => c[2] \in answered
    /\ c[1] = "tty" => c[2] \in touched \/ at[c[2]] \in answered

\* What the attempt has found so far.
Traced ==
    /\ pc \in {"list", "probe", "open"} =>
        \A p \in Ports \ touched : targets[p] # NoAdapter => targets[p] = at[p]
    /\ pc = "probe" => \A c \in candidates \cup verified : Accepted(c)
    /\ pc = "probe" => \A c \in verified : Seen(c)
    /\ pc = "open" => \A c \in selected : Accepted(c) /\ Seen(c)

\* At most one path is selected.
Single == \A c, d \in selected : c = d

\* A path of a port that has one of some adapters.
Leads(c, adapters) == \E p \in Ports : c = PathOf(p) /\ at[p] \in adapters

\* While nothing changes, the links lead to the ports' adapters, the candidates are
\* matching adapters, those verified answer, and a matching adapter that
\* answers is among them once it has been probed.
Undisturbed ==
    /\ links \subseteq byId
    /\ quiet /\ pc = "list" =>
        \A p \in Ports : targets[p] = IF at[p] \in byId \ links THEN at[p] ELSE NoAdapter
    /\ quiet /\ pc = "probe" =>
        /\ \A p \in Ports : targets[p] = IF at[p] \in byId THEN at[p] ELSE NoAdapter
        /\ \A c \in candidates : Leads(c, matching)
        /\ \A c \in verified : Leads(c, matching \cap answering)
        /\ \A p \in Ports : at[p] \in matching \cap answering =>
                                PathOf(p) \in candidates \cup verified

IInv ==
    /\ TypeOK
    /\ Single
    /\ Traced
    /\ FilterKept
    /\ ConnectsWhatItProbed
-----------------------------------------------------------------------------
(* Paths *)

LEMMA PathCases ==
    ASSUME NEW c \in Paths
    PROVE  \/ c[1] = "id" /\ c[2] \in Adapters /\ c = <<"id", c[2]>>
           \/ c[1] = "tty" /\ c[2] \in Ports /\ c = <<"tty", c[2]>>
  BY DEF Paths

LEMMA PathOfPort ==
    ASSUME TypeOK, NEW p \in Ports
    PROVE  /\ PathOf(p) \in Paths
           /\ p \in Origins(PathOf(p))
           /\ PathOf(p)[1] = "id" => PathOf(p)[2] = targets[p] /\ targets[p] # NoAdapter
  BY DEF TypeOK, PathOf, Origins, Paths

\* What opening a path reaches, if a reader answers there.
LEMMA ReachedCases ==
    ASSUME TypeOK, NEW c \in Paths, Reached(c) \in Adapters
    PROVE  /\ c[1] = "id" => Reached(c) = c[2]
           /\ c[1] = "tty" => Reached(c) = at[c[2]]
  <1>1. CASE c[1] = "id"
    BY <1>1, DiscoveryAssumption DEF Reached
  <1>2. CASE c[1] = "tty"
    BY <1>2 DEF Reached
  <1> QED BY <1>1, <1>2, PathCases
-----------------------------------------------------------------------------
LEMMA InitIInv == Init => IInv
  <1> SUFFICES ASSUME Init PROVE IInv
    OBVIOUS
  <1>1. TypeOK
    BY DEF Init, TypeOK
  <1>2. Single /\ Traced /\ FilterKept /\ ConnectsWhatItProbed
    BY DEF Init, Single, Traced, FilterKept, ConnectsWhatItProbed
  <1> QED BY <1>1, <1>2 DEF IInv

LEMMA WorldTypeOK == ASSUME TypeOK, World PROVE TypeOK'
  <1>1. ASSUME NEW a \in Adapters, NEW p \in Ports, Attach(a, p)
        PROVE  TypeOK'
    <2>1. at' \in Placements
      BY <1>1 DEF TypeOK, Attach, Placements, Attached
    <2>2. touched' \subseteq Ports /\ quiet' \in BOOLEAN /\ answered' = answered
      BY <1>1 DEF TypeOK, Attach, Note
    <2> QED BY <1>1, <2>1, <2>2 DEF TypeOK, Attach, setup, found
  <1>2. ASSUME NEW p \in Ports, Detach(p)
        PROVE  TypeOK'
    <2>1. at' \in Placements
      BY <1>2 DEF TypeOK, Detach, Placements
    <2>2. touched' \subseteq Ports /\ quiet' \in BOOLEAN /\ answered' = answered
      BY <1>2 DEF TypeOK, Detach, Note
    <2> QED BY <1>2, <2>1, <2>2 DEF TypeOK, Detach, setup, found
  <1>3. ASSUME NEW a \in Adapters, Switch(a)
        PROVE  TypeOK'
    <2>1. touched' \subseteq Ports /\ quiet' \in BOOLEAN /\ answered' = answered
      BY <1>3 DEF TypeOK, Switch, Note
    <2> QED BY <1>3, <2>1 DEF TypeOK, Switch, setup, found
  <1> QED BY <1>1, <1>2, <1>3 DEF World

LEMMA AgentTypeOK == ASSUME TypeOK, AgentStep PROVE TypeOK'
  <1> USE DEF TypeOK, setup, world, found, past
  <1>1. CASE Begin
    BY <1>1 DEF Begin
  <1>2. CASE ListLinks
    BY <1>2 DEF ListLinks
  <1>3. ASSUME NEW a \in links, ResolveLink(a)
        PROVE  TypeOK'
    <2>1. targets' \in [Ports -> Adapters \cup {NoAdapter}]
      BY <1>3 DEF ResolveLink
    <2> QED BY <1>3, <2>1 DEF ResolveLink
  <1>4. CASE ListPorts
    <2>1. candidates' \subseteq Paths
      BY <1>4, PathOfPort DEF ListPorts
    <2> QED BY <1>4, <2>1 DEF ListPorts
  <1>5. ASSUME NEW c \in candidates, Probe(c)
        PROVE  TypeOK'
    BY <1>5 DEF Probe
  <1>6. CASE Select \/ Refuse
    BY <1>6 DEF Select, Refuse
  <1>7. CASE Connect
    BY <1>7 DEF Connect
  <1>8. CASE Lost
    BY <1>8 DEF Lost
  <1> QED BY <1>1, <1>2, <1>4, <1>5, <1>6, <1>7, <1>8, <1>3 DEF AgentStep
-----------------------------------------------------------------------------
\* A change at some ports leaves what was found elsewhere as it is.
LEMMA ChangeKeepsTrace ==
    ASSUME IInv, NEW ports \in SUBSET Ports, Note(ports),
           UNCHANGED <<setup, pc, found>>,
           \A p \in Ports \ ports : at'[p] = at[p]
    PROVE  Traced'
  <1> USE DEF setup, found
  <1> SUFFICES ASSUME Attempting PROVE Traced'
    BY DEF Traced, Attempting
  <1>1. touched' = touched \cup ports /\ answered' = answered
    BY DEF Note
  <1>2. ASSUME NEW c, Accepted(c) PROVE Accepted(c)'
    <2>1. Origins(c)' = Origins(c) /\ Origins(c) \subseteq Ports
      BY DEF Origins
    <2> QED BY <1>1, <1>2, <2>1 DEF Accepted
  <1>3. ASSUME NEW c \in Paths, Seen(c) PROVE Seen(c)'
    BY <1>1, <1>3, PathCases DEF Seen
  <1> QED BY <1>1, <1>2, <1>3 DEF IInv, TypeOK, Traced

LEMMA WorldStep == ASSUME IInv, World PROVE IInv'
  <1> USE DEF setup, found
  <1>1. /\ UNCHANGED <<setup, pc, found, answered>>
        /\ reader' \in {reader, NoAdapter}
        /\ pc = "ready" => touched' = touched
    BY DEF World, Attach, Detach, Switch, Note, Attempting
  <1>2. Traced'
    <2>1. ASSUME NEW a \in Adapters, NEW p \in Ports, Attach(a, p)
          PROVE  Traced'
      <3>1. \A q \in Ports \ {p} : at'[q] = at[q]
        BY <2>1 DEF Attach, IInv, TypeOK, Placements
      <3> QED BY <2>1, <3>1, ChangeKeepsTrace DEF Attach
    <2>2. ASSUME NEW p \in Ports, Detach(p)
          PROVE  Traced'
      <3>1. \A q \in Ports \ {p} : at'[q] = at[q]
        BY <2>2 DEF Detach, IInv, TypeOK, Placements
      <3> QED BY <2>2, <3>1, ChangeKeepsTrace DEF Detach
    <2>3. ASSUME NEW a \in Adapters, Switch(a)
          PROVE  Traced'
      BY <2>3, ChangeKeepsTrace DEF Switch
    <2> QED BY <2>1, <2>2, <2>3 DEF World
  <1>3. FilterKept' /\ ConnectsWhatItProbed' /\ Single'
    BY <1>1, DiscoveryAssumption DEF IInv, Single, FilterKept, ConnectsWhatItProbed, Origins
  <1> QED BY <1>2, <1>3, WorldTypeOK DEF IInv
-----------------------------------------------------------------------------
LEMMA ListStep ==
    ASSUME IInv, ListLinks \/ ListPorts \/ \E a \in links : ResolveLink(a)
    PROVE  IInv'
  <1> USE DEF setup, world, found, past
  <1>1. pc' \in {"list", "probe"} /\ selected' = selected
    BY DEF ListLinks, ListPorts, ResolveLink
  <1>2. FilterKept' /\ ConnectsWhatItProbed' /\ Single'
    BY <1>1 DEF IInv, Single, FilterKept, ConnectsWhatItProbed
  <1>3. ASSUME ListLinks PROVE Traced'
    BY <1>3 DEF ListLinks, IInv, Traced
  <1>4. ASSUME NEW a \in links, ResolveLink(a) PROVE Traced'
    BY <1>4 DEF ResolveLink, IInv, Traced, TypeOK
  <1>5. ASSUME ListPorts PROVE Traced'
    <2>1. ASSUME NEW p \in Ports, at[p] \in matching
          PROVE  Accepted(PathOf(p))
      BY <1>5, <2>1, PathOfPort DEF ListPorts, IInv, Traced, Accepted
    <2>2. \A c \in candidates' : Accepted(c)
      BY <1>5, <2>1 DEF ListPorts
    <2>3. \A c : Accepted(c)' <=> Accepted(c)
      BY <1>5 DEF ListPorts, Accepted, Origins
    <2> QED BY <1>5, <2>2, <2>3 DEF ListPorts, IInv, Traced
  <1>6. TypeOK'
    BY AgentTypeOK DEF IInv, AgentStep
  <1> QED BY <1>2, <1>3, <1>5, <1>6, <1>4 DEF IInv

LEMMA ProbeStep == ASSUME IInv, NEW c \in candidates, Probe(c) PROVE IInv'
  <1> USE DEF setup, world, found, past
  <1>1. /\ pc = "probe" /\ pc' = "probe" /\ c \in Paths
        /\ answered \subseteq answered'
        /\ UNCHANGED <<at, matching, targets, touched>>
    BY DEF Probe, IInv, TypeOK
  <1>2. \A d : (Accepted(d)' <=> Accepted(d)) /\ (Seen(d) => Seen(d)')
    BY <1>1 DEF Accepted, Origins, Seen
  <1>3. c \in verified' \ verified => Seen(c)'
    <2> SUFFICES ASSUME c \in verified', c \notin verified PROVE Seen(c)'
      OBVIOUS
    <2>1. Reached(c) \in answering /\ Reached(c) \in answered'
      BY DEF Probe
    <2> QED BY <1>1, <2>1, ReachedCases DEF Seen, IInv, TypeOK
  <1>4. Traced'
    BY <1>1, <1>2, <1>3 DEF Probe, IInv, Traced
  <1>5. FilterKept' /\ ConnectsWhatItProbed' /\ Single'
    BY <1>1 DEF Probe, IInv, Single, FilterKept, ConnectsWhatItProbed
  <1>6. TypeOK'
    BY AgentTypeOK DEF IInv, AgentStep
  <1> QED BY <1>4, <1>5, <1>6 DEF IInv

LEMMA ConnectStep == ASSUME IInv, Connect PROVE IInv'
  <1> USE DEF setup, world, found, past
  <1>1. TypeOK' /\ Traced' /\ Single'
    BY AgentTypeOK DEF IInv, AgentStep, Connect, Traced, Single
  <1>2. UNCHANGED <<at, matching, targets, selected, touched, answered>>
    BY DEF Connect
  <1>3. ASSUME NEW c \in selected, pc' = "ready"
        PROVE  /\ c \in Paths /\ Accepted(c) /\ Seen(c)
               /\ reader' = Reached(c) /\ reader' \in Adapters
    BY <1>3 DEF Connect, IInv, TypeOK, Traced, Single
  <1>4. FilterKept'
    <2> SUFFICES ASSUME NEW c \in selected, pc' = "ready", reader' \notin matching
                 PROVE  Origins(c) \cap touched # {}
      BY <1>2 DEF FilterKept, Origins
    <2>1. PICK p \in Origins(c) :
              p \in touched \/ (at[p] \in matching /\ (c[1] = "id" => c[2] = at[p]))
      BY <1>3 DEF Accepted
    <2>2. c[1] = "tty" => c[2] = p
      BY <2>1 DEF Origins
    <2>3. (c[1] = "id" => reader' = c[2]) /\ (c[1] = "tty" => reader' = at[c[2]])
      BY <1>3, ReachedCases DEF IInv
    <2> QED BY <1>3, <2>1, <2>2, <2>3, PathCases
  <1>5. ConnectsWhatItProbed'
    <2> SUFFICES ASSUME NEW c \in selected, pc' = "ready", reader' \notin answered
                 PROVE  c[1] = "tty" /\ c[2] \in touched
      BY <1>2 DEF ConnectsWhatItProbed
    <2>1. (c[1] = "id" => reader' = c[2]) /\ (c[1] = "tty" => reader' = at[c[2]])
      BY <1>3, ReachedCases DEF IInv
    <2> QED BY <1>3, <2>1, PathCases DEF Seen
  <1> QED BY <1>1, <1>4, <1>5 DEF IInv

LEMMA OtherSteps == ASSUME IInv, Begin \/ Select \/ Refuse \/ Lost \/ UNCHANGED vars
                    PROVE  IInv'
  <1> USE DEF setup, world, found, past
  <1>1. CASE Begin \/ Refuse \/ Lost
    <2>1. Traced' /\ FilterKept' /\ ConnectsWhatItProbed' /\ Single'
      BY <1>1 DEF Begin, Refuse, Lost, IInv, Single, Traced, FilterKept, ConnectsWhatItProbed
    <2> QED BY <1>1, <2>1, AgentTypeOK DEF IInv, AgentStep
  <1>2. CASE Select
    <2>1. \A c : (Accepted(c)' <=> Accepted(c)) /\ (Seen(c)' <=> Seen(c))
      BY <1>2 DEF Select, Accepted, Origins, Seen
    <2>2. Traced' /\ FilterKept' /\ ConnectsWhatItProbed' /\ Single'
      BY <1>2, <2>1 DEF Select, IInv, Single, Traced, FilterKept, ConnectsWhatItProbed
    <2> QED BY <1>2, <2>2, AgentTypeOK DEF IInv, AgentStep
  <1>3. CASE UNCHANGED vars
    BY <1>3 DEF vars, IInv, TypeOK, Traced, Accepted, Seen, Origins, Single,
                FilterKept, ConnectsWhatItProbed, Placements
  <1> QED BY <1>1, <1>2, <1>3
-----------------------------------------------------------------------------
(* An attempt during which nothing changes *)

\* Opening the path of a port reaches the adapter that is there.
LEMMA ReachedOfPort ==
    ASSUME TypeOK, Undisturbed, quiet, pc = "probe", NEW p \in Ports, at[p] # NoAdapter
    PROVE  Reached(PathOf(p)) = at[p]
  <1>1. targets[p] = IF at[p] \in byId THEN at[p] ELSE NoAdapter
    BY DEF Undisturbed
  <1>2. at[p] \in Attached
    BY DEF Attached
  <1> QED BY <1>1, <1>2, DiscoveryAssumption DEF TypeOK, PathOf, Reached

LEMMA UndisturbedStep == ASSUME TypeOK, Undisturbed, [Next]_vars PROVE Undisturbed'
  <1> USE DEF setup, world, found, past
  <1>1. CASE World
    BY <1>1 DEF World, Attach, Detach, Switch, Note, Undisturbed
  <1>2. CASE ListLinks
    <2>1. \A p \in Ports : at[p] \in byId => at[p] \in links'
      BY <1>2, DiscoveryAssumption DEF ListLinks, Attached, TypeOK
    <2> QED BY <1>2, <2>1 DEF ListLinks, Undisturbed
  <1>3. ASSUME NEW a \in links, ResolveLink(a) PROVE Undisturbed'
    <2> SUFFICES ASSUME quiet
                 PROVE  \A p \in Ports : targets'[p] =
                            IF at[p] \in byId \ links' THEN at[p] ELSE NoAdapter
      BY <1>3 DEF ResolveLink, Undisturbed
    <2> SUFFICES ASSUME NEW p \in Ports
                 PROVE  targets'[p] = IF at[p] \in byId \ links' THEN at[p] ELSE NoAdapter
      OBVIOUS
    <2>1. /\ targets[p] = IF at[p] \in byId \ links THEN at[p] ELSE NoAdapter
          /\ links' = links \ {a}
          /\ targets'[p] = IF at[p] = a THEN a ELSE targets[p]
      BY <1>3 DEF ResolveLink, Undisturbed
    <2>2. a \in byId
      BY DEF Undisturbed
    <2> QED BY <2>1, <2>2
  <1>4. CASE ListPorts
    <2>1. \A q \in Ports : PathOf(q)' = PathOf(q)
      BY <1>4 DEF ListPorts, PathOf
    <2>2. \A c \in candidates' : Leads(c, matching)'
      BY <1>4, <2>1 DEF ListPorts, Leads
    <2> QED BY <1>4, <2>1, <2>2 DEF ListPorts, Undisturbed
  <1>5. ASSUME NEW c \in candidates, Probe(c) PROVE Undisturbed'
    <2> SUFFICES ASSUME quiet PROVE Undisturbed'
      BY <1>5 DEF Probe, Undisturbed
    <2>1. /\ pc = "probe" /\ pc' = "probe"
          /\ UNCHANGED <<matching, byId, at, answering, links, targets>>
          /\ candidates' = candidates \ {c}
      BY <1>5 DEF Probe
    <2>2. \A d : /\ Leads(d, matching)' <=> Leads(d, matching)
                 /\ Leads(d, matching \cap answering)' <=> Leads(d, matching \cap answering)
      BY <2>1 DEF Leads, PathOf
    <2>3. \A q \in Ports : PathOf(q)' = PathOf(q)
      BY <2>1 DEF PathOf
    <2>4. PICK p \in Ports : c = PathOf(p) /\ at[p] \in matching
      BY <2>1 DEF Undisturbed, Leads
    <2>5. Reached(c) = at[p]
      BY <2>1, <2>4, ReachedOfPort, DiscoveryAssumption DEF TypeOK
    <2>6. verified' = IF at[p] \in answering THEN verified \cup {c} ELSE verified
      BY <1>5, <2>5 DEF Probe
    <2>7. \A d \in verified' : Leads(d, matching \cap answering)'
      <3>1. at[p] \in answering => Leads(c, matching \cap answering)
        BY <2>4 DEF Leads
      <3> QED BY <2>1, <2>2, <2>6, <3>1 DEF Undisturbed
    <2>8. ASSUME NEW q \in Ports, at[q] \in matching \cap answering
          PROVE  PathOf(q) \in candidates' \cup verified'
      <3>1. CASE PathOf(q) = c
        <4>1. at[q] = at[p]
          BY <2>1, <2>5, <2>8, <3>1, ReachedOfPort, DiscoveryAssumption DEF TypeOK
        <4> QED BY <2>6, <2>8, <3>1, <4>1
      <3>2. CASE PathOf(q) # c
        BY <2>1, <2>6, <2>8, <3>2 DEF Undisturbed
      <3> QED BY <3>1, <3>2
    <2>9. \A d \in candidates' : Leads(d, matching)'
      BY <2>1, <2>2 DEF Undisturbed
    <2> QED BY <2>1, <2>3, <2>7, <2>8, <2>9 DEF Undisturbed
  <1>6. CASE Begin \/ Select \/ Refuse \/ Connect \/ Lost
    BY <1>6 DEF Begin, Select, Refuse, Connect, Lost, Undisturbed
  <1>7. CASE UNCHANGED vars
    BY <1>7 DEF vars, Undisturbed, Leads, PathOf
  <1> QED BY <1>1, <1>2, <1>4, <1>5, <1>6, <1>7, <1>3 DEF Next, AgentStep

\* When the candidates are used up, the paths verified are those of the eligible
\* readers, one each.
LEMMA VerifiedAreEligible ==
    ASSUME TypeOK, Undisturbed, quiet, pc = "probe", candidates = {}
    PROVE  /\ Eligible = {Reached(c) : c \in verified}
           /\ \A c, d \in verified : Reached(c) = Reached(d) => c = d
  <1>1. ASSUME NEW c \in verified
        PROVE  \E p \in Ports : c = PathOf(p) /\ Reached(c) = at[p] /\ at[p] \in Eligible
    <2>1. PICK p \in Ports : c = PathOf(p) /\ at[p] \in matching \cap answering
      BY DEF Undisturbed, Leads
    <2>2. at[p] # NoAdapter
      BY <2>1, DiscoveryAssumption DEF TypeOK
    <2>3. at[p] \in Eligible
      BY <2>1, <2>2 DEF Eligible, Attached
    <2> QED BY <2>1, <2>2, <2>3, ReachedOfPort
  <1>2. ASSUME NEW a \in Eligible PROVE \E c \in verified : a = Reached(c)
    <2>1. PICK p \in Ports : a = at[p] /\ at[p] # NoAdapter
      BY DEF Eligible, Attached
    <2>2. PathOf(p) \in verified
      BY <2>1 DEF Undisturbed, Eligible
    <2> QED BY <2>1, <2>2, ReachedOfPort
  <1>3. ASSUME NEW c \in verified, NEW d \in verified, Reached(c) = Reached(d) PROVE c = d
    <2>1. PICK p \in Ports : c = PathOf(p) /\ Reached(c) = at[p] /\ at[p] \in Eligible
      BY <1>1
    <2>2. PICK q \in Ports : d = PathOf(q) /\ Reached(d) = at[q] /\ at[q] \in Eligible
      BY <1>1
    <2>3. p = q
      BY <1>3, <2>1, <2>2 DEF TypeOK, Placements, Eligible, Attached
    <2> QED BY <2>1, <2>2, <2>3
  <1> QED BY <1>1, <1>2, <1>3

LEMMA EligibleCounted ==
    ASSUME TypeOK
    PROVE  /\ Cardinality(Eligible) \in Nat
           /\ Cardinality(Eligible) = 0 <=> Eligible = {}
           /\ Cardinality(Eligible) = 1 <=> \E a : Eligible = {a}
  <1>1. IsFiniteSet(Eligible)
    BY DiscoveryAssumption, FS_Subset DEF Eligible, TypeOK
  <1> QED BY <1>1, FS_CardinalityType, FS_EmptySet, FS_Singleton

\* A verdict is that of the eligible readers, if nothing changed.
Verdict ==
    pc = "probe" /\ pc' # "probe" /\ quiet =>
      \/ /\ pc' = "open" /\ Cardinality(Eligible) = 1
         /\ \A path \in selected' : Reached(path) \in Eligible
      \/ pc' = "idle" /\ state' = "CONFIG_ERROR" /\ Cardinality(Eligible) > 1
      \/ pc' = "idle" /\ state' = "DISCONNECTED" /\ Eligible = {}

LEMMA VerdictStep == ASSUME TypeOK, Undisturbed, [Next]_vars PROVE Verdict
  <1> USE DEF setup, world, found, past
  <1> SUFFICES ASSUME pc = "probe", pc' # "probe", quiet PROVE Verdict
    BY DEF Verdict
  <1>1. Select \/ Refuse
    BY DEF Next, AgentStep, World, Attach, Detach, Switch, Begin, ListLinks, ResolveLink, ListPorts,
           Probe, Connect, Lost, vars
  <1>2. candidates = {}
    BY <1>1 DEF Select, Refuse
  <1>3. /\ Eligible = {Reached(c) : c \in verified}
        /\ \A c, d \in verified : Reached(c) = Reached(d) => c = d
    BY <1>2, VerifiedAreEligible
  <1>4. CASE Select
    <2>1. PICK c \in verified : verified = {c}
      BY <1>4 DEF Select
    <2>2. Eligible = {Reached(c)}
      BY <1>3, <2>1
    <2> QED BY <1>4, <2>1, <2>2, EligibleCounted DEF Select, Verdict
  <1>5. CASE Refuse /\ verified = {}
    BY <1>3, <1>5 DEF Refuse, Verdict
  <1>6. CASE Refuse /\ verified # {}
    <2>1. PICK c \in verified, d \in verified : c # d
      BY <1>6 DEF Refuse
    <2>2. Reached(c) \in Eligible /\ Reached(d) \in Eligible /\ Reached(c) # Reached(d)
      BY <1>3, <2>1
    <2>3. Cardinality(Eligible) > 1
      BY <2>2, EligibleCounted
    <2> QED BY <1>6, <2>3 DEF Refuse, Verdict
  <1> QED BY <1>1, <1>4, <1>5, <1>6
-----------------------------------------------------------------------------
\* The inductive invariant holds in every reachable state.
THEOREM Invariance == Spec => []IInv
  <1>1. IInv /\ [Next]_vars => IInv'
    BY WorldStep, ListStep, ProbeStep, ConnectStep, OtherSteps DEF Next, AgentStep
  <1> QED BY <1>1, InitIInv, PTL DEF Spec

\* Types of the attempt, of what it found and of the hardware.
THEOREM TypeCorrect == Spec => []TypeOK
  <1>1. IInv => TypeOK
    BY DEF IInv
  <1> QED BY <1>1, Invariance, PTL

\* discover_reader_port selects a reader that the USB filters exclude only if a
\* port got another adapter in the middle of the attempt.
THEOREM KeepsFilter == Spec => []FilterKept
  <1>1. IInv => FilterKept
    BY DEF IInv
  <1> QED BY <1>1, Invariance, PTL

\* connect_and_verify_reader opens the reader that probe_reader_port verified,
\* unless a ttyUSB name passed to another adapter in between.
THEOREM ReaderWasProbed == Spec => []ConnectsWhatItProbed
  <1>1. IInv => ConnectsWhatItProbed
    BY DEF IInv
  <1> QED BY <1>1, Invariance, PTL

\* Of an attempt during which nothing changes, discover_reader_port selects the
\* reader if there is exactly one, reports several, and else finds none: no adapter
\* is counted twice, under two names, and none is left out.
THEOREM AttemptFindsTheOne == Spec => FindsTheOne
  <1>1. Init => Undisturbed
    BY DEF Init, Undisturbed
  <1>2. TypeOK /\ Undisturbed /\ [Next]_vars => Undisturbed'
    BY UndisturbedStep
  <1>3. TypeOK /\ Undisturbed /\ [Next]_vars => [Verdict]_vars
    BY VerdictStep
  <1>4. [][Verdict]_vars => FindsTheOne
    BY PTL DEF Verdict, FindsTheOne
  <1> QED BY <1>1, <1>2, <1>3, <1>4, TypeCorrect, PTL DEF Spec
=============================================================================
