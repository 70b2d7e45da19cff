----------------------------- MODULE TagTracking -----------------------------
(***************************************************************************)
(* PresenceState of event_engine/state.py between the radio field and the  *)
(* stream of ENTER and EXIT events: one step per iteration of the agent's  *)
(* loop, tags that come and go, readings that miss a tag or name one that  *)
(* is not there, stretches of time without any reading, restarts of the    *)
(* process.                                                                *)
(*                                                                         *)
(* visible_tags maps a tag to the wall-clock time it was last seen.  Only  *)
(* the difference to now is ever used, so the model keeps that age.  Time  *)
(* is counted in units of the shortest scan interval, and ages saturate at *)
(* ExitTimeout, beyond which the code does not distinguish them.           *)
(***************************************************************************)
EXTENDS Naturals, FiniteSets

CONSTANTS
    Tags,         \* EPCs
    ExitTimeout,  \* EXIT_TIMEOUT
    MaxGap,       \* bound: wall-clock time from one iteration to the next
    MaxMisses,    \* bound: valid readings in a row that miss a tag in the field
    MaxRestarts   \* bound: restarts of the process

ASSUME TrackingAssumption ==
    /\ ExitTimeout \in Nat \ {0}
    /\ MaxGap \in Nat \ {0}
    /\ MaxMisses \in Nat
    /\ MaxRestarts \in Nat

VARIABLES
    field,     \* the tags in the reader's field
    visible,   \* the keys of visible_tags
    age,       \* now - last_seen of each visible tag
    enters,    \* tags of the ENTER events this step returned
    exits,     \* tags of the EXIT events this step returned
    inside,    \* what a consumer of all events so far believes to be present
    misses,    \* valid readings in a row that missed a tag in the field
    strayed,   \* tags that were out of the field at some time since last seen
    blind,     \* tags last seen before the last outage
    away,      \* time since a tag was in the field or read
    answered,  \* whether the last iteration had a valid reading
    restarts   \* restarts of the process

vars == <<field, visible, age, enters, exits, inside, misses, strayed, blind,
          away, answered, restarts>>

presence == <<visible, age>>
Silent == enters' = {} /\ exits' = {} /\ UNCHANGED inside

Init ==
    /\ field = {}
    /\ visible = {}
    /\ age = [t \in Tags |-> 0]
    /\ enters = {}
    /\ exits = {}
    /\ inside = {}
    /\ misses = [t \in Tags |-> 0]
    /\ strayed = Tags
    /\ blind = {}
    /\ away = [t \in Tags |-> ExitTimeout]
    /\ answered = FALSE
    /\ restarts = 0
-----------------------------------------------------------------------------
(* PresenceState *)

Elapse(time, d) == IF time + d < ExitTimeout THEN time + d ELSE ExitTimeout

\* The age of every entry once the tags just read are marked as seen now.
AgeAt(d, seen) == [t \in Tags |-> IF t \in seen THEN 0 ELSE Elapse(age[t], d)]

\* Faulty variant: the sweep uses the times from before this reading.
ExpiredStale(d, seen) == {t \in visible : Elapse(age[t], d) >= ExitTimeout}

\* The entries whose last sight is exit_timeout ago.
Expired(d, seen) == {t \in visible \cup seen : AgeAt(d, seen)[t] >= ExitTimeout}

\* Faulty variants: expired entries are reported, and kept; a reading replaces
\* the dictionary; an empty reading is skipped; an EXIT names the key of the entry,
\* which begins with the reader's name.
UpdateAndKeep(d, seen) ==
    /\ enters' = seen \ visible
    /\ exits' = Expired(d, seen)
    /\ visible' = visible \cup seen
    /\ age' = AgeAt(d, seen)

UpdateReplacing(d, seen) ==
    /\ enters' = seen \ visible
    /\ exits' = Expired(d, seen)
    /\ visible' = seen
    /\ age' = [t \in Tags |-> 0]

UpdateNonEmpty(d, seen) ==
    /\ enters' = seen \ visible
    /\ exits' = IF seen = {} THEN {} ELSE Expired(d, seen)
    /\ visible' = (visible \cup seen) \ exits'
    /\ age' = [t \in Tags |-> IF t \in visible' THEN AgeAt(d, seen)[t] ELSE 0]

UpdateNamingKeys(d, seen) ==
    /\ enters' = seen \ visible
    /\ exits' = {<<"reader", t>> : t \in Expired(d, seen)}
    /\ visible' = (visible \cup seen) \ Expired(d, seen)
    /\ age' = [t \in Tags |-> IF t \in visible' THEN AgeAt(d, seen)[t] ELSE 0]

\* state.update(tags): ENTER for new keys, then EXIT for expired ones, which
\* are removed.
Update(d, seen) ==
    /\ enters' = seen \ visible
    /\ exits' = Expired(d, seen)
    /\ visible' = (visible \cup seen) \ exits'
    /\ age' = [t \in Tags |-> IF t \in visible' THEN AgeAt(d, seen)[t] ELSE 0]
-----------------------------------------------------------------------------
(* The world *)

TagArrives(t) ==
    /\ t \notin field
    /\ field' = field \cup {t}
    /\ away' = [away EXCEPT ![t] = 0]
    /\ misses' = [misses EXCEPT ![t] = 0]
    /\ Silent
    /\ UNCHANGED <<presence, strayed, blind, answered, restarts>>

TagLeaves(t) ==
    /\ t \in field
    /\ field' = field \ {t}
    /\ strayed' = strayed \cup {t}
    /\ misses' = [misses EXCEPT ![t] = 0]
    /\ Silent
    /\ UNCHANGED <<presence, blind, away, answered, restarts>>

Ages(d, seen) == away' = [t \in Tags |-> IF t \in field \cup seen THEN 0 ELSE Elapse(away[t], d)]
-----------------------------------------------------------------------------
(* The agent *)

\* A VALID inventory result, which has all tags of the field but those that may be
\* missed once more.
Reading(d, seen) ==
    /\ \A t \in field \ seen : misses[t] < MaxMisses
    /\ Update(d, seen)
    /\ inside' = (inside \cup enters') \ exits'
    /\ misses' = [t \in Tags |-> IF t \in field \ seen THEN misses[t] + 1 ELSE 0]
    /\ strayed' = strayed \ (seen \cap field)
    /\ blind' = blind \ seen
    /\ Ages(d, seen)
    /\ answered' = TRUE
    /\ UNCHANGED <<field, restarts>>

AnsweredScan == \E d \in 1 .. MaxGap, seen \in SUBSET field : Reading(d, seen)

\* The reply was late, of an earlier field, or a byte of it was disturbed, which no
\* CRC tells of one that counts tags.
Misread == \E d \in 1 .. MaxGap, seen \in SUBSET Tags : ~(seen \subseteq field) /\ Reading(d, seen)

\* NO_RESPONSE, MALFORMED, or no reader at all: update is not called, and the
\* wall clock runs on.
NoReading ==
    /\ \E d \in 1 .. MaxGap :
        /\ age' = [t \in Tags |-> IF t \in visible THEN Elapse(age[t], d) ELSE 0]
        /\ Ages(d, {})
    /\ Silent
    /\ blind' = Tags
    /\ answered' = FALSE
    /\ UNCHANGED <<field, visible, misses, strayed, restarts>>

\* A new process has an empty PresenceState; the consumer remembers.
Restart ==
    /\ restarts < MaxRestarts
    /\ restarts' = restarts + 1
    /\ visible' = {}
    /\ age' = [t \in Tags |-> 0]
    /\ Silent
    /\ answered' = FALSE
    /\ UNCHANGED <<field, misses, strayed, blind, away>>

World == \E t \in Tags : TagArrives(t) \/ TagLeaves(t)

Next == AnsweredScan \/ Misread \/ NoReading \/ Restart \/ World

Spec == Init /\ [][Next]_vars

\* The loop goes on, and the reader answers again and again.
FairSpec == Spec /\ WF_vars(AnsweredScan)
-----------------------------------------------------------------------------
(* Properties *)

\* Type invariant.
TypeOK ==
    /\ field \subseteq Tags
    /\ visible \subseteq Tags
    /\ age \in [Tags -> 0 .. ExitTimeout]
    /\ enters \subseteq Tags
    /\ exits \subseteq Tags
    /\ inside \subseteq Tags
    /\ misses \in [Tags -> 0 .. MaxMisses]
    /\ strayed \subseteq Tags
    /\ blind \subseteq Tags
    /\ away \in [Tags -> 0 .. ExitTimeout]
    /\ answered \in BOOLEAN
    /\ restarts \in 0 .. MaxRestarts

\* Within one life of the process the stream of a tag alternates: ENTER only
\* when the stream says it is outside, EXIT only when it says it is inside.
Alternates ==
    [][ restarts' = 0 =>
        /\ enters' \cap inside = {}
        /\ exits' \subseteq inside \cup enters' ]_vars

\* Readings miss a tag too rarely, and come too often, for the misses alone to
\* keep a tag unseen for the timeout.
MissesAreShort == MaxMisses * MaxGap < ExitTimeout

\* Then there is no EXIT for a tag that never left the field since it was last
\* seen, unless an outage came in between.
NoFalseExitIfShort == MissesAreShort => exits \subseteq strayed \cup blind

\* After a valid reading, however long the outage before it, the stream has no
\* tag inside that was neither in the field nor read for the exit timeout.
NoLinger ==
    answered /\ restarts = 0 => \A t \in inside : away[t] < ExitTimeout

\* A tag that stays in the field is reported, after restarts too; one that
\* stays away, if tags that are not there are at last read no more, is reported gone
\* by the process that reported it.
EventuallyTold ==
    \A t \in Tags :
        /\ t \in field ~> t \in inside \/ t \notin field
        /\ <>[][~Misread]_vars =>
             (t \in inside /\ t \notin field ~> t \notin inside \/ t \in field \/ restarts > 0)
-----------------------------------------------------------------------------
(* What README.md says of outages, and the code does not keep.             *)

\* "... a USB unplug or reader power loss does not create false EXIT events for
\* tags that were last known to be present": no EXIT for a tag that never left
\* the field since it was last seen.
NoFalseExit == exits \subseteq strayed
=============================================================================
