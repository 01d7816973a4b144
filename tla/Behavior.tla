------------------------------ MODULE Behavior ------------------------------
(***************************************************************************)
(* From the behaviour events of one user to his profile: the collector     *)
(* writes them to the raw topic, the enricher publishes batches of them    *)
(* with their categories, the profile worker and the ClickHouse sink read  *)
(* those. All messages of a user are in one partition of each topic.       *)
(*                                                                         *)
(* A reader of the client library goes on where it is, whatever was        *)
(* committed; only a new one, after a crash or a rebalance, starts at the  *)
(* committed offset. A worker whose run fails is run again by supervise    *)
(* with the reader it had: the batch it held is not read again.            *)
(***************************************************************************)
EXTENDS Integers, Sequences, SequencesExt

CONSTANTS
    MaxCollected,  \* bound on the messages of the raw topic; events are numbered
    MaxEnriched,   \* bound on those of the enriched topic
    BatchSize,     \* of every worker (200, 100 and 1000)
    Window,        \* how many events a profile remembers (256)
    MaxFailedRuns, MaxCrashes

ASSUME BehaviorAssumption ==
    /\ MaxCollected \in Nat /\ MaxEnriched \in Nat /\ MaxFailedRuns \in Nat /\ MaxCrashes \in Nat
    /\ BatchSize \in Nat \ {0} /\ Window \in Nat

VARIABLES
    raw,      \* events in the order of their offsets
    enriched, \* records of an event and whether it counts: it has weight and categories
    at,       \* of each worker: the last offset its reader has returned,
    from,     \*   the last one before its batch,
    handled,  \*   whether the batch is published or inserted,
    committed,
    profile,  \* offset and recent events; the events counted, as a ghost
    stored,   \* the event_ids of behavior_events, which replaces equal ones
    dropped,  \* ghost: the offsets in the batches of failed runs
    failedRuns, crashes

behaviorVars == <<raw, enriched, at, from, handled, committed, profile, stored, dropped, failedRuns, crashes>>
readers == <<at, from, handled, committed>>

Workers == {"enricher", "profile", "sink"}
Source(w) == IF w = "enricher" THEN raw ELSE enriched
Batch(w) == (from[w] + 1)..at[w]

BehaviorInit ==
    /\ raw = <<>> /\ enriched = <<>>
    /\ at = [w \in Workers |-> 0] /\ from = at /\ committed = at
    /\ handled = [w \in Workers |-> FALSE]
    /\ profile = [offset |-> 0, recent |-> <<>>, counted |-> <<>>]
    /\ stored = {}
    /\ dropped = [w \in Workers |-> {}]
    /\ failedRuns = 0 /\ crashes = 0

---------------------------------------------------------------------------

\* One event of a request: written with all replicas before the answer.
\* An event has an id of its own; that a client sends one again is left out.
Collect ==
    /\ Len(raw) < MaxCollected
    /\ raw' = Append(raw, Len(raw) + 1)
    /\ UNCHANGED <<enriched, readers, profile, stored, dropped, failedRuns, crashes>>

\* The enricher and the sink gather a batch; the profile worker handles each
\* message at once (Apply).
Fetch(w) ==
    /\ at[w] < Len(Source(w)) /\ at[w] - from[w] < BatchSize /\ ~handled[w]
    /\ at' = [at EXCEPT ![w] = @ + 1]
    /\ UNCHANGED <<raw, enriched, from, handled, committed, profile, stored, dropped, failedRuns, crashes>>

\* Whether the categories are known depends on when they are looked up, so
\* the copies of an event may differ.
Enriched(offsets, known) ==
    [i \in 1..Len(offsets) |-> [event |-> raw[offsets[i]], counts |-> offsets[i] \in known]]

Offsets(w) == [i \in 1..(at[w] - from[w]) |-> from[w] + i]

\* The batch is full, or nothing came for 100 ms.
Publish ==
    /\ Batch("enricher") # {} /\ ~handled["enricher"]
    /\ Len(enriched) + Len(Offsets("enricher")) <= MaxEnriched
    /\ \E known \in SUBSET Batch("enricher") :
        enriched' = enriched \o Enriched(Offsets("enricher"), known)
    /\ handled' = [handled EXCEPT !["enricher"] = TRUE]
    /\ UNCHANGED <<raw, at, from, committed, profile, stored, dropped, failedRuns, crashes>>

Insert ==
    /\ Batch("sink") # {} /\ ~handled["sink"]
    /\ stored' = stored \cup {enriched[i].event : i \in Batch("sink")}
    /\ handled' = [handled EXCEPT !["sink"] = TRUE]
    /\ UNCHANGED <<raw, enriched, at, from, committed, profile, dropped, failedRuns, crashes>>

\* Mutant: one event too few is remembered.
RememberOneLess(recent, event) ==
    IF Len(recent) + 1 >= Window THEN Append(Tail(recent), event) ELSE Append(recent, event)

Remember(recent, event) ==
    IF Len(recent) + 1 > Window THEN Tail(Append(recent, event)) ELSE Append(recent, event)

\* updateProfileScript: one script of Redis for offset, recent events, scores.
Updated(offset) ==
    LET event == enriched[offset].event IN
    IF ~enriched[offset].counts \/ profile.offset >= offset THEN profile
    ELSE IF event \in ToSet(profile.recent) THEN [profile EXCEPT !.offset = offset]
    ELSE [offset |-> offset,
          recent |-> Remember(profile.recent, event),
          counted |-> Append(profile.counted, event)]

Apply ==
    /\ at["profile"] < Len(enriched) /\ at["profile"] - from["profile"] < BatchSize
    /\ at' = [at EXCEPT !["profile"] = @ + 1]
    /\ profile' = Updated(at["profile"] + 1)
    /\ UNCHANGED <<raw, enriched, from, handled, committed, stored, dropped, failedRuns, crashes>>

\* Mutant: the offsets are committed first.
HandledOrNot(w) == TRUE

Handled(w) == handled[w] \/ w = "profile"

Commit(w) ==
    /\ Batch(w) # {} /\ Handled(w)
    /\ committed' = [committed EXCEPT ![w] = at[w]]
    /\ from' = [from EXCEPT ![w] = at[w]]
    /\ handled' = [handled EXCEPT ![w] = FALSE]
    /\ UNCHANGED <<raw, enriched, at, profile, stored, dropped, failedRuns, crashes>>

\* Run returns an error: a lookup, a write, the script or a commit failed,
\* possibly after it was carried out; then supervise runs it again.
RunFails(w) ==
    /\ Batch(w) # {} /\ failedRuns < MaxFailedRuns
    /\ failedRuns' = failedRuns + 1
    /\ from' = [from EXCEPT ![w] = at[w]]
    /\ handled' = [handled EXCEPT ![w] = FALSE]
    /\ dropped' = [dropped EXCEPT ![w] = @ \cup Batch(w)]
    /\ UNCHANGED <<raw, enriched, at, committed, profile, stored, crashes>>

\* The script fails: the message is not in the batch yet, and is gone, too.
ScriptFails ==
    /\ at["profile"] < Len(enriched) /\ failedRuns < MaxFailedRuns
    /\ failedRuns' = failedRuns + 1
    /\ at' = [at EXCEPT !["profile"] = @ + 1]
    /\ from' = [from EXCEPT !["profile"] = at["profile"] + 1]
    /\ dropped' = [dropped EXCEPT !["profile"] = @ \cup Batch("profile") \cup {at["profile"] + 1}]
    /\ UNCHANGED <<raw, enriched, handled, committed, profile, stored, crashes>>

\* The worker process stops, or its group is rebalanced.
Crash ==
    /\ crashes < MaxCrashes /\ crashes' = crashes + 1
    /\ at' = committed /\ from' = committed
    /\ handled' = [w \in Workers |-> FALSE]
    /\ UNCHANGED <<raw, enriched, committed, profile, stored, dropped, failedRuns>>

BehaviorNext ==
    \/ Collect \/ Publish \/ Insert \/ Apply \/ ScriptFails \/ Crash
    \/ \E w \in {"enricher", "sink"} : Fetch(w)
    \/ \E w \in Workers : Commit(w) \/ RunFails(w)

BehaviorSpec == BehaviorInit /\ [][BehaviorNext]_behaviorVars

---------------------------------------------------------------------------

\* The offsets whose message has reached what the worker is for.
Reached(w) ==
    {i \in 1..Len(Source(w)) :
        CASE w = "enricher" -> raw[i] \in {enriched[j].event : j \in 1..Len(enriched)}
          [] w = "profile"  -> enriched[i].counts => enriched[i].event \in ToSet(profile.counted)
          [] w = "sink"     -> enriched[i].event \in stored}

\* A collected event is behind a committed offset only once it is published,
\* counted or stored, whatever crashes, but for the batch of a failed run.
LostOnlyByFailedRuns ==
    \A w \in Workers : 1..committed[w] \subseteq Reached(w) \cup dropped[w]

\* The comment on Run says so without that exception: batches are published
\* before their raw offsets are committed.
PublishedBeforeCommitted == 1..committed["enricher"] \subseteq Reached("enricher")

\* Copies of an event, published twice, had the same categories known.
CopiesAgree ==
    \A i, j \in 1..Len(enriched) :
        enriched[i].event = enriched[j].event => enriched[i].counts = enriched[j].counts

\* Batches published twice are counted once, while no run fails, as long as a
\* profile remembers more than what is read again after crashes: one batch if
\* the copies agree; if they do not, an event may be passed over, remembered
\* others push it out, and it takes nearly two batches. (A failed run stretches
\* what is read again beyond any bound.)
CountedOnce ==
    failedRuns = 0 /\ \/ BatchSize <= Window /\ CopiesAgree
                      \/ 2 * BatchSize <= Window + 1
        => \A i, j \in 1..Len(profile.counted) : profile.counted[i] = profile.counted[j] => i = j

=============================================================================
