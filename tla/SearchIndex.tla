---------------------------- MODULE SearchIndex ----------------------------
(***************************************************************************)
(* The search index: consumers of the outbox's events write the documents  *)
(* of the products concerned through an alias, while a rebuild fills a new *)
(* index, moves the alias and replays the outbox rows created since it     *)
(* started. Neither writes under a lock or with a version: the last write  *)
(* wins.                                                                   *)
(*                                                                         *)
(* Relays and partitions deliver in no particular order, and again after a *)
(* crash, so a consumer takes any row that is not done.                    *)
(***************************************************************************)
EXTENDS Catalog

CONSTANTS
    Consumers,    \* processes of the group "search-indexer"
    Rebuild,      \* the process search-reindex
    PageSize,     \* ids read at a time by the rebuild (500)
    MaxFaults     \* bound on crashes and repeated deliveries

ASSUME SearchAssumption ==
    Rebuild \notin Consumers /\ PageSize \in Nat \ {0} /\ MaxFaults \in Nat

VARIABLES
    index,        \* the documents of the old and of the new index
    alias,        \* the one searches and IndexProduct use
    done,         \* outbox rows whose message is committed
    worker,       \* what each process is indexing
    rebuild,      \* phase and cursor of the rebuild
    raced,        \* ghost: products that changed where the rebuild cannot see it
    faults

searchVars == <<index, alias, done, worker, rebuild, raced, faults>>
vars == <<catalogVars, searchVars>>

Processes == Consumers \cup {Rebuild}
Resting   == [event |-> 0, todo |-> {}, step |-> "next", product |-> 0, doc |-> 0]

Init ==
    /\ CatalogInit
    /\ alias = "old"
    /\ index = [i \in {"old", "new"} |-> [p \in Products |-> IF i = "old" THEN Document(p) ELSE 0]]
    /\ done = {}
    /\ worker = [w \in Processes |-> Resting]
    /\ rebuild = [phase |-> "before", cursor |-> 0]
    /\ raced = {}
    /\ faults = 0

Fault == faults < MaxFaults /\ faults' = faults + 1

---------------------------------------------------------------------------
(* Service.IndexProduct, for whoever calls it: SearchDocument reads the    *)
(* database, then the document is written or deleted. The statements of    *)
(* the read are one step: a change between two of them has an event of its *)
(* own still to come, like one right after the read.                       *)

ReadDocument(w, p) ==
    /\ worker[w].step = "next" /\ p \in worker[w].todo
    /\ worker' = [worker EXCEPT ![w].step = "write", ![w].product = p, ![w].doc = Document(p)]
    /\ UNCHANGED <<index, alias, done, rebuild, raced, faults>>

\* The scan fills the index it made; everything else goes through the alias.
Target(w) == IF w = Rebuild /\ rebuild.phase = "scan" THEN "new" ELSE alias

WriteDocument(w) ==
    /\ worker[w].step = "write"
    /\ index' = [index EXCEPT ![Target(w)][worker[w].product] = worker[w].doc]
    /\ worker' = [worker EXCEPT ![w] = [Resting EXCEPT !.event = worker[w].event,
                                                       !.todo = worker[w].todo \ {worker[w].product}]]
    /\ UNCHANGED <<alias, done, rebuild, raced, faults>>

IndexStep(w) == (\E p \in Products : ReadDocument(w, p)) \/ WriteDocument(w)

---------------------------------------------------------------------------
(* The consumer.                                                           *)

Fetch(c, e) ==
    /\ worker[c].event = 0
    /\ e \notin done /\ \A d \in Consumers : worker[d].event # e
    /\ worker' = [worker EXCEPT ![c].event = e, ![c].todo = Affected(outbox[e])]
    /\ UNCHANGED <<index, alias, done, rebuild, raced, faults>>

\* A message committed with products still to do.
CommitAfterOne(c) ==
    /\ worker[c].event # 0 /\ worker[c].step = "next"
    /\ worker[c].todo # Affected(outbox[worker[c].event])
    /\ done' = done \cup {worker[c].event}
    /\ worker' = [worker EXCEPT ![c] = Resting]
    /\ UNCHANGED <<index, alias, rebuild, raced, faults>>

\* Every product of the message is indexed: its offset is committed.
CommitMessage(c) ==
    /\ worker[c].event # 0 /\ worker[c].step = "next" /\ worker[c].todo = {}
    /\ done' = done \cup {worker[c].event}
    /\ worker' = [worker EXCEPT ![c] = Resting]
    /\ UNCHANGED <<index, alias, rebuild, raced, faults>>

ConsumerStep(c) ==
    \/ \E e \in DOMAIN outbox : Fetch(c, e)
    \/ IndexStep(c)
    \/ CommitMessage(c)

\* A crash, a failed read, write or commit: the message is processed anew.
ConsumerFails(c) ==
    /\ Fault
    /\ worker[c].event # 0
    /\ worker' = [worker EXCEPT ![c] = Resting]
    /\ UNCHANGED <<index, alias, done, rebuild, raced>>

\* A relay publishes the row once more.
PublishedAgain(e) ==
    /\ Fault
    /\ e \in done
    /\ done' = done \ {e}
    /\ UNCHANGED <<index, alias, worker, rebuild, raced>>

---------------------------------------------------------------------------
(* The rebuild.                                                            *)

RebuildRests == worker[Rebuild].step = "next" /\ worker[Rebuild].todo = {}

\* snapshotStarted, then the new index.
StartRebuild ==
    /\ rebuild.phase = "before"
    /\ rebuild' = [phase |-> "scan", cursor |-> 0]
    /\ epoch' = 1
    /\ UNCHANGED <<product, approved, txn, outbox, index, alias, done, worker, raced, faults>>

\* The next page of ids; with none left the alias is moved.
Unread == {p \in Products : p > rebuild.cursor /\ product[p] # Absent}
Page   == {p \in Unread : Cardinality({q \in Unread : q < p}) < PageSize}

NextPage ==
    /\ rebuild.phase = "scan" /\ RebuildRests
    /\ IF Unread # {}
       THEN /\ worker' = [worker EXCEPT ![Rebuild].todo = Page]
            /\ \E last \in Page : /\ \A q \in Page : q <= last
                                  /\ rebuild' = [rebuild EXCEPT !.cursor = last]
            /\ UNCHANGED alias
       ELSE /\ alias' = "new"
            /\ rebuild' = [rebuild EXCEPT !.phase = "switched"]
            /\ UNCHANGED worker
    /\ UNCHANGED <<index, done, raced, faults>>

\* A replay of what is created from now on.
ReplayFromNow ==
    /\ rebuild.phase = "switched"
    /\ worker' = [worker EXCEPT ![Rebuild].todo =
                      UNION {Affected(e) : e \in {f \in Range(outbox) : f.epoch > 1}}]
    /\ rebuild' = [rebuild EXCEPT !.phase = "replay"]
    /\ UNCHANGED <<index, alias, done, raced, faults>>

\* The rows committed by now and created since the start; the replay reads
\* each product again, so a product named twice is no different from once.
Replay ==
    /\ rebuild.phase = "switched"
    /\ worker' = [worker EXCEPT ![Rebuild].todo =
                      UNION {Affected(e) : e \in {f \in Range(outbox) : f.epoch >= 1}}]
    /\ rebuild' = [rebuild EXCEPT !.phase = "replay"]
    /\ UNCHANGED <<index, alias, done, raced, faults>>

FinishRebuild ==
    /\ rebuild.phase = "replay" /\ RebuildRests
    /\ rebuild' = [rebuild EXCEPT !.phase = "finished"]
    /\ UNCHANGED <<index, alias, done, worker, raced, faults>>

RebuildStep == NextPage \/ Replay \/ FinishRebuild \/ IndexStep(Rebuild)

\* Any error ends the program. Before the switch that leaves an index nobody
\* uses; after it, one that may lack every change since the start.
RebuildFails ==
    /\ Fault
    /\ rebuild.phase \in {"scan", "switched", "replay"}
    /\ rebuild' = [rebuild EXCEPT !.phase = "failed"]
    /\ worker' = [worker EXCEPT ![Rebuild] = Resting]
    /\ raced' = IF alias = "new" THEN Products ELSE raced
    /\ UNCHANGED <<index, alias, done>>

---------------------------------------------------------------------------

\* The two changes a rebuild misses: a row written before the start and
\* committed during the scan, which the replay leaves out; and one committed
\* after the replay has read the product and before it writes what it read.
Missed(e) ==
    {p \in Affected(e) :
        \/ rebuild.phase = "scan" /\ e.epoch = 0
        \/ /\ rebuild.phase = "replay"
           /\ worker[Rebuild].step # "next" /\ worker[Rebuild].product = p}

CatalogStep ==
    /\ CatalogNext
    /\ raced' = IF outbox' = outbox THEN raced ELSE raced \cup Missed(Last(outbox'))
    /\ UNCHANGED <<index, alias, done, worker, rebuild, faults>>

Next ==
    \/ CatalogStep
    \/ StartRebuild
    \/ UNCHANGED catalogVars /\ \/ \E c \in Consumers : ConsumerStep(c) \/ ConsumerFails(c)
                                \/ \E e \in DOMAIN outbox : PublishedAgain(e)
                                \/ RebuildStep \/ RebuildFails

\* The loop of a consumer retries without end; a rebuild that has begun goes on.
\* Nobody has to start one, nor a transaction.
Fairness ==
    /\ \A c \in Consumers : WF_vars(UNCHANGED catalogVars /\ ConsumerStep(c))
    /\ WF_vars(UNCHANGED catalogVars /\ RebuildStep)

Spec == Init /\ [][Next]_vars /\ Fairness

---------------------------------------------------------------------------

\* docker-compose.yml runs one indexer. Of two, one that has read a product may
\* write it after the other has written what it is since.
OneIndexer == \A c, d \in Consumers : c = d

Stale == {p \in Products : index[alias][p] # Document(p)}

Settled ==
    /\ done = DOMAIN outbox
    /\ rebuild.phase \in {"before", "finished", "failed"}

\* Once every message is committed and no rebuild is under way, what searches
\* see of a product is its current state, in whatever order and however often
\* messages came, but for the changes the rebuild had no way to see.
OnlyTheRebuildLeavesStale == Settled => Stale \subseteq raced

\* The index catches up: with the consumers at work and no more changes, every
\* product is shown as it is, but for those changes.
IndexCatchesUp == <>[](Stale \subseteq raced)

=============================================================================
