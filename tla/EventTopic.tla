---------------------------- MODULE EventTopic ----------------------------
(***************************************************************************)
(* The Kafka topic of domain events, between the outbox relay and the      *)
(* notification service: one partition, as all events of one aggregate     *)
(* share a key and so a partition. Kafka itself is not part of the         *)
(* repository: an acknowledged write is taken to stay.                     *)
(*                                                                         *)
(* faults counts crashes and failed calls; they stop at MaxFaults, so that *)
(* what must happen eventually can be asked for.                           *)
(***************************************************************************)
EXTENDS Integers, FiniteSets, Sequences, SequencesExt

CONSTANTS
    EventIds,     \* outbox_events.id, numbered in the order of created_at
    MaxFaults     \* bound on crashes and failed calls

ASSUME TopicAssumption == EventIds \subseteq Nat /\ MaxFaults \in Nat

VARIABLES log, faults

topicVars == <<log, faults>>

Fault == faults < MaxFaults /\ faults' = faults + 1

TopicInit == log = <<>> /\ faults = 0

=============================================================================
