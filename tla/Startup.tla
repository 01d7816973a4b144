------------------------------ MODULE Startup ------------------------------
(***************************************************************************)
(* How the processes come up on one database. Every replica of the API     *)
(* runs the core migrations, which create all tables in the schema public, *)
(* without a lock; the Identity, Seller and Chat services then move the    *)
(* tables that are theirs to a schema of their own, and the Assistant and  *)
(* the Notification service create theirs, each in one transaction under   *)
(* an advisory lock. The core migrations name their tables without a       *)
(* schema: one that is run after a move it was not written for fails, and  *)
(* so does the start of the API, now and ever after.                       *)
(***************************************************************************)
EXTENDS Integers, FiniteSets

CONSTANTS
    Starters,   \* processes that may be deployed
    ServiceOf,  \* of each: api, identity, seller, chat, assistant, notification
    MaxDeployed, MaxReboots

ASSUME StartupAssumption ==
    /\ MaxDeployed \in Nat /\ MaxReboots \in Nat
    /\ ServiceOf \in [Starters -> {"api", "identity", "seller", "chat", "assistant", "notification"}]

VARIABLES
    coreLog,  \* does public.schema_migrations exist?
    core,     \* the core migrations applied: those from 1 to this one
    migrated, \* the services whose schema and migrations are committed
    made,     \* processes that have created a schema and not committed it
    boot,     \* where each process is
    version,  \* the core migration it found missing
    reboots

startupVars == <<coreLog, core, migrated, made, boot, version, reboots>>

LastCore == 11 \* 0011_recommendation_indexes.sql

\* The services whose (later) tables a core migration creates, and those
\* whose tables it names: fills, alters or refers to.
CreatesTablesOf(v) ==
    CASE v = 1 -> {"identity", "seller"} [] v = 8 -> {"chat"} [] OTHER -> {}

NamesTablesOf(v) ==
    CASE v = 2 -> {"identity"}
      [] v \in {4, 10} -> {"seller"}
      [] v \in {8, 9} -> {"identity", "seller"}
      [] OTHER -> {}

InPublic(s) == s \notin migrated /\ \E v \in 1..core : s \in CreatesTablesOf(v)

At(place) == {p \in Starters : boot[p] = place}
To(p, place) == boot' = [boot EXCEPT ![p] = place]

\* A new database, or one an earlier release has left, before any service had
\* tables of its own.
StartupInit ==
    /\ core \in 0..LastCore /\ coreLog = (core > 0)
    /\ migrated = {} /\ made = {}
    /\ boot \in [Starters -> {"off", "not deployed"}] /\ Cardinality(At("off")) \in 1..MaxDeployed
    /\ version = [p \in Starters |-> 0]
    /\ reboots = 0

---------------------------------------------------------------------------
(* The API. CREATE ... IF NOT EXISTS looks first: of two that saw nothing, *)
(* the one that finishes second fails.                                     *)

OpensLog(p) ==
    /\ boot[p] = "off" /\ To(p, IF coreLog THEN "looking" ELSE "opening")
    /\ UNCHANGED <<coreLog, core, migrated, made, version, reboots>>

CreatesLog(p) ==
    /\ boot[p] = "opening" /\ To(p, IF coreLog THEN "exited" ELSE "looking")
    /\ coreLog' = TRUE
    /\ UNCHANGED <<core, migrated, made, version, reboots>>

\* The versions recorded are passed over, one query each.
FindsVersion(p) ==
    /\ boot[p] = "looking"
    /\ IF core = LastCore
       THEN To(p, "waiting") /\ UNCHANGED version
       ELSE To(p, "applying") /\ version' = [version EXCEPT ![p] = core + 1]
    /\ UNCHANGED <<coreLog, core, migrated, made, reboots>>

\* The file and its record, in one transaction. When another replica has
\* applied it meanwhile, the file fails or its record does.
AppliesVersion(p) ==
    /\ boot[p] = "applying"
    /\ IF version[p] = core + 1 /\ NamesTablesOf(version[p]) \cap migrated = {}
       THEN core' = version[p] /\ To(p, "looking")
       ELSE UNCHANGED core /\ To(p, "exited")
    /\ version' = [version EXCEPT ![p] = 0]
    /\ UNCHANGED <<coreLog, migrated, made, reboots>>

Migrate(p) ==
    /\ ServiceOf[p] = "api"
    /\ (OpensLog(p) \/ CreatesLog(p) \/ FindsVersion(p) \/ AppliesVersion(p))

\* Two minutes for each wait; then the process gives up.
WaitIdentitySchema(p) ==
    /\ boot[p] = "waiting"
    /\ \/ "identity" \in migrated /\ To(p, "waiting for seller")
       \/ To(p, "exited")
    /\ UNCHANGED <<coreLog, core, migrated, made, version, reboots>>

WaitSellerSchema(p) ==
    /\ boot[p] = "waiting for seller"
    /\ \/ "seller" \in migrated /\ To(p, "connecting")
       \/ To(p, "exited")
    /\ UNCHANGED <<coreLog, core, migrated, made, version, reboots>>

---------------------------------------------------------------------------
(* The other services: one transaction, which takes the lock only after    *)
(* the schema and its log of migrations.                                   *)

\* Identity's and the Assistant's advisory lock have the same number.
LockOf(s) == IF s = "assistant" THEN "identity" ELSE s

OpensSchema(p) ==
    /\ boot[p] = "off" /\ To(p, IF ServiceOf[p] \in migrated THEN "locking" ELSE "creating")
    /\ UNCHANGED <<coreLog, core, migrated, made, version, reboots>>

\* The statement waits for a transaction that has created the same schema.
CreatesSchema(p) ==
    /\ boot[p] = "creating"
    /\ \A q \in made : ServiceOf[q] # ServiceOf[p]
    /\ IF ServiceOf[p] \in migrated
       THEN To(p, "exited") /\ UNCHANGED made
       ELSE To(p, "locking") /\ made' = made \cup {p}
    /\ UNCHANGED <<coreLog, core, migrated, version, reboots>>

\* Under the lock: nothing to do, or its tables are there to be moved, or the
\* core is not ready, the transaction is rolled back and tried again later.
Looks(p, ready) ==
    /\ boot[p] = "locking"
    /\ \A q \in At("moving") : LockOf(ServiceOf[q]) # LockOf(ServiceOf[p])
    /\ To(p, IF ServiceOf[p] \in migrated THEN "connecting" ELSE IF ready THEN "moving" ELSE "off")
    /\ made' = IF ServiceOf[p] \in migrated \/ ready THEN made ELSE made \ {p}
    /\ UNCHANGED <<coreLog, core, migrated, version, reboots>>

Runs(p, works) ==
    /\ boot[p] = "moving"
    /\ To(p, IF works THEN "connecting" ELSE "exited")
    /\ migrated' = IF works THEN migrated \cup {ServiceOf[p]} ELSE migrated
    /\ made' = made \ {p}
    /\ UNCHANGED <<coreLog, core, version, reboots>>

OwnMigrations(p, ready, works) ==
    OpensSchema(p) \/ CreatesSchema(p) \/ Looks(p, ready) \/ Runs(p, works)

\* Mutant: one migration too early: 0009 still names users and sellers.
IdentityReadyEarly == core >= 8 /\ InPublic("identity")

IdentityReady == core >= 9 /\ InPublic("identity")
SellerReady   == core >= 10 /\ InPublic("seller")

MigrateIdentity(p) == ServiceOf[p] = "identity" /\ OwnMigrations(p, IdentityReady, TRUE)
MigrateSeller(p)   == ServiceOf[p] = "seller" /\ OwnMigrations(p, SellerReady, TRUE)
MigrateChat(p)     == ServiceOf[p] = "chat" /\ OwnMigrations(p, InPublic("chat"), TRUE)

\* Its first migration refers to identity.users, which it does not wait for.
MigrateAssistant(p) ==
    ServiceOf[p] = "assistant" /\ OwnMigrations(p, TRUE, "identity" \in migrated)

MigrateNotifications(p) == ServiceOf[p] = "notification" /\ OwnMigrations(p, TRUE, TRUE)

---------------------------------------------------------------------------
(* The whole life of a process, as its main function has it.               *)

\* Redis, MongoDB or the port it listens on is there, or the process gives up.
Connects(p) ==
    /\ boot[p] = "connecting"
    /\ To(p, "serving") \/ To(p, "stopped")
    /\ UNCHANGED <<coreLog, core, migrated, made, version, reboots>>

\* A signal, or one of its servers fails; the other is shut down, too.
Stops(p) ==
    /\ boot[p] = "serving" /\ To(p, "stopped")
    /\ UNCHANGED <<coreLog, core, migrated, made, version, reboots>>

Serves(p) == Connects(p) \/ Stops(p)

MainOf(p, service, startup) == startup \/ (ServiceOf[p] = service /\ Serves(p))

ApiMain(p) ==
    MainOf(p, "api", Migrate(p) \/ WaitIdentitySchema(p) \/ WaitSellerSchema(p))
IdentityMain(p)     == MainOf(p, "identity", MigrateIdentity(p))
SellerMain(p)       == MainOf(p, "seller", MigrateSeller(p))
ChatMain(p)         == MainOf(p, "chat", MigrateChat(p))
AssistantMain(p)    == MainOf(p, "assistant", MigrateAssistant(p))
NotificationMain(p) == MainOf(p, "notification", MigrateNotifications(p))

\* A crash, or a new start: what was not committed is rolled back.
Reboot(p) ==
    /\ boot[p] \notin {"off", "not deployed"} /\ reboots < MaxReboots
    /\ reboots' = reboots + 1
    /\ To(p, "off")
    /\ made' = made \ {p}
    /\ version' = [version EXCEPT ![p] = 0]
    /\ UNCHANGED <<coreLog, core, migrated>>

StartupNext ==
    \E p \in Starters :
        \/ ApiMain(p) \/ IdentityMain(p) \/ SellerMain(p)
        \/ ChatMain(p) \/ AssistantMain(p) \/ NotificationMain(p)
        \/ Reboot(p)

StartupSpec == StartupInit /\ [][StartupNext]_startupVars

---------------------------------------------------------------------------

\* No core migration that is still to run names a table already moved.
NothingNamesAMovedTable ==
    \A s \in migrated : \A v \in core + 1..LastCore : s \notin NamesTablesOf(v)

\* The tables a process asks for are where it looks for them.
TablesReady(p) ==
    (IF ServiceOf[p] = "api" THEN {"identity", "seller"} ELSE {ServiceOf[p]}) \subseteq migrated

\* A process that serves has its tables.
ServesOnItsTables == \A p \in At("serving") : TablesReady(p)

\* A start fails for one of three reasons: another replica of the same
\* service, the API's patience, the Assistant's lack of it.
ExitsExplained ==
    \A p \in At("exited") :
        \/ \E q \in Starters \ {p} : ServiceOf[q] = ServiceOf[p] /\ boot[q] # "not deployed"
        \/ ServiceOf[p] = "api" /\ core = LastCore
        \/ ServiceOf[p] = "assistant"

\* Whatever is deployed, in whatever order the processes start, crash and
\* start again, the services take their tables over only when no core
\* migration needs them where they were, nobody serves without its tables, and
\* a process alone of its kind always gets through.
StartupSound == NothingNamesAMovedTable /\ ServesOnItsTables /\ ExitsExplained

=============================================================================
