--------------------------- MODULE ServicesProofs ---------------------------
(***************************************************************************)
(* Seven parts of the system that share no state: the start of its           *)
(* processes, the tokens of Identity, the conversations with the           *)
(* assistant, who may act on a shop, the behaviour events, the quotes of   *)
(* coupons, and the recommendations.                                       *)
(***************************************************************************)
EXTENDS Startup, Accounts, Assistant, ShopAccess, Behavior, Quote, Recommend, ArithmeticProofs

-----------------------------------------------------------------------------
(***************************************************************************)
(* The start of the system on one database, for any processes in any       *)
(* number, any crashes, and any core migrations applied before.            *)
(***************************************************************************)

CoreMigrating == {"opening", "looking", "applying", "waiting", "waiting for seller"}
OwnMigrating  == {"creating", "locking", "moving"}
Places == CoreMigrating \cup OwnMigrating \cup
          {"off", "not deployed", "connecting", "serving", "exited", "stopped"}

\* Another process of the same service is there.
Twin(p) == \E q \in Starters \ {p} : ServiceOf[q] = ServiceOf[p] /\ boot[q] # "not deployed"

\* The core migrations a service waits for before it takes its tables over.
TakeOver(s) == (s = "identity" => core >= 9) /\ (s = "seller" => core >= 10)

\* What a process has seen to, from where it is.
Place(p) ==
    /\ boot[p] \in CoreMigrating => ServiceOf[p] = "api"
    /\ boot[p] \in OwnMigrating => ServiceOf[p] # "api"
    /\ boot[p] = "opening" /\ coreLog => Twin(p)
    /\ boot[p] = "applying" => version[p] \in 1..LastCore /\ (version[p] = core + 1 \/ Twin(p))
    /\ boot[p] \in {"waiting", "waiting for seller"} => core = LastCore
    /\ boot[p] = "waiting for seller" => "identity" \in migrated
    /\ boot[p] = "creating" /\ ServiceOf[p] \in migrated => Twin(p)
    /\ boot[p] = "moving" => TakeOver(ServiceOf[p])
    /\ boot[p] \in {"connecting", "serving"} => TablesReady(p)
    /\ boot[p] = "exited" =>
         Twin(p) \/ (ServiceOf[p] = "api" /\ core = LastCore) \/ ServiceOf[p] = "assistant"

\* The inductive invariant.
StartupInv ==
    /\ core \in 0..LastCore
    /\ boot \in [Starters -> Places] /\ version \in [Starters -> 0..LastCore]
    /\ \A s \in migrated : TakeOver(s)
    /\ \A p \in Starters : Place(p)

\* The invariant says what is wanted.
LEMMA InvIsSound == StartupInv => StartupSound
<1> SUFFICES ASSUME StartupInv PROVE StartupSound
  OBVIOUS
<1>1. NothingNamesAMovedTable
  <2> SUFFICES ASSUME NEW s \in migrated, NEW v \in core + 1..LastCore PROVE s \notin NamesTablesOf(v)
    BY DEF NothingNamesAMovedTable
  <2>1. v \in Int /\ v > core /\ core \in Int
    BY DEF StartupInv, LastCore
  <2>2. "identity" \in migrated => core >= 9
    BY DEF StartupInv, TakeOver
  <2>3. "seller" \in migrated => core >= 10
    BY DEF StartupInv, TakeOver
  <2> QED BY <2>1, <2>2, <2>3 DEF NamesTablesOf
<1>2. ServesOnItsTables
  BY DEF StartupInv, Place, ServesOnItsTables, At
<1>3. ExitsExplained
  BY DEF StartupInv, Place, Twin, ExitsExplained, At
<1> QED BY <1>1, <1>2, <1>3 DEF StartupSound

\* Initially nothing is deployed.
LEMMA InitEstablishes == StartupInit => StartupInv
<1> SUFFICES ASSUME StartupInit PROVE StartupInv
  OBVIOUS
<1>1. core \in 0..LastCore /\ migrated = {}
  BY DEF StartupInit
<1>4. version = [q \in Starters |-> 0]
  BY DEF StartupInit
<1>5. version \in [Starters -> 0..LastCore]
  BY <1>4 DEF LastCore
<1>2. boot \in [Starters -> Places] /\ \A p \in Starters : boot[p] \in {"off", "not deployed"}
  BY DEF StartupInit, Places
<1>3. \A p \in Starters : Place(p)
  BY <1>2 DEF Place, CoreMigrating, OwnMigrating
<1> QED BY <1>1, <1>2, <1>3, <1>5 DEF StartupInv

\* A process that moves on stays deployed, and nobody else moves.
Moves(p, place) ==
    /\ boot[p] # "not deployed" /\ place \in Places \ {"not deployed"}
    /\ To(p, place)

\* A step of one process leaves the others, and who is whose twin, as they are.
LEMMA TwinsStay ==
    ASSUME StartupInv, NEW p \in Starters, NEW place, Moves(p, place)
    PROVE  /\ boot' \in [Starters -> Places]
           /\ boot'[p] = place
           /\ \A q \in Starters \ {p} : boot'[q] = boot[q]
           /\ \A q \in Starters : Twin(q) => Twin(q)'
           /\ \A q \in Starters \ {p} : ServiceOf[q] = ServiceOf[p] => Twin(q)'
<1>1. /\ boot' \in [Starters -> Places] /\ boot'[p] = place
      /\ \A q \in Starters \ {p} : boot'[q] = boot[q]
  BY DEF Moves, To, StartupInv
<1>2. \A q \in Starters : boot[q] # "not deployed" => boot'[q] # "not deployed"
  BY <1>1 DEF Moves
<1>3. \A q \in Starters : Twin(q) => Twin(q)'
  BY <1>2 DEF Twin
<1>4. \A q \in Starters \ {p} : ServiceOf[q] = ServiceOf[p] => Twin(q)'
  BY <1>1 DEF Twin, Moves
<1> QED BY <1>1, <1>3, <1>4

\* What p does to the database, seen from the others: the core only grows, and
\* only an API makes it grow; p takes over nothing but its own tables.
LEMMA OthersKeepTheirPlace ==
    ASSUME StartupInv, NEW p \in Starters, NEW place, Moves(p, place),
           core' \in core..LastCore, core' = core \/ ServiceOf[p] = "api",
           coreLog' = coreLog \/ ServiceOf[p] = "api",
           migrated \subseteq migrated', migrated' \subseteq migrated \cup {ServiceOf[p]},
           \A q \in Starters \ {p} : version'[q] = version[q]
    PROVE  \A q \in Starters \ {p} : Place(q)'
<1> SUFFICES ASSUME NEW q \in Starters \ {p} PROVE Place(q)'
  OBVIOUS
<1>1. Place(q) /\ boot'[q] = boot[q] /\ version'[q] = version[q]
  BY TwinsStay DEF StartupInv
<1>2. (Twin(q) => Twin(q)') /\ (ServiceOf[q] = ServiceOf[p] => Twin(q)')
  BY TwinsStay
<1>3. core \in Int /\ core' \in Int /\ core <= core' /\ core' <= LastCore
  BY DEF StartupInv, LastCore
<1>12. core = LastCore => core' = LastCore
  BY <1>3 DEF LastCore
<1>4. /\ boot'[q] \in CoreMigrating => ServiceOf[q] = "api"
      /\ boot'[q] \in OwnMigrating => ServiceOf[q] # "api"
  BY <1>1 DEF Place
<1>5. boot'[q] = "opening" /\ coreLog' => Twin(q)'
  BY <1>1, <1>2 DEF Place, CoreMigrating
<1>6. boot'[q] = "applying" =>
        version'[q] \in 1..LastCore /\ (version'[q] = core' + 1 \/ Twin(q)')
  BY <1>1, <1>2 DEF Place, CoreMigrating
<1>7. /\ boot'[q] \in {"waiting", "waiting for seller"} => core' = LastCore
      /\ boot'[q] = "waiting for seller" => "identity" \in migrated'
  BY <1>1, <1>12 DEF Place
<1>8. boot'[q] = "creating" /\ ServiceOf[q] \in migrated' => Twin(q)'
  BY <1>1, <1>2 DEF Place
<1>9. boot'[q] = "moving" => TakeOver(ServiceOf[q])'
  BY <1>1, <1>3 DEF Place, TakeOver
<1>10. boot'[q] \in {"connecting", "serving"} => TablesReady(q)'
  BY <1>1 DEF Place, TablesReady
<1>11. boot'[q] = "exited" =>
         Twin(q)' \/ (ServiceOf[q] = "api" /\ core' = LastCore) \/ ServiceOf[q] = "assistant"
  BY <1>1, <1>2, <1>12 DEF Place
<1> QED BY <1>4, <1>5, <1>6, <1>7, <1>8, <1>9, <1>10, <1>11 DEF Place

\* So a step of p is right when p has seen to what its new place asks for.
LEMMA StepOfOne ==
    ASSUME StartupInv, NEW p \in Starters, NEW place, Moves(p, place), Place(p)',
           core' \in core..LastCore, core' = core \/ ServiceOf[p] = "api",
           coreLog' = coreLog \/ ServiceOf[p] = "api",
           migrated \subseteq migrated', migrated' \subseteq migrated \cup {ServiceOf[p]},
           \A s \in migrated' : TakeOver(s)',
           version' \in [Starters -> 0..LastCore],
           \A q \in Starters \ {p} : version'[q] = version[q]
    PROVE  StartupInv'
<1>1. \A q \in Starters : Place(q)'
  BY OthersKeepTheirPlace
<1>2. core' \in 0..LastCore
  BY DEF StartupInv, LastCore
<1>3. boot' \in [Starters -> Places]
  BY TwinsStay
<1> QED BY <1>1, <1>2, <1>3 DEF StartupInv

\* The step of a process that leaves the database as it is.
LEMMA StepOfNobodyElse ==
    ASSUME StartupInv, NEW p \in Starters, NEW place, Moves(p, place), Place(p)',
           UNCHANGED <<coreLog, core, migrated, version>>
    PROVE  StartupInv'
<1>1. core' \in core..LastCore
  BY DEF StartupInv, LastCore
<1>2. \A s \in migrated' : TakeOver(s)'
  BY DEF StartupInv, TakeOver
<1>3. version' \in [Starters -> 0..LastCore]
  BY DEF StartupInv
<1> QED BY <1>1, <1>2, <1>3, StepOfOne

---------------------------------------------------------------------------
(* The steps of the API.                                                   *)

\* The step OpensLog keeps the invariant.
LEMMA OpensLogKeeps ==
    ASSUME StartupInv, NEW p \in Starters, ServiceOf[p] = "api", OpensLog(p) PROVE StartupInv'
<1> DEFINE place == IF coreLog THEN "looking" ELSE "opening"
<1>1. Moves(p, place)
  BY DEF OpensLog, Moves, Places, CoreMigrating
<1>2. boot'[p] = place /\ coreLog' = coreLog
  BY <1>1, TwinsStay DEF OpensLog
<1>3. Place(p)'
  BY <1>2 DEF Place, CoreMigrating, OwnMigrating
<1> QED BY <1>1, <1>3, StepOfNobodyElse DEF OpensLog

\* The step CreatesLog keeps the invariant.
LEMMA CreatesLogKeeps ==
    ASSUME StartupInv, NEW p \in Starters, ServiceOf[p] = "api", CreatesLog(p) PROVE StartupInv'
<1> DEFINE place == IF coreLog THEN "exited" ELSE "looking"
<1>1. Moves(p, place)
  BY DEF CreatesLog, Moves, Places, CoreMigrating
<1>2. boot'[p] = place /\ (Twin(p) => Twin(p)')
  BY <1>1, TwinsStay
<1>3. coreLog => Twin(p)
  BY DEF StartupInv, Place, CreatesLog
<1>4. Place(p)'
  BY <1>2, <1>3 DEF Place, CoreMigrating, OwnMigrating
<1>5. core' \in core..LastCore
  BY DEF StartupInv, LastCore, CreatesLog
<1>6. \A s \in migrated' : TakeOver(s)'
  BY DEF StartupInv, TakeOver, CreatesLog
<1>7. version' \in [Starters -> 0..LastCore] /\ \A q \in Starters \ {p} : version'[q] = version[q]
  BY DEF StartupInv, CreatesLog
<1> QED BY <1>1, <1>4, <1>5, <1>6, <1>7, StepOfOne DEF CreatesLog

\* The step FindsVersion keeps the invariant.
LEMMA FindsVersionKeeps ==
    ASSUME StartupInv, NEW p \in Starters, ServiceOf[p] = "api", FindsVersion(p) PROVE StartupInv'
<1> DEFINE place == IF core = LastCore THEN "waiting" ELSE "applying"
<1>1. Moves(p, place)
  BY DEF FindsVersion, Moves, Places, CoreMigrating
<1>2. boot'[p] = place
  BY <1>1, TwinsStay
<1>3. core \in 0..LastCore /\ version \in [Starters -> 0..LastCore]
  BY DEF StartupInv
<1>4. core # LastCore => core + 1 \in 1..LastCore /\ core + 1 \in 0..LastCore
  BY <1>3 DEF LastCore
<1>5. /\ version' \in [Starters -> 0..LastCore]
      /\ \A q \in Starters \ {p} : version'[q] = version[q]
      /\ core # LastCore => version'[p] = core + 1
  BY <1>3, <1>4 DEF FindsVersion
<1>6. Place(p)'
  BY <1>2, <1>4, <1>5 DEF Place, CoreMigrating, OwnMigrating, FindsVersion
<1>7. core' \in core..LastCore
  BY <1>3 DEF LastCore, FindsVersion
<1>8. \A s \in migrated' : TakeOver(s)'
  BY DEF StartupInv, TakeOver, FindsVersion
<1> QED BY <1>1, <1>5, <1>6, <1>7, <1>8, StepOfOne DEF FindsVersion

\* The one that found the version still missing applies it: by then no table
\* it names has been moved. Whoever fails has a twin that was faster.
LEMMA AppliesVersionKeeps ==
    ASSUME StartupInv, NEW p \in Starters, ServiceOf[p] = "api", AppliesVersion(p)
    PROVE  StartupInv'
<1> DEFINE works == version[p] = core + 1 /\ NamesTablesOf(version[p]) \cap migrated = {}
<1> DEFINE place == IF works THEN "looking" ELSE "exited"
<1>1. Moves(p, place)
  BY DEF AppliesVersion, Moves, Places, CoreMigrating
<1>2. boot'[p] = place /\ (Twin(p) => Twin(p)')
  BY <1>1, TwinsStay
<1>3. core \in 0..LastCore /\ version \in [Starters -> 0..LastCore]
  BY DEF StartupInv
<1>4. version[p] \in 1..LastCore /\ (version[p] = core + 1 \/ Twin(p))
  BY DEF AppliesVersion, StartupInv, Place
<1>5. version[p] = core + 1 => works
  <2>1. NothingNamesAMovedTable
    BY InvIsSound DEF StartupSound
  <2>2. version[p] = core + 1 => version[p] \in core + 1..LastCore
    BY <1>3, <1>4 DEF LastCore
  <2> QED BY <2>1, <2>2 DEF NothingNamesAMovedTable
<1>6. works \/ Twin(p)'
  BY <1>2, <1>4, <1>5
<1>7. Place(p)'
  BY <1>2, <1>6 DEF Place, CoreMigrating, OwnMigrating
<1>8. core' \in core..LastCore
  BY <1>3, <1>4 DEF LastCore, AppliesVersion
<1>9. \A s \in migrated' : TakeOver(s)'
  <2>1. core' \in Int /\ core \in Int /\ core' >= core
    BY <1>3, <1>8 DEF LastCore
  <2> QED BY <2>1 DEF StartupInv, TakeOver, AppliesVersion
<1>10. version' \in [Starters -> 0..LastCore] /\ \A q \in Starters \ {p} : version'[q] = version[q]
  BY <1>3 DEF AppliesVersion, LastCore
<1> QED BY <1>1, <1>7, <1>8, <1>9, <1>10, StepOfOne DEF AppliesVersion

\* The waits for the other services' schemas keep the invariant.
LEMMA WaitingKeeps ==
    ASSUME StartupInv, NEW p \in Starters, WaitIdentitySchema(p) \/ WaitSellerSchema(p)
    PROVE  StartupInv'
<1>1. core = LastCore /\ ServiceOf[p] = "api"
  BY DEF StartupInv, Place, CoreMigrating, WaitIdentitySchema, WaitSellerSchema
<1>2. UNCHANGED <<coreLog, core, migrated, version>>
  BY DEF WaitIdentitySchema, WaitSellerSchema
<1>3. CASE To(p, "exited")
  <2>1. Moves(p, "exited")
    BY <1>3 DEF Moves, Places, CoreMigrating, WaitIdentitySchema, WaitSellerSchema
  <2>2. boot'[p] = "exited"
    BY <2>1, TwinsStay
  <2>3. Place(p)'
    BY <1>1, <1>2, <2>2 DEF Place, CoreMigrating, OwnMigrating
  <2> QED BY <1>2, <2>1, <2>3, StepOfNobodyElse
<1>4. CASE "identity" \in migrated /\ To(p, "waiting for seller")
  <2>1. Moves(p, "waiting for seller")
    BY <1>4 DEF Moves, Places, CoreMigrating, WaitIdentitySchema, WaitSellerSchema
  <2>2. boot'[p] = "waiting for seller"
    BY <2>1, TwinsStay
  <2>3. Place(p)'
    BY <1>1, <1>2, <1>4, <2>2 DEF Place, CoreMigrating, OwnMigrating
  <2> QED BY <1>2, <2>1, <2>3, StepOfNobodyElse
<1>5. CASE WaitSellerSchema(p) /\ "seller" \in migrated /\ To(p, "connecting")
  <2>1. Moves(p, "connecting")
    BY <1>5 DEF Moves, Places, WaitSellerSchema
  <2>2. boot'[p] = "connecting"
    BY <2>1, TwinsStay
  <2>3. "identity" \in migrated
    BY <1>5 DEF StartupInv, Place, WaitSellerSchema
  <2>4. TablesReady(p)'
    BY <1>1, <1>2, <1>5, <2>3 DEF TablesReady
  <2>5. Place(p)'
    BY <2>2, <2>4 DEF Place, CoreMigrating, OwnMigrating
  <2> QED BY <1>2, <2>1, <2>5, StepOfNobodyElse
<1> QED BY <1>3, <1>4, <1>5 DEF WaitIdentitySchema, WaitSellerSchema

---------------------------------------------------------------------------
(* The steps of the other services.                                        *)

\* The step OpensSchema keeps the invariant.
LEMMA OpensSchemaKeeps ==
    ASSUME StartupInv, NEW p \in Starters, ServiceOf[p] # "api", OpensSchema(p) PROVE StartupInv'
<1> DEFINE place == IF ServiceOf[p] \in migrated THEN "locking" ELSE "creating"
<1>1. Moves(p, place)
  BY DEF OpensSchema, Moves, Places, OwnMigrating
<1>2. boot'[p] = place /\ migrated' = migrated
  BY <1>1, TwinsStay DEF OpensSchema
<1>3. Place(p)'
  BY <1>2 DEF Place, CoreMigrating, OwnMigrating
<1> QED BY <1>1, <1>3, StepOfNobodyElse DEF OpensSchema

\* The step CreatesSchema keeps the invariant.
LEMMA CreatesSchemaKeeps ==
    ASSUME StartupInv, NEW p \in Starters, ServiceOf[p] # "api", CreatesSchema(p)
    PROVE  StartupInv'
<1> DEFINE place == IF ServiceOf[p] \in migrated THEN "exited" ELSE "locking"
<1>1. Moves(p, place)
  BY DEF CreatesSchema, Moves, Places, OwnMigrating
<1>2. boot'[p] = place /\ (Twin(p) => Twin(p)')
  BY <1>1, TwinsStay
<1>3. ServiceOf[p] \in migrated => Twin(p)
  BY DEF StartupInv, Place, CreatesSchema
<1>4. Place(p)'
  BY <1>2, <1>3 DEF Place, CoreMigrating, OwnMigrating
<1> QED BY <1>1, <1>4, StepOfNobodyElse DEF CreatesSchema

\* The step Looks keeps the invariant.
LEMMA LooksKeeps ==
    ASSUME StartupInv, NEW p \in Starters, ServiceOf[p] # "api", NEW ready,
           ready => TakeOver(ServiceOf[p]), Looks(p, ready)
    PROVE  StartupInv'
<1> DEFINE place == IF ServiceOf[p] \in migrated THEN "connecting"
                    ELSE IF ready THEN "moving" ELSE "off"
<1>1. Moves(p, place)
  BY DEF Looks, Moves, Places, OwnMigrating
<1>2. boot'[p] = place /\ migrated' = migrated /\ core' = core
  BY <1>1, TwinsStay DEF Looks
<1>3. ServiceOf[p] \in migrated => TablesReady(p)'
  BY <1>2 DEF TablesReady
<1>4. ready => TakeOver(ServiceOf[p])'
  BY <1>2 DEF TakeOver
<1>5. Place(p)'
  BY <1>2, <1>3, <1>4 DEF Place, CoreMigrating, OwnMigrating
<1> QED BY <1>1, <1>5, StepOfNobodyElse DEF Looks

\* The step Runs keeps the invariant.
LEMMA RunsKeeps ==
    ASSUME StartupInv, NEW p \in Starters, ServiceOf[p] # "api", NEW works,
           works \/ ServiceOf[p] = "assistant", Runs(p, works)
    PROVE  StartupInv'
<1> DEFINE place == IF works THEN "connecting" ELSE "exited"
<1>1. Moves(p, place)
  BY DEF Runs, Moves, Places
<1>2. boot'[p] = place
  BY <1>1, TwinsStay
<1>3. works => TablesReady(p)'
  BY DEF TablesReady, Runs
<1>4. Place(p)'
  BY <1>2, <1>3 DEF Place, CoreMigrating, OwnMigrating
<1>5. core' \in core..LastCore
  BY DEF StartupInv, LastCore, Runs
<1>6. TakeOver(ServiceOf[p])
  BY DEF StartupInv, Place, Runs
<1>7. \A s \in migrated' : TakeOver(s)'
  BY <1>6 DEF StartupInv, TakeOver, Runs
<1>8. version' \in [Starters -> 0..LastCore] /\ \A q \in Starters \ {p} : version'[q] = version[q]
  BY DEF StartupInv, Runs
<1>9. migrated \subseteq migrated' /\ migrated' \subseteq migrated \cup {ServiceOf[p]}
  BY DEF Runs
<1> QED BY <1>1, <1>4, <1>5, <1>7, <1>8, <1>9, StepOfOne DEF Runs

\* So do all steps of a service's own migrations.
LEMMA OwnMigrationsKeep ==
    ASSUME StartupInv, NEW p \in Starters, ServiceOf[p] # "api", NEW ready, NEW works,
           ready => TakeOver(ServiceOf[p]), works \/ ServiceOf[p] = "assistant",
           OwnMigrations(p, ready, works)
    PROVE  StartupInv'
BY OpensSchemaKeeps, CreatesSchemaKeeps, LooksKeeps, RunsKeeps DEF OwnMigrations

---------------------------------------------------------------------------

\* The step Serves keeps the invariant.
LEMMA ServesKeeps ==
    ASSUME StartupInv, NEW p \in Starters, Serves(p) PROVE StartupInv'
<1>1. PICK place \in {"serving", "stopped"} : To(p, place)
  BY DEF Serves, Connects, Stops
<1>2. /\ Moves(p, place) /\ TablesReady(p)
      /\ UNCHANGED <<coreLog, core, migrated, made, version, reboots>>
  BY <1>1 DEF Serves, Connects, Stops, Moves, Places, StartupInv, Place
<1>3. boot'[p] = place
  BY <1>2, TwinsStay
<1>4. TablesReady(p)'
  BY <1>2 DEF TablesReady
<1>5. Place(p)'
  BY <1>1, <1>3, <1>4 DEF Place, CoreMigrating, OwnMigrating
<1> QED BY <1>2, <1>5, StepOfNobodyElse

\* The step Reboot keeps the invariant.
LEMMA RebootKeeps ==
    ASSUME StartupInv, NEW p \in Starters, Reboot(p) PROVE StartupInv'
<1>1. Moves(p, "off")
  BY DEF Reboot, Moves, Places
<1>2. boot'[p] = "off"
  BY <1>1, TwinsStay
<1>3. Place(p)'
  BY <1>2 DEF Place, CoreMigrating, OwnMigrating
<1>7. core' = core /\ version' = [version EXCEPT ![p] = 0]
  BY DEF Reboot
<1>8. core \in 0..LastCore /\ version \in [Starters -> 0..LastCore]
  BY DEF StartupInv
<1>4. core' \in core..LastCore
  BY <1>7, <1>8 DEF LastCore
<1>5. \A s \in migrated' : TakeOver(s)'
  BY DEF StartupInv, TakeOver, Reboot
<1>6. version' \in [Starters -> 0..LastCore] /\ \A q \in Starters \ {p} : version'[q] = version[q]
  BY <1>7, <1>8 DEF LastCore
<1> QED BY <1>1, <1>3, <1>4, <1>5, <1>6, StepOfOne DEF Reboot

\* Every step keeps the invariant.
LEMMA NextKeeps == StartupInv /\ [StartupNext]_startupVars => StartupInv'
<1> SUFFICES ASSUME StartupInv, [StartupNext]_startupVars PROVE StartupInv'
  OBVIOUS
<1>1. CASE UNCHANGED startupVars
  BY <1>1 DEF startupVars, StartupInv, Place, Twin, TakeOver, TablesReady
<1>2. ASSUME NEW p \in Starters, Serves(p) PROVE StartupInv'
  BY <1>2, ServesKeeps
<1>3. ASSUME NEW p \in Starters, Migrate(p) PROVE StartupInv'
  BY <1>3, OpensLogKeeps, CreatesLogKeeps, FindsVersionKeeps, AppliesVersionKeeps DEF Migrate
<1>4. ASSUME NEW p \in Starters, MigrateIdentity(p) PROVE StartupInv'
  <2>1. IdentityReady => TakeOver(ServiceOf[p])
    BY <1>4 DEF MigrateIdentity, IdentityReady, TakeOver
  <2> QED BY <1>4, <2>1, OwnMigrationsKeep DEF MigrateIdentity
<1>5. ASSUME NEW p \in Starters, MigrateSeller(p) PROVE StartupInv'
  <2>1. SellerReady => TakeOver(ServiceOf[p])
    BY <1>5 DEF MigrateSeller, SellerReady, TakeOver
  <2> QED BY <1>5, <2>1, OwnMigrationsKeep DEF MigrateSeller
<1>6. ASSUME NEW p \in Starters, MigrateChat(p) \/ MigrateAssistant(p) \/ MigrateNotifications(p)
      PROVE  StartupInv'
  <2>1. TakeOver(ServiceOf[p]) /\ ServiceOf[p] # "api"
    BY <1>6 DEF MigrateChat, MigrateAssistant, MigrateNotifications, TakeOver
  <2> QED BY <1>6, <2>1, OwnMigrationsKeep DEF MigrateChat, MigrateAssistant, MigrateNotifications
<1>7. ASSUME NEW p \in Starters, WaitIdentitySchema(p) \/ WaitSellerSchema(p)
      PROVE  StartupInv'
  BY <1>7, WaitingKeeps
<1>8. ASSUME NEW p \in Starters, Reboot(p) PROVE StartupInv'
  BY <1>8, RebootKeeps
<1> QED BY <1>1, <1>2, <1>3, <1>4, <1>5, <1>6, <1>7, <1>8
        DEF StartupNext, MainOf, ApiMain, IdentityMain, SellerMain, ChatMain, AssistantMain,
            NotificationMain

\* Whatever is deployed, however often it crashes: no core migration loses its
\* tables, nobody serves without its own, and no failed start is unexplained.
THEOREM StartupCorrect == StartupSpec => []StartupSound
<1>1. StartupSpec => []StartupInv
  BY InitEstablishes, NextKeeps, PTL DEF StartupSpec
<1> QED BY <1>1, InvIsSound, PTL

-----------------------------------------------------------------------------
(***************************************************************************)
(* The tokens, for any number of handlers, sessions and resets. In the     *)
(* invariant each token is in one place: stored, in the hands of one       *)
(* handler that has taken it, or gone; a taken token cannot be taken       *)
(* again, so nothing is issued for it twice.                               *)
(***************************************************************************)

HandlerStates ==
    {Waiting} \cup [step : {"issue"}, of : Sessions]
              \cup [step : {"reset"}, of : Resets, next : Passwords]
              \cup [step : {"change"}, next : Passwords]

AccountsType ==
    /\ issued \in [Sessions -> Nat]
    /\ mailed \subseteq Resets
    /\ handling \in [Handlers -> HandlerStates]
    /\ loggedOut \subseteq Sessions
    /\ password \in Passwords
    /\ used \in [Resets -> Nat]

Issuing(h, s)   == handling[h].step = "issue" /\ handling[h].of = s
Resetting(h, k) == handling[h].step = "reset" /\ handling[h].of = k

\* A session goes on with its newest token, which is live or held by one handler.
OneToken(s) ==
    /\ \A key \in keys : key.kind = "refresh" /\ key.of = s => key = Refresh(s, issued[s]) /\ issued[s] > 0
    /\ \A h \in Handlers : Issuing(h, s) =>
        /\ Refresh(s, issued[s]) \notin keys /\ issued[s] > 0
        /\ \A g \in Handlers : Issuing(g, s) => g = h
    /\ s \in loggedOut =>
        /\ Refresh(s, issued[s]) \notin keys /\ issued[s] > 0
        /\ \A h \in Handlers : ~Issuing(h, s)

\* A reset token is not stored yet, live, held by one handler, or gone.
OneReset(k) ==
    /\ Reset(k) \in keys => k \in mailed /\ used[k] = 0
    /\ \A h \in Handlers : Resetting(h, k) =>
        /\ Reset(k) \notin keys /\ k \in mailed /\ used[k] = 0
        /\ \A g \in Handlers : Resetting(g, k) => g = h
    /\ used[k] <= 1
    /\ used[k] > 0 => k \in mailed

AccountsInv ==
    /\ AccountsType
    /\ \A s \in Sessions : OneToken(s)
    /\ \A k \in Resets : OneReset(k)

\* With one of each in circulation, none works twice.
LEMMA AccountsInvSound == AccountsInv => TokensWorkOnce
<1> SUFFICES ASSUME AccountsInv PROVE TokensWorkOnce
  OBVIOUS
<1>1. ASSUME NEW s \in Sessions, NEW x \in Holders(s), NEW y \in Holders(s) PROVE x = y
  BY <1>1 DEF AccountsInv, OneToken, Holders, Issuing
<1>2. ASSUME NEW s \in loggedOut PROVE Holders(s) = {}
  BY <1>2 DEF AccountsInv, AccountsType, OneToken, Holders, Issuing
<1>3. \A k \in Resets : used[k] <= 1
  BY DEF AccountsInv, OneReset
<1> QED
  BY <1>1, <1>2, <1>3 DEF TokensWorkOnce

\* Initially nothing has been given out.
LEMMA AccountsInitSound == AccountsInit => AccountsInv
  BY AccountsAssumption DEF AccountsInit, AccountsInv, AccountsType, HandlerStates, OneToken, OneReset,
     Issuing, Resetting, Waiting

\* The step Login keeps the invariant: a new session has its first token.
LEMMA LoginKeeps ==
  ASSUME AccountsInv, NEW s \in Sessions, Login(s)
  PROVE  AccountsInv'
<1>1. AccountsType'
  BY DEF Login, AccountsInv, AccountsType
<1>2. ASSUME NEW r \in Sessions PROVE OneToken(r)'
  <2>1. OneToken(r) /\ OneToken(s)
    BY DEF AccountsInv
  <2>2. CASE r = s
    <3>1. issued'[s] = 1 /\ issued[s] = 0
      BY DEF Login, AccountsInv, AccountsType
    <3>2. s \notin loggedOut /\ \A h \in Handlers : ~Issuing(h, s)
      BY <2>1, <3>1 DEF OneToken
    <3>3. \A key \in keys : ~(key.kind = "refresh" /\ key.of = s)
      BY <2>1, <3>1 DEF OneToken
    <3> QED
      BY <2>2, <3>1, <3>2, <3>3 DEF Login, OneToken, Issuing, Refresh
  <2>3. CASE r # s
    BY <2>1, <2>3 DEF Login, AccountsInv, AccountsType, OneToken, Issuing, Refresh
  <2> QED
    BY <2>2, <2>3
<1>3. ASSUME NEW k \in Resets PROVE OneReset(k)'
  BY DEF Login, AccountsInv, AccountsType, OneReset, Resetting, Refresh, Reset
<1> QED
  BY <1>1, <1>2, <1>3 DEF AccountsInv

\* The handler that takes a token holds it from then on.
LEMMA RefreshTakesKeeps ==
  ASSUME AccountsInv, NEW h \in Handlers, NEW s \in Sessions, NEW n \in 1..MaxRotations, RefreshTakes(h, s, n)
  PROVE  AccountsInv'
<1>1. AccountsType'
  BY DEF RefreshTakes, Start, AccountsInv, AccountsType, HandlerStates
<1>2. ASSUME NEW r \in Sessions PROVE OneToken(r)'
  BY DEF RefreshTakes, Start, Take, AccountsInv, AccountsType, OneToken, Issuing, Refresh, Waiting
<1>3. ASSUME NEW k \in Resets PROVE OneReset(k)'
  BY DEF RefreshTakes, Start, Take, AccountsInv, AccountsType, OneReset, Resetting, Refresh, Reset, Waiting
<1> QED
  BY <1>1, <1>2, <1>3 DEF AccountsInv

\* It gives the session its next token, or the session ends with it.
LEMMA RefreshIssuesKeeps ==
  ASSUME AccountsInv, NEW h \in Handlers, RefreshIssues(h)
  PROVE  AccountsInv'
<1>0. PICK s \in Sessions : handling[h] = [step |-> "issue", of |-> s]
  BY DEF RefreshIssues, AccountsInv, AccountsType, HandlerStates, Waiting
<1>1. AccountsType'
  BY <1>0 DEF RefreshIssues, Done, AccountsInv, AccountsType, HandlerStates
<1>2. ASSUME NEW r \in Sessions PROVE OneToken(r)'
  <2>1. OneToken(r) /\ OneToken(s) /\ Issuing(h, s)
    BY <1>0 DEF AccountsInv, Issuing
  <2>2. /\ issued' = [issued EXCEPT ![s] = @ + 1] /\ loggedOut' = loggedOut
        /\ keys' = keys \cup {Refresh(s, issued[s] + 1)}
    BY <1>0 DEF RefreshIssues
  <2>3. \A g \in Handlers : handling'[g].step = "issue" => g # h /\ handling'[g] = handling[g]
    BY <1>0 DEF RefreshIssues, Done, AccountsInv, AccountsType, Waiting
  <2>4. CASE r = s
    <3>1. issued'[s] = issued[s] + 1 /\ issued[s] \in Nat
      BY <1>0, <2>2 DEF AccountsInv, AccountsType
    <3>2. s \notin loggedOut /\ \A g \in Handlers : ~Issuing(g, s)'
      BY <2>1, <2>3 DEF OneToken, Issuing
    <3>3. \A key \in keys : ~(key.kind = "refresh" /\ key.of = s)
      BY <2>1 DEF OneToken
    <3> QED
      BY <2>2, <2>4, <3>1, <3>2, <3>3 DEF OneToken, Refresh
  <2>5. CASE r # s
    <3>1. issued'[r] = issued[r]
      BY <2>2, <2>5 DEF AccountsInv, AccountsType
    <3> QED
      BY <2>1, <2>2, <2>3, <2>5, <3>1 DEF OneToken, Issuing, Refresh
  <2> QED
    BY <2>4, <2>5
<1>3. ASSUME NEW k \in Resets PROVE OneReset(k)'
  BY <1>0 DEF RefreshIssues, Done, AccountsInv, AccountsType, OneReset, Resetting, Refresh, Reset, Waiting
<1> QED
  BY <1>1, <1>2, <1>3 DEF AccountsInv

\* The step Logout keeps the invariant.
LEMMA LogoutKeeps ==
  ASSUME AccountsInv, NEW s \in Sessions, NEW n \in 1..MaxRotations, Logout(s, n)
  PROVE  AccountsInv'
<1>1. AccountsType'
  BY DEF Logout, AccountsInv, AccountsType
<1>2. ASSUME NEW r \in Sessions PROVE OneToken(r)'
  BY DEF Logout, Take, AccountsInv, AccountsType, OneToken, Issuing, Refresh
<1>3. ASSUME NEW k \in Resets PROVE OneReset(k)'
  BY DEF Logout, Take, AccountsInv, AccountsType, OneReset, Resetting, Refresh, Reset
<1> QED
  BY <1>1, <1>2, <1>3 DEF AccountsInv

\* The step ForgotPassword keeps the invariant.
LEMMA ForgotPasswordKeeps ==
  ASSUME AccountsInv, NEW k \in Resets, ForgotPassword(k)
  PROVE  AccountsInv'
<1>1. AccountsType'
  BY DEF ForgotPassword, AccountsInv, AccountsType
<1>2. ASSUME NEW r \in Sessions PROVE OneToken(r)'
  BY DEF ForgotPassword, AccountsInv, AccountsType, OneToken, Issuing, Refresh, Reset
<1>3. ASSUME NEW j \in Resets PROVE OneReset(j)'
  BY DEF ForgotPassword, AccountsInv, AccountsType, OneReset, Resetting, Reset
<1> QED
  BY <1>1, <1>2, <1>3 DEF AccountsInv

\* The handler that takes a reset token holds it from then on.
LEMMA ResetTakesKeeps ==
  ASSUME AccountsInv, NEW h \in Handlers, NEW k \in Resets, NEW next \in Passwords, ResetTakes(h, k, next)
  PROVE  AccountsInv'
<1>1. AccountsType'
  BY DEF ResetTakes, Start, AccountsInv, AccountsType, HandlerStates
<1>2. ASSUME NEW r \in Sessions PROVE OneToken(r)'
  BY DEF ResetTakes, Start, Take, AccountsInv, AccountsType, OneToken, Issuing, Refresh, Reset, Waiting
<1>3. ASSUME NEW j \in Resets PROVE OneReset(j)'
  BY DEF ResetTakes, Start, Take, AccountsInv, AccountsType, OneReset, Resetting, Reset, Waiting
<1> QED
  BY <1>1, <1>2, <1>3 DEF AccountsInv

\* It uses the token up.
LEMMA ResetWritesKeeps ==
  ASSUME AccountsInv, NEW h \in Handlers, ResetWrites(h)
  PROVE  AccountsInv'
<1>0. handling[h] \in [step : {"reset"}, of : Resets, next : Passwords]
  BY DEF ResetWrites, AccountsInv, AccountsType, HandlerStates, Waiting
<1>1. AccountsType'
  BY <1>0 DEF ResetWrites, Done, AccountsInv, AccountsType, HandlerStates
<1>2. ASSUME NEW r \in Sessions PROVE OneToken(r)'
  BY <1>0 DEF ResetWrites, Done, AccountsInv, AccountsType, OneToken, Issuing, Refresh, Waiting
<1>3. ASSUME NEW k \in Resets PROVE OneReset(k)'
  BY <1>0 DEF ResetWrites, Done, AccountsInv, AccountsType, OneReset, Resetting, Reset, Waiting
<1> QED
  BY <1>1, <1>2, <1>3 DEF AccountsInv

\* Nothing but the password changes, and no token is taken or returned.
LEMMA ChangeKeeps ==
  ASSUME AccountsInv, NEW h \in Handlers,
         \/ \E current, next \in Passwords : ChangeVerifies(h, current, next)
         \/ ChangeWrites(h) \/ HandlerFails(h)
  PROVE  AccountsInv'
<1>0. /\ UNCHANGED <<keys, issued, mailed, loggedOut, used>>
      /\ \/ \E next \in Passwords : handling' = [handling EXCEPT ![h] = [step |-> "change", next |-> next]]
         \/ handling' = [handling EXCEPT ![h] = Waiting]
  BY DEF ChangeVerifies, ChangeWrites, HandlerFails, Start, Done
<1>1. AccountsType'
  <2>1. CASE ChangeWrites(h)
    <3>1. handling[h] \in [step : {"change"}, next : Passwords]
      BY <2>1 DEF ChangeWrites, AccountsInv, AccountsType, HandlerStates, Waiting
    <3> QED
      BY <1>0, <2>1, <3>1 DEF ChangeWrites, AccountsInv, AccountsType, HandlerStates
  <2>2. CASE ~ChangeWrites(h)
    <3>1. password' = password
      BY <2>2 DEF ChangeVerifies, HandlerFails
    <3> QED
      BY <1>0, <3>1 DEF AccountsInv, AccountsType, HandlerStates
  <2> QED
    BY <2>1, <2>2
<1>2. ASSUME NEW r \in Sessions PROVE OneToken(r)'
  BY <1>0 DEF AccountsInv, AccountsType, OneToken, Issuing, Refresh, Waiting
<1>3. ASSUME NEW k \in Resets PROVE OneReset(k)'
  BY <1>0 DEF AccountsInv, AccountsType, OneReset, Resetting, Reset, Waiting
<1> QED
  BY <1>1, <1>2, <1>3 DEF AccountsInv

\* The end of a token's time keeps the invariant.
LEMMA ExpireKeeps ==
  ASSUME AccountsInv, NEW key \in keys, Expire(key)
  PROVE  AccountsInv'
<1>1. AccountsType'
  BY DEF Expire, AccountsInv, AccountsType
<1>2. ASSUME NEW r \in Sessions PROVE OneToken(r)'
  BY DEF Expire, AccountsInv, AccountsType, OneToken, Issuing, Refresh
<1>3. ASSUME NEW k \in Resets PROVE OneReset(k)'
  BY DEF Expire, AccountsInv, AccountsType, OneReset, Resetting, Reset
<1> QED
  BY <1>1, <1>2, <1>3 DEF AccountsInv

\* Every step keeps the invariant.
LEMMA AccountsStep == AccountsInv /\ [AccountsNext]_accountVars => AccountsInv'
<1> SUFFICES ASSUME AccountsInv, [AccountsNext]_accountVars PROVE AccountsInv'
  OBVIOUS
<1>1. CASE UNCHANGED accountVars
  BY <1>1 DEF accountVars, AccountsInv, AccountsType, OneToken, OneReset, Issuing, Resetting
<1>2. CASE AccountsNext
  BY <1>2, LoginKeeps, LogoutKeeps, ForgotPasswordKeeps, ExpireKeeps, RefreshTakesKeeps, ResetTakesKeeps,
     ChangeKeeps, RefreshIssuesKeeps, ResetWritesKeeps DEF AccountsNext
<1> QED
  BY <1>1, <1>2

\* Refresh tokens and reset tokens are taken with GETDEL: whatever is presented
\* again, late or at the same time, finds nothing.
THEOREM TokensSafe == AccountsSpec => []TokensWorkOnce
  BY AccountsInitSound, AccountsStep, AccountsInvSound, PTL DEF AccountsSpec

-----------------------------------------------------------------------------
(***************************************************************************)
(* The assistant, for any number of sends of any conversation. In the      *)
(* invariant the saved rows are whole turns, numbered without a gap, and a *)
(* send that has not told its outcome has saved nothing; a transaction     *)
(* that still finds the number it read appends its turn at the end.        *)
(***************************************************************************)

Outcomes == {"none", "ok", "conflict", "unavailable", "rate limited"}
Steps == {"new", "asked", "answered", "done"}
Sending(r) == r \in [step : Steps, read : Nat, answer : {r.answer}]

AssistantType ==
    /\ conversation \in [last : Nat, title : Sends \cup {NoSend}]
    /\ turns \subseteq [sequence : Nat, role : {"user", "assistant"}, send : Sends]
    /\ sending = [s \in Sends |-> sending[s]] /\ \A s \in Sends : Sending(sending[s])
    /\ outcome \in [Sends -> Outcomes]
    /\ visible \in BOOLEAN
    /\ faulty \subseteq Sends

\* The rows are numbered without a gap, question and answer in turn.
WholeTurns ==
    /\ conversation.last % 2 = 0
    /\ {row.sequence : row \in turns} = 1..conversation.last
    /\ \A row \in turns :
        row.sequence % 2 = 1 => \E answer \in turns :
            answer.sequence = row.sequence + 1 /\ answer.send = row.send /\ answer.role # row.role
    /\ conversation.title = NoSend => conversation.last = 0
    /\ conversation.last = 0 => conversation.title = NoSend
    /\ \A row \in turns : row.sequence = 1 => conversation.title = row.send

\* A send under way has saved nothing and told nothing.
Honest(s) ==
    /\ sending[s].read <= conversation.last
    /\ sending[s].step # "done" => outcome[s] = "none" /\ s \notin Saved
    /\ outcome[s] = "ok" => s \in Saved
    /\ outcome[s] = "conflict" => s \notin Saved /\ conversation.last > sending[s].read
    /\ outcome[s] = "unavailable" => s \in faulty

AssistantInv == AssistantType /\ WholeTurns /\ \A s \in Sends : Honest(s)

\* Whole turns and honest answers are what users are told.
LEMMA AssistantInvSound == AssistantInv => TurnsToldRight
  BY DEF AssistantInv, WholeTurns, Honest, TurnsToldRight

\* Initially nothing is saved and nothing asked.
LEMMA AssistantInitSound == AssistantInit => AssistantInv
  BY AssistantAssumption DEF AssistantInit, AssistantInv, AssistantType, WholeTurns, Honest, Saved,
     Outcomes, Sending, Steps

\* A send that goes on keeps what it has read.
LEMMA SendingMoves ==
  ASSUME NEW r, Sending(r), NEW step \in Steps
  PROVE  /\ Sending([r EXCEPT !.step = step])
         /\ [r EXCEPT !.step = step].read = r.read /\ [r EXCEPT !.step = step].step = step
<1>1. [r EXCEPT !.step = step] \in [step : Steps, read : Nat, answer : {r.answer}]
  BY DEF Sending
<1> QED
  BY <1>1 DEF Sending

\* Question and answer, in the rows' numbers and in their send.
LEMMA TurnRows ==
  ASSUME NEW s, NEW read
  PROVE  /\ {row.sequence : row \in Turn(s, read)} = {read + 1, read + 2}
         /\ {row.send : row \in Turn(s, read)} = {s}
  BY DEF Turn

\* A step of a send that touches nothing of the conversation.
LEMMA QuietStep ==
  ASSUME AssistantInv, NEW s \in Sends, UNCHANGED <<conversation, turns, visible>>,
         NEW what \in Outcomes, NEW record, Sending(record),
         sending' = [sending EXCEPT ![s] = record],
         outcome' = [outcome EXCEPT ![s] = what],
         sending[s].step # "done", record.read <= conversation.last,
         \/ what = "none" /\ faulty' = faulty
         \/ what = "rate limited" /\ record.step = "done" /\ faulty' = faulty
         \/ what = "unavailable" /\ record.step = "done" /\ faulty' = faulty \cup {s}
         \/ what = "conflict" /\ record.step = "done" /\ faulty' = faulty /\ conversation.last > record.read
  PROVE  AssistantInv'
<1>1. AssistantType' /\ WholeTurns'
  BY DEF AssistantInv, AssistantType, WholeTurns, Sending
<1>2. ASSUME NEW r \in Sends PROVE Honest(r)'
  <2>1. Saved' = Saved
    BY DEF Saved
  <2>2. CASE r = s
    BY <2>1, <2>2 DEF AssistantInv, AssistantType, Honest
  <2>3. CASE r # s
    BY <2>1, <2>3 DEF AssistantInv, AssistantType, Honest
  <2> QED
    BY <2>2, <2>3
<1> QED
  BY <1>1, <1>2 DEF AssistantInv

\* The step ReadConversation keeps the invariant.
LEMMA ReadKeeps ==
  ASSUME AssistantInv, NEW s \in Sends, ReadConversation(s)
  PROVE  AssistantInv'
<1>1. outcome' = [outcome EXCEPT ![s] = "none"]
  BY DEF ReadConversation, AssistantInv, AssistantType, Honest
<1>2. conversation.last \in Nat /\ "none" \in Outcomes
  BY DEF AssistantInv, AssistantType, Outcomes
<1> DEFINE record == [step |-> "asked", read |-> conversation.last, answer |-> NoAnswer]
<1>3. sending' = [sending EXCEPT ![s] = record] /\ Sending(record) /\ record.read = conversation.last
  BY <1>2 DEF ReadConversation, Step, Sending, Steps
<1>4. sending[s].step # "done" /\ UNCHANGED <<conversation, turns, visible, faulty>>
  BY DEF ReadConversation
<1>5. conversation.last <= conversation.last
  BY <1>2
<1> HIDE DEF record
<1> QED
  BY <1>1, <1>2, <1>3, <1>4, <1>5, QuietStep

\* The step ModelAnswers keeps the invariant.
LEMMA ModelKeeps ==
  ASSUME AssistantInv, NEW s \in Sends, ModelAnswers(s)
  PROVE  AssistantInv'
<1>1. outcome' = [outcome EXCEPT ![s] = "none"]
  BY DEF ModelAnswers, AssistantInv, AssistantType, Honest
<1>2. PICK answer : Step(s, [sending[s] EXCEPT !.step = "answered", !.answer = answer])
  BY DEF ModelAnswers
<1>3. Sending(sending[s]) /\ sending[s].read <= conversation.last /\ "none" \in Outcomes
  BY DEF AssistantInv, AssistantType, Honest, Outcomes
<1> DEFINE record == [sending[s] EXCEPT !.step = "answered", !.answer = answer]
<1>4. sending' = [sending EXCEPT ![s] = record] /\ Sending(record) /\ record.read = sending[s].read
  <2>1. "answered" \in Steps
    BY DEF Steps
  <2>2. record \in [step : Steps, read : Nat, answer : {answer}] /\ record.read = sending[s].read
    BY <1>3, <2>1 DEF Sending
  <2> QED
    BY <1>2, <2>2 DEF Step, Sending
<1>5. sending[s].step # "done" /\ UNCHANGED <<conversation, turns, visible, faulty>>
  BY DEF ModelAnswers
<1> HIDE DEF record
<1> QED
  BY <1>1, <1>3, <1>4, <1>5, QuietStep

\* Whatever is told without a write.
LEMMA TellKeeps ==
  ASSUME AssistantInv, NEW s \in Sends, NEW what \in Outcomes, Tell(s, what), sending[s].step # "done",
         UNCHANGED <<conversation, turns, visible>>,
         \/ what = "rate limited" /\ faulty' = faulty
         \/ what = "unavailable" /\ faulty' = faulty \cup {s}
         \/ what = "conflict" /\ faulty' = faulty /\ conversation.last > sending[s].read
  PROVE  AssistantInv'
<1>1. Sending(sending[s]) /\ sending[s].read <= conversation.last
  BY DEF AssistantInv, AssistantType, Honest
<1> DEFINE record == [sending[s] EXCEPT !.step = "done"]
<1>2. /\ sending' = [sending EXCEPT ![s] = record] /\ outcome' = [outcome EXCEPT ![s] = what]
      /\ Sending(record) /\ record.read = sending[s].read /\ record.step = "done"
  BY <1>1, SendingMoves DEF Tell, Step, Steps
<1> HIDE DEF record
<1> QED
  BY <1>1, <1>2, QuietStep

\* The transaction appends where the rows end: the unique index never objects.
LEMMA AppendKeeps ==
  ASSUME AssistantInv, NEW s \in Sends, AppendTurn(s)
  PROVE  AssistantInv'
<1> DEFINE read == sending[s].read
<1>0. /\ read \in Nat /\ conversation.last \in Nat /\ read <= conversation.last
      /\ sending[s].step = "answered" /\ UNCHANGED visible
  BY DEF AppendTurn, AssistantInv, AssistantType, Honest, Sending
<1>1. Unchanged(read) => Free(read)
  BY <1>0 DEF Unchanged, Free, AssistantInv, AssistantType, WholeTurns
<1>2. CASE ~Unchanged(read)
  <2>1. Tell(s, "conflict") /\ UNCHANGED <<turns, conversation, faulty>> /\ "conflict" \in Outcomes
    BY <1>2 DEF AppendTurn, Outcomes
  <2>2. conversation.last > sending[s].read
    BY <1>0, <1>2 DEF Unchanged
  <2> QED
    BY <1>0, <2>1, <2>2, TellKeeps
<1>3. CASE Unchanged(read)
  <2> DEFINE last == conversation.last
  <2>1. /\ turns' = turns \cup Turn(s, last)
        /\ conversation' = [last |-> last + 2, title |-> TitleFor(s)]
        /\ \/ Tell(s, "ok") /\ UNCHANGED faulty
           \/ Tell(s, "unavailable") /\ faulty' = faulty \cup {s}
    BY <1>1, <1>3 DEF AppendTurn, Unchanged
  <2> DEFINE record == [sending[s] EXCEPT !.step = "done"]
  <2>2. /\ sending' = [sending EXCEPT ![s] = record]
        /\ Sending(record) /\ record.read = read /\ record.step = "done"
        /\ \/ outcome' = [outcome EXCEPT ![s] = "ok"] /\ UNCHANGED faulty
           \/ outcome' = [outcome EXCEPT ![s] = "unavailable"] /\ faulty' = faulty \cup {s}
    BY <2>1, SendingMoves DEF Tell, Step, Steps, AssistantInv, AssistantType
  <2> HIDE DEF record
  <2>3. AssistantType'
    <3>1. Turn(s, last) \subseteq [sequence : Nat, role : {"user", "assistant"}, send : Sends]
      BY <1>0 DEF Turn
    <3>2. TitleFor(s) \in Sends \cup {NoSend}
      BY DEF TitleFor, AssistantInv, AssistantType
    <3>3. turns' \subseteq [sequence : Nat, role : {"user", "assistant"}, send : Sends]
      BY <2>1, <3>1 DEF AssistantInv, AssistantType
    <3>4. conversation' \in [last : Nat, title : Sends \cup {NoSend}]
      BY <1>0, <2>1, <3>2
    <3>5. sending' = [r \in Sends |-> sending'[r]] /\ \A r \in Sends : Sending(sending'[r])
      BY <2>2 DEF AssistantInv, AssistantType
    <3>6. outcome' \in [Sends -> Outcomes] /\ faulty' \subseteq Sends
      BY <2>2 DEF Outcomes, AssistantInv, AssistantType
    <3> QED
      BY <1>0, <3>3, <3>4, <3>5, <3>6 DEF AssistantInv, AssistantType
  <2>4. WholeTurns'
    <3>1. conversation'.last = last + 2 /\ conversation'.title = TitleFor(s)
      BY <2>1
    <3>2. /\ last % 2 = 0 /\ {row.sequence : row \in turns} = 1..last
          /\ \A row \in turns : row.sequence \in Nat
      BY DEF AssistantInv, AssistantType, WholeTurns
    <3>3. (last + 2) % 2 = 0
      BY <1>0, <3>2
    <3>4. {row.sequence : row \in turns'} = 1..(last + 2)
      <4>1. {row.sequence : row \in turns'} = {row.sequence : row \in turns} \cup {last + 1, last + 2}
        <5>1. turns' = turns \cup Turn(s, last)
          BY <2>1
        <5>2. {row.sequence : row \in Turn(s, last)} = {last + 1, last + 2}
          BY TurnRows
        <5> QED
          BY <5>1, <5>2
      <4> QED
        BY <1>0, <3>2, <4>1
    <3>5. ASSUME NEW row \in turns', row.sequence % 2 = 1
          PROVE  \E answer \in turns' :
                   answer.sequence = row.sequence + 1 /\ answer.send = row.send /\ answer.role # row.role
      <4>1. CASE row \in turns
        BY <2>1, <3>5, <4>1 DEF AssistantInv, WholeTurns
      <4>2. CASE row = [sequence |-> last + 1, role |-> "user", send |-> s]
        <5>1. [sequence |-> last + 2, role |-> "assistant", send |-> s] \in turns'
          BY <2>1 DEF Turn
        <5> QED
          BY <1>0, <4>2, <5>1
      <4>3. row # [sequence |-> last + 2, role |-> "assistant", send |-> s]
        BY <1>0, <3>3, <3>5
      <4> QED
        BY <2>1, <4>1, <4>2, <4>3 DEF Turn
    <3>6. TitleFor(s) # NoSend
      BY AssistantAssumption DEF TitleFor
    <3>7. ASSUME NEW row \in turns', row.sequence = 1 PROVE TitleFor(s) = row.send
      <4>1. CASE row \in turns
        <5>1. last # 0
          BY <1>0, <3>2, <3>7, <4>1
        <5> QED
          BY <3>7, <4>1, <5>1 DEF TitleFor, AssistantInv, WholeTurns
      <4>2. CASE row \in Turn(s, last)
        <5>1. last = 0 /\ row.send = s
          BY <1>0, <3>7, <4>2 DEF Turn
        <5> QED
          BY <5>1 DEF TitleFor, AssistantInv, WholeTurns
      <4> QED
        BY <2>1, <4>1, <4>2
    <3> QED
      BY <1>0, <3>1, <3>3, <3>4, <3>5, <3>6, <3>7 DEF WholeTurns
  <2>5. ASSUME NEW r \in Sends PROVE Honest(r)'
    <3>1. Saved' = Saved \cup {s}
      <4>1. {row.send : row \in Turn(s, last)} = {s}
        BY TurnRows
      <4>2. {row.send : row \in turns'} = {row.send : row \in turns} \cup {row.send : row \in Turn(s, last)}
        BY <2>1
      <4> QED
        BY <4>1, <4>2 DEF Saved
    <3>2. conversation'.last = last + 2
      BY <2>1
    <3>3. CASE r = s
      <4>1. sending'[s].read = read /\ sending'[s].step = "done"
        BY <2>2 DEF AssistantInv, AssistantType
      <4>2. outcome'[s] = "ok" \/ (outcome'[s] = "unavailable" /\ s \in faulty')
        BY <2>2 DEF AssistantInv, AssistantType
      <4> QED
        BY <1>0, <3>1, <3>2, <3>3, <4>1, <4>2 DEF Honest
    <3>4. CASE r # s
      <4>1. sending'[r] = sending[r] /\ outcome'[r] = outcome[r] /\ faulty \subseteq faulty'
        BY <2>2, <3>4 DEF AssistantInv, AssistantType
      <4>2. sending[r].read \in Nat
        BY DEF AssistantInv, AssistantType, Sending
      <4> QED
        BY <1>0, <3>1, <3>2, <3>4, <4>1, <4>2 DEF AssistantInv, Honest
    <3> QED
      BY <3>3, <3>4
  <2> QED
    BY <2>3, <2>4, <2>5 DEF AssistantInv
<1> QED
  BY <1>2, <1>3

\* Every step keeps the invariant.
LEMMA AssistantStep == AssistantInv /\ [AssistantNext]_assistantVars => AssistantInv'
<1> SUFFICES ASSUME AssistantInv, [AssistantNext]_assistantVars PROVE AssistantInv'
  OBVIOUS
<1>1. CASE UNCHANGED assistantVars
  BY <1>1 DEF assistantVars, AssistantInv, AssistantType, WholeTurns, Honest, Saved
<1>2. CASE ProductChanges
  BY <1>2 DEF ProductChanges, AssistantInv, AssistantType, WholeTurns, Honest, Saved
<1>3. ASSUME NEW s \in Sends, RateLimited(s) PROVE AssistantInv'
  BY <1>3, TellKeeps DEF RateLimited, Outcomes
<1>4. ASSUME NEW s \in Sends, SendFails(s) PROVE AssistantInv'
  BY <1>4, TellKeeps DEF SendFails, Outcomes
<1> QED
  BY <1>1, <1>2, <1>3, <1>4, ReadKeeps, ModelKeeps, AppendKeeps DEF AssistantNext

\* A send reports success just when its question and its answer are saved, side
\* by side: service.go writes both in one transaction, behind the unique index
\* of the conversation's rows.
THEOREM TurnsHonest == AssistantSpec => []TurnsToldRight
  BY AssistantInitSound, AssistantStep, AssistantInvSound, PTL DEF AssistantSpec

-----------------------------------------------------------------------------
(***************************************************************************)
(* Access to a shop, for any number of people and requests. What a request *)
(* was told may have changed since, unless it holds the lock of the shop's *)
(* row; so the invariant says of each that it was so at some moment since  *)
(* the request came in, and of the one holder of the lock that it is so    *)
(* still.                                                                  *)
(***************************************************************************)

Roles    == Members \cup {NoRole}
UnderWay == {"asked", "locked", "vouched for", "allowed"}
Statuses == {"none", "pending", "approved", "suspended"}

Made(steps) ==
    [kind : DOMAIN Needs, by : People, target : People, role : {"manager", "staff", NoRole},
     step : steps, status : Statuses, atCommit : Roles]

ShopType ==
    /\ shopStatus \in Statuses
    /\ member \in [People -> Roles]
    /\ shopLock \subseteq Requests
    /\ requests \in [Requests -> {NotMade, Refused} \cup Made(UnderWay \cup {"done"})]
    /\ during \in [Requests -> [roles : SUBSET Roles, statuses : SUBSET Statuses]]

Holding(h) == requests[h].step \in {"locked", "allowed"} /\ requests[h].kind \in Locked

\* The row of the shop is locked by one request at most, which is between its
\* lock and its act.
OneHolder ==
    /\ \A h \in shopLock : shopLock = {h} /\ Holding(h)
    /\ \A h \in Requests : Holding(h) => h \in shopLock

\* A shop that is not there has no members and gets no requests.
ShopThere ==
    /\ shopStatus = "none" =>
         /\ \A u \in People : member[u] = NoRole
         /\ \A h \in Requests : requests[h] = NotMade
    /\ shopStatus # "none" => Cardinality(Owners(member)) = 1

\* What a request has been told was so at some moment of it; what the holder of
\* the lock was told is still so.
Told(h) ==
    LET q == requests[h] IN
    /\ q.step \in UnderWay => member[q.by] \in during[h].roles /\ shopStatus \in during[h].statuses
    /\ q.step \in {"vouched for", "allowed"} => during[h].roles \cap Needs[q.kind] # {}
    /\ q.step = "locked" => q.kind \in Locked
    /\ q.step = "vouched for" => q.kind \notin Local
    /\ q.step = "allowed" =>
         /\ q.kind \in Locked => member[q.by] \in Needs[q.kind]
         /\ q.kind = "voucher" /\ q.status = "approved" => "approved" \in during[h].statuses
    /\ q.step = "done" => Justified(h)

ShopInv == ShopType /\ OneHolder /\ ShopThere /\ \A h \in Requests : Told(h)

\* A request that has acted was told what it needed.
LEMMA ShopInvSound == ShopInv => OnlyMembersAct
  BY DEF ShopInv, ShopThere, Told, OnlyMembersAct, Is

\* Initially there is no request.
LEMMA ShopInitSound == ShopInit => ShopInv
<1> SUFFICES ASSUME ShopInit PROVE ShopInv
  OBVIOUS
<1>1. ShopType
  BY DEF ShopInit, ShopType, Statuses, Roles
<1>2. \A h \in Requests : requests[h] = NotMade
  BY DEF ShopInit
<1> QED
  BY <1>1, <1>2 DEF ShopInit, ShopInv, OneHolder, Holding, ShopThere, Told, NotMade, UnderWay, Owners

\* The requests not made and refused are not under way.
LEMMA StepsApart == NotMade.step = "not made" /\ Refused.step = "refused"
  BY DEF NotMade, Refused

\* What a request's step says of its record.
LEMMA MadeFields ==
  ASSUME ShopInv, NEW h \in Requests, requests[h].step \in UnderWay
  PROVE  requests[h] \in Made(UnderWay)
<1>1. requests[h] # NotMade /\ requests[h] # Refused
  BY StepsApart DEF UnderWay
<1>2. requests[h] \in Made(UnderWay \cup {"done"})
  BY <1>1 DEF ShopInv, ShopType
<1> QED
  BY <1>2 DEF Made

\* A request that goes on to the given step, with the lock as it is then.
LEMMA RequestMoves ==
  ASSUME ShopInv, NEW h \in Requests, UNCHANGED <<shopStatus, member, during>>,
         requests[h].step \in UnderWay,
         NEW q, q = Refused \/ q \in Made(UnderWay \cup {"done"}),
         requests' = [requests EXCEPT ![h] = q],
         shopLock' \in {shopLock, shopLock \ {h}, {h}}, shopLock' = {h} => shopLock \in {{}, {h}},
         h \in shopLock' <=> (q.step \in {"locked", "allowed"} /\ q.kind \in Locked),
         Told(h)'
  PROVE  ShopInv'
<1>1. ShopType'
  BY DEF ShopInv, ShopType
<1>2. OneHolder'
  <2>1. \A g \in Requests : g # h => (Holding(g)' <=> Holding(g))
    BY DEF Holding, ShopInv, ShopType
  <2>2. Holding(h)' <=> h \in shopLock'
    BY DEF Holding, ShopInv, ShopType
  <2> QED
    BY <2>1, <2>2 DEF ShopInv, ShopType, OneHolder
<1>3. ShopThere'
  <2>1. requests[h] # NotMade
    BY StepsApart DEF UnderWay
  <2> QED
    BY <2>1 DEF ShopInv, ShopThere
<1>4. ASSUME NEW g \in Requests, g # h PROVE Told(g)'
  BY <1>4 DEF ShopInv, ShopType, Told, Justified
<1> QED
  BY <1>1, <1>2, <1>3, <1>4 DEF ShopInv

\* The step Locks keeps the invariant.
LEMMA LocksKeeps ==
  ASSUME ShopInv, NEW h \in Requests, Locks(h)
  PROVE  ShopInv'
<1>1. requests[h] \in Made(UnderWay) /\ requests[h].step = "asked" /\ requests[h].kind \in Locked
  BY MadeFields DEF Locks, Is, UnderWay
<1> DEFINE q == [requests[h] EXCEPT !.step = "locked"]
<1>2. /\ q \in Made(UnderWay \cup {"done"}) /\ requests' = [requests EXCEPT ![h] = q]
      /\ q.step = "locked" /\ q.kind = requests[h].kind /\ q.by = requests[h].by
  BY <1>1 DEF Locks, Moved, Made, UnderWay
<1> HIDE DEF q
<1>3. Told(h)'
  BY <1>1, <1>2 DEF Locks, ShopInv, ShopType, Told, UnderWay
<1> QED
  BY <1>1, <1>2, <1>3, RequestMoves DEF Locks, RowFree, UnderWay

\* The step Role keeps the invariant.
LEMMA RoleKeeps ==
  ASSUME ShopInv, NEW h \in Requests, Role(h)
  PROVE  ShopInv'
<1>1. requests[h].step \in {"asked", "locked"} /\ requests[h].step \in UnderWay
  BY DEF Role, Is, UnderWay
<1>2. requests[h] \in Made(UnderWay)
  BY <1>1, MadeFields
<1>3. requests[h].by \in People /\ requests[h].kind \in DOMAIN Needs
  BY <1>2 DEF Made
<1>h. h \in shopLock <=> requests[h].step = "locked"
  BY <1>1, <1>2 DEF Role, Is, ShopInv, OneHolder, Holding, Told
<1>4. CASE member[requests[h].by] \notin Needs[requests[h].kind]
  <2>1. requests' = [requests EXCEPT ![h] = Refused] /\ shopLock' = shopLock \ {h}
    BY <1>4 DEF Role, Refuse
  <2>2. Told(h)'
    BY <2>1 DEF Told, UnderWay, Refused, ShopInv, ShopType
  <2> QED
    BY <1>1, <2>1, <2>2, RequestMoves DEF Role, Refused
<1>5. CASE member[requests[h].by] \in Needs[requests[h].kind]
  <2>1. PICK step \in {"allowed", "vouched for"} :
           /\ step = "vouched for" <=> requests[h].kind \notin Local
           /\ requests' = [requests EXCEPT ![h].step = step] /\ shopLock' = shopLock
    BY <1>5 DEF Role, Moved
  <2> DEFINE q == [requests[h] EXCEPT !.step = step]
  <2>2. /\ q \in Made(UnderWay \cup {"done"}) /\ requests' = [requests EXCEPT ![h] = q]
        /\ q.step = step /\ q.kind = requests[h].kind /\ q.by = requests[h].by
    BY <1>2, <2>1 DEF Made, UnderWay
  <2> HIDE DEF q
  <2>3. /\ requests'[h] = q /\ during'[h] = during[h]
        /\ member' = member /\ shopStatus' = shopStatus
    BY <2>2 DEF Role, ShopInv, ShopType
  <2>4. member[requests[h].by] \in during[h].roles /\ shopStatus \in during[h].statuses
    BY <1>1 DEF ShopInv, Told
  <2>5. Told(h)'
    BY <1>3, <1>5, <2>1, <2>2, <2>3, <2>4 DEF Told, UnderWay, Local, Locked
  <2>6. h \in shopLock' <=> (q.step \in {"locked", "allowed"} /\ q.kind \in Locked)
    BY <1>h, <1>1, <2>1, <2>2 DEF Role, Is, Local, Locked, ShopInv, Told
  <2> QED
    BY <1>1, <2>1, <2>2, <2>5, <2>6, RequestMoves DEF Role
<1> QED
  BY <1>4, <1>5

\* The step CheckMembership keeps the invariant.
LEMMA CheckMembershipKeeps ==
  ASSUME ShopInv, NEW h \in Requests, CheckMembership(h)
  PROVE  ShopInv'
<1>1. requests[h] \in Made(UnderWay) /\ requests[h].step = "vouched for" /\ requests[h].step \in UnderWay
  BY MadeFields DEF CheckMembership, Is, UnderWay
<1> DEFINE q == [requests[h] EXCEPT !.status = shopStatus, !.step = "allowed"]
<1>2. /\ q \in Made(UnderWay \cup {"done"}) /\ requests' = [requests EXCEPT ![h] = q]
      /\ q.step = "allowed" /\ q.kind = requests[h].kind /\ q.by = requests[h].by /\ q.status = shopStatus
  BY <1>1 DEF CheckMembership, Made, UnderWay, ShopInv, ShopType
<1> HIDE DEF q
<1>3. requests[h].kind \notin Locked
  BY <1>1 DEF ShopInv, Told, Local
<1>4. Told(h)'
  <2>1. requests'[h] = q
    BY <1>2 DEF ShopInv, ShopType
  <2>2. /\ member' = member /\ shopStatus' = shopStatus /\ during' = during
        /\ member[q.by] \in during[h].roles /\ shopStatus \in during[h].statuses
        /\ during[h].roles \cap Needs[q.kind] # {}
    BY <1>1, <1>2 DEF CheckMembership, ShopInv, Told, UnderWay
  <2> QED
    BY <1>2, <1>3, <2>1, <2>2 DEF Told
<1> QED
  BY <1>1, <1>2, <1>3, <1>4, RequestMoves DEF CheckMembership, ShopInv, OneHolder, Holding

\* The step CallFails keeps the invariant.
LEMMA CallFailsKeeps ==
  ASSUME ShopInv, NEW h \in Requests, CallFails(h)
  PROVE  ShopInv'
<1>1. requests[h].step \in UnderWay /\ requests' = [requests EXCEPT ![h] = Refused] /\ shopLock' = shopLock
  BY DEF CallFails, UnderWay, Refuse
<1>2. Told(h)'
  BY <1>1, StepsApart DEF Told, UnderWay, ShopInv, ShopType
<1>3. h \notin shopLock
  BY <1>1 DEF CallFails, ShopInv, OneHolder, Holding, Local
<1> QED
  BY <1>1, <1>2, <1>3, StepsApart, RequestMoves DEF CallFails

\* A request that acts has been allowed to; what it is done with is justified.
LEMMA ActsKeeps ==
  ASSUME ShopInv, NEW h \in Requests, NEW kinds, Acts(h, kinds),
         UNCHANGED <<shopStatus, member, during>>,
         shopLock' = shopLock \ {h},
         requests[h].kind = "voucher" => requests[h].status = "approved"
  PROVE  ShopInv'
<1>1. requests[h] \in Made(UnderWay) /\ requests[h].step = "allowed" /\ requests[h].step \in UnderWay
  BY MadeFields DEF Acts, Is, UnderWay
<1>2. requests[h].by \in People
  BY <1>1 DEF Made
<1> DEFINE q == [requests[h] EXCEPT !.step = "done", !.atCommit = member[requests[h].by]]
<1>3. /\ q \in Made(UnderWay \cup {"done"}) /\ requests' = [requests EXCEPT ![h] = q]
      /\ q.step = "done" /\ q.kind = requests[h].kind /\ q.atCommit = member[requests[h].by]
  BY <1>1, <1>2 DEF Acts, Made, UnderWay, ShopInv, ShopType
<1> HIDE DEF q
<1>4. Told(h)'
  <2>1. requests'[h] = q /\ during'[h] = during[h]
    BY <1>3 DEF ShopInv, ShopType
  <2>2. Told(h)
    BY DEF ShopInv
  <2> QED
    BY <1>1, <1>3, <2>1, <2>2 DEF Told, Justified, UnderWay
<1> QED
  BY <1>1, <1>3, <1>4, RequestMoves

\* What a change of the members or of the status adds to what the requests
\* under way have seen.
LEMMA SeenAdds ==
  ASSUME ShopInv, NEW roles \in [People -> Roles], NEW status \in Statuses, Seen(roles, status)
  PROVE  /\ during' \in [Requests -> [roles : SUBSET Roles, statuses : SUBSET Statuses]]
         /\ \A h \in Requests : /\ during[h].roles \subseteq during'[h].roles
                                /\ during[h].statuses \subseteq during'[h].statuses
         /\ \A h \in Requests : requests[h].step \in UnderWay =>
              roles[requests[h].by] \in during'[h].roles /\ status \in during'[h].statuses
<1>1. ASSUME NEW h \in Requests
      PROVE  /\ during'[h] \in [roles : SUBSET Roles, statuses : SUBSET Statuses]
             /\ during[h].roles \subseteq during'[h].roles
             /\ during[h].statuses \subseteq during'[h].statuses
             /\ requests[h].step \in UnderWay =>
                  roles[requests[h].by] \in during'[h].roles /\ status \in during'[h].statuses
  <2>0. during[h] \in [roles : SUBSET Roles, statuses : SUBSET Statuses]
    BY DEF ShopInv, ShopType
  <2>1. CASE requests[h].step \in UnderWay
    <3>1. requests[h].by \in People
      BY <2>1, MadeFields DEF Made
    <3>2. during'[h] = [roles |-> during[h].roles \cup {roles[requests[h].by]},
                        statuses |-> during[h].statuses \cup {status}]
      BY <2>1 DEF Seen, UnderWay
    <3> QED
      BY <2>0, <3>1, <3>2
  <2>2. CASE requests[h].step \notin UnderWay
    <3>1. requests[h].step \in {"not made", "done", "refused"}
      BY <2>2, StepsApart DEF ShopInv, ShopType, Made
    <3> QED
      BY <2>0, <2>2, <3>1 DEF Seen
  <2> QED
    BY <2>1, <2>2
<1>2. during' = [h \in Requests |-> during'[h]]
  BY DEF Seen
<1> QED
  BY <1>1, <1>2

\* What others did does not take back what a request was told, unless it relies
\* on the lock.
LEMMA OthersKeepTold ==
  ASSUME ShopInv, NEW h \in Requests, requests'[h] = requests[h],
         member' \in [People -> Roles], shopStatus' \in Statuses, Seen(member', shopStatus'),
         ~Holding(h) \/ member' = member
  PROVE  Told(h)'
<1>1. /\ during[h].roles \subseteq during'[h].roles
      /\ during[h].statuses \subseteq during'[h].statuses
      /\ requests[h].step \in UnderWay =>
           member'[requests[h].by] \in during'[h].roles /\ shopStatus' \in during'[h].statuses
  BY SeenAdds
<1>2. Told(h)
  BY DEF ShopInv
<1> QED
  BY <1>1, <1>2 DEF Told, Justified, Holding

\* A change of the members is seen by every request under way, and the one that
\* made it held the lock.
LEMMA SetMemberKeeps ==
  ASSUME ShopInv, NEW h \in Requests, SetMember(h)
  PROVE  ShopInv'
<1>1. /\ requests[h] \in Made(UnderWay) /\ requests[h].step = "allowed"
      /\ requests[h].step \in UnderWay /\ requests[h].kind = "member"
  BY MadeFields DEF SetMember, Is, UnderWay
<1>2. /\ requests[h].by \in People /\ requests[h].target \in People
      /\ requests[h].role \in {"manager", "staff", NoRole}
  BY <1>1 DEF Made
<1>3. shopStatus' = shopStatus /\ shopLock' = shopLock \ {h}
  BY DEF SetMember
<1>4. CASE member[requests[h].target] = "owner"
  <2>1. requests' = [requests EXCEPT ![h] = Refused] /\ member' = member /\ during' = during
    BY <1>4 DEF SetMember, Refuse
  <2>2. Told(h)'
    BY <2>1, StepsApart DEF Told, UnderWay, ShopInv, ShopType
  <2> QED
    BY <1>1, <1>3, <2>1, <2>2, StepsApart, RequestMoves
<1>5. CASE member[requests[h].target] # "owner"
  <2> DEFINE q == [requests[h] EXCEPT !.step = "done", !.atCommit = member[requests[h].by]]
  <2>1. /\ q \in Made(UnderWay \cup {"done"}) /\ requests' = [requests EXCEPT ![h] = q]
        /\ q.step = "done" /\ q.kind = "member" /\ q.atCommit = member[requests[h].by]
    BY <1>1, <1>2, <1>5 DEF SetMember, Acts, Made, UnderWay, ShopInv, ShopType
  <2> HIDE DEF q
  <2>2. /\ member' = [member EXCEPT ![requests[h].target] = requests[h].role]
        /\ Seen(member', shopStatus')
    BY <1>3, <1>5 DEF SetMember
  <2>3. member' \in [People -> Roles] /\ shopStatus' \in Statuses
    BY <1>2, <1>3, <2>2 DEF ShopInv, ShopType, Roles, Members, Managers
  <2>4. /\ during' \in [Requests -> [roles : SUBSET Roles, statuses : SUBSET Statuses]]
        /\ during[h].roles \subseteq during'[h].roles
    BY <2>2, <2>3, SeenAdds
  <2>5. h \in shopLock /\ shopLock' = {}
    BY <1>1, <1>3 DEF ShopInv, OneHolder, Holding, Locked
  <2>6. ShopType'
    BY <2>1, <2>3, <2>4, <2>5 DEF ShopInv, ShopType
  <2>7. OneHolder'
    <3>1. requests'[h].step = "done"
      BY <2>1 DEF ShopInv, ShopType
    <3>2. \A g \in Requests : g # h => ~Holding(g) /\ requests'[g] = requests[g]
      BY <2>1, <2>5 DEF ShopInv, ShopType, OneHolder
    <3> QED
      BY <2>5, <3>1, <3>2 DEF OneHolder, Holding
  <2>8. ShopThere'
    <3>1. requests[h] # NotMade
      BY <1>1, StepsApart
    <3>2. shopStatus # "none"
      BY <3>1 DEF ShopInv, ShopThere
    <3>3. Owners(member') = Owners(member)
      BY <1>2, <1>5, <2>2 DEF Owners, ShopInv, ShopType, NoRole
    <3> QED
      BY <1>3, <3>2, <3>3 DEF ShopInv, ShopThere
  <2>9. ASSUME NEW g \in Requests PROVE Told(g)'
    <3>1. CASE g = h
      <4>1. Told(h)
        BY DEF ShopInv
      <4>2. requests'[h] = q
        BY <2>1 DEF ShopInv, ShopType
      <4> QED
        BY <1>1, <2>1, <2>4, <3>1, <4>1, <4>2 DEF Told, Justified, UnderWay, Locked
    <3>2. CASE g # h
      <4>1. requests'[g] = requests[g] /\ ~Holding(g)
        BY <2>1, <2>5, <3>2 DEF ShopInv, ShopType, OneHolder
      <4> QED
        BY <2>2, <2>3, <4>1, OthersKeepTold
    <3> QED
      BY <3>1, <3>2
  <2> QED
    BY <2>6, <2>7, <2>8, <2>9 DEF ShopInv
<1> QED
  BY <1>4, <1>5

\* A change of the shop's status is seen by every request under way.
LEMMA StatusKeeps ==
  ASSUME ShopInv, NEW status \in {"approved", "suspended"}, Status(status)
  PROVE  ShopInv'
<1>1. /\ member' = member /\ requests' = requests /\ shopLock' = shopLock
      /\ shopStatus' = status /\ shopStatus # "none" /\ status \in Statuses
      /\ member' \in [People -> Roles]
  BY DEF Status, Statuses, ShopInv, ShopType
<1>2. Seen(member', shopStatus')
  BY <1>1 DEF Status
<1>3. during' \in [Requests -> [roles : SUBSET Roles, statuses : SUBSET Statuses]]
  BY <1>1, <1>2, SeenAdds
<1>4. \A g \in Requests : Told(g)'
  BY <1>1, <1>2, OthersKeepTold
<1>5. ShopType' /\ OneHolder'
  BY <1>1, <1>3 DEF ShopInv, ShopType, OneHolder, Holding
<1>6. ShopThere'
  BY <1>1 DEF ShopInv, ShopThere, Owners
<1> QED
  BY <1>4, <1>5, <1>6 DEF ShopInv

\* The step Arrives keeps the invariant.
LEMMA ArrivesKeeps ==
  ASSUME ShopInv, NEW h \in Requests, NEW ask \in AnyAsk, Arrives(h, ask)
  PROVE  ShopInv'
<1>1. /\ ask \in Made(UnderWay) /\ ask.step = "asked" /\ ask.by \in People
  <2>1. "member" \in DOMAIN Needs
    BY DEF Needs
  <2>2. PICK kind \in DOMAIN Needs, by \in People, target \in People, role \in {"manager", "staff", NoRole} :
           ask = Ask(kind, by, target, role)
    BY <2>1 DEF AnyAsk
  <2>3. "asked" \in UnderWay /\ "none" \in Statuses /\ NoRole \in Roles
    BY DEF UnderWay, Statuses, Roles
  <2> QED
    BY <2>2, <2>3 DEF Ask, Made
<1>2. /\ requests[h] = NotMade /\ shopStatus # "none" /\ requests' = [requests EXCEPT ![h] = ask]
      /\ during' = [during EXCEPT ![h] = [roles |-> {member[ask.by]}, statuses |-> {shopStatus}]]
      /\ UNCHANGED <<shopStatus, member, shopLock>>
  BY DEF Arrives
<1>3. ShopType'
  BY <1>1, <1>2 DEF ShopInv, ShopType, Made
<1>4. OneHolder'
  <2>1. ~Holding(h) /\ ~Holding(h)'
    BY <1>1, <1>2, StepsApart DEF Holding, ShopInv, ShopType
  <2>2. \A g \in Requests : g # h => (Holding(g)' <=> Holding(g))
    BY <1>2 DEF Holding, ShopInv, ShopType
  <2> QED
    BY <1>2, <2>1, <2>2 DEF ShopInv, ShopType, OneHolder
<1>5. ShopThere'
  BY <1>2 DEF ShopInv, ShopThere
<1>6. ASSUME NEW g \in Requests PROVE Told(g)'
  <2>1. CASE g = h
    BY <1>1, <1>2, <2>1 DEF Told, ShopInv, ShopType, UnderWay
  <2>2. CASE g # h
    BY <1>2, <2>2 DEF Told, ShopInv, ShopType, Justified
  <2> QED
    BY <2>1, <2>2
<1> QED
  BY <1>3, <1>4, <1>5, <1>6 DEF ShopInv

\* The step Create keeps the invariant: nobody asked about a shop that was not
\* there.
LEMMA CreateKeeps ==
  ASSUME ShopInv, NEW u \in People, Create(u)
  PROVE  ShopInv'
<1>1. /\ \A g \in Requests : requests[g] = NotMade
      /\ \A v \in People : member[v] = NoRole
  BY DEF Create, ShopInv, ShopThere
<1>2. Owners(member') = {u}
  BY <1>1 DEF Create, Owners, ShopInv, ShopType, NoRole
<1>3. ShopType' /\ OneHolder'
  BY DEF Create, ShopInv, ShopType, OneHolder, Holding, Statuses, Roles, Members, Managers
<1>4. ShopThere'
  BY <1>2, FS_Singleton DEF Create, ShopThere
<1>5. \A g \in Requests : Told(g)'
  BY <1>1, StepsApart DEF Create, Told, UnderWay
<1> QED
  BY <1>3, <1>4, <1>5 DEF ShopInv

\* The steps that act on the shop without changing its members keep the
\* invariant.
LEMMA ActingKeeps ==
  ASSUME ShopInv, NEW h \in Requests,
         \/ Update(h) \/ SetAsset(h) \/ ListMembers(h) \/ Orders(h) \/ Dashboard(h)
         \/ Fulfill(h) \/ WriteMessage(h)
  PROVE  ShopInv'
<1>1. PICK kinds \in {{"update"}, {"asset"}, {"page"}, {"orders"}, {"dashboard"}, {"fulfil"}, {"message"}} :
         Acts(h, kinds)
  BY DEF Update, SetAsset, ListMembers, Orders, Dashboard, Reads, Fulfill, WriteMessage
<1>2. UNCHANGED <<shopStatus, member, during>>
  BY DEF Update, SetAsset, ListMembers, Orders, Dashboard, Reads, Fulfill, WriteMessage
<1>3. shopLock' = shopLock \/ shopLock' = shopLock \ {h}
  BY DEF Update, SetAsset, ListMembers, Orders, Dashboard, Reads, Fulfill, WriteMessage
<1>5. requests[h].kind \notin Locked => h \notin shopLock
  BY DEF ShopInv, OneHolder, Holding
<1>6. Update(h) \/ requests[h].kind \notin Locked
  BY DEF SetAsset, ListMembers, Orders, Dashboard, Reads, Fulfill, WriteMessage, Acts, Locked
<1>7. shopLock' = shopLock \ {h}
  BY <1>3, <1>5, <1>6 DEF Update
<1>8. requests[h].kind # "voucher"
  BY <1>1 DEF Acts
<1> QED
  BY <1>1, <1>2, <1>7, <1>8, ActsKeeps

\* The step Manage keeps the invariant.
LEMMA ManageKeeps ==
  ASSUME ShopInv, NEW h \in Requests, Manage(h)
  PROVE  ShopInv'
<1>1. /\ requests[h].step \in UnderWay /\ requests[h].kind = "voucher"
      /\ UNCHANGED <<shopStatus, member, during>> /\ h \notin shopLock /\ shopLock' = shopLock
  BY DEF Manage, Is, UnderWay, ShopInv, OneHolder, Holding, Locked
<1>2. CASE requests[h].status = "approved"
  <2>1. Acts(h, {"voucher"})
    BY <1>2 DEF Manage
  <2> QED
    BY <1>1, <1>2, <2>1, ActsKeeps
<1>3. CASE requests[h].status # "approved"
  <2>1. requests' = [requests EXCEPT ![h] = Refused]
    BY <1>3 DEF Manage, Refuse
  <2>2. Told(h)'
    BY <2>1, StepsApart DEF Told, UnderWay, ShopInv, ShopType
  <2> QED
    BY <1>1, <2>1, <2>2, StepsApart, RequestMoves
<1> QED
  BY <1>2, <1>3

\* Every step keeps the invariant.
LEMMA ShopStep == ShopInv /\ [ShopNext]_shopVars => ShopInv'
<1> SUFFICES ASSUME ShopInv, [ShopNext]_shopVars PROVE ShopInv'
  OBVIOUS
<1>1. CASE UNCHANGED shopVars
  BY <1>1 DEF shopVars, ShopInv, ShopType, OneHolder, Holding, ShopThere, Told, Justified
<1>2. CASE ShopNext
  <2>1. CASE \E u \in People : Create(u)
    BY <2>1, CreateKeeps
  <2>2. CASE \E status \in {"approved", "suspended"} : Status(status)
    BY <2>2, StatusKeeps
  <2>3. ASSUME NEW h \in Requests, \E ask \in AnyAsk : Arrives(h, ask) PROVE ShopInv'
    BY <2>3, ArrivesKeeps
  <2>4. ASSUME NEW h \in Requests, Locks(h) \/ Role(h) \/ CheckMembership(h) \/ CallFails(h) PROVE ShopInv'
    BY <2>4, LocksKeeps, RoleKeeps, CheckMembershipKeeps, CallFailsKeeps
  <2>5. ASSUME NEW h \in Requests, SetMember(h) \/ Manage(h) PROVE ShopInv'
    BY <2>5, SetMemberKeeps, ManageKeeps
  <2>6. ASSUME NEW h \in Requests,
               \/ Update(h) \/ SetAsset(h) \/ ListMembers(h) \/ Orders(h) \/ Dashboard(h)
               \/ Fulfill(h) \/ WriteMessage(h)
        PROVE  ShopInv'
    BY <2>6, ActingKeeps
  <2> QED
    BY <1>2, <2>1, <2>2, <2>3, <2>4, <2>5, <2>6 DEF ShopNext
<1> QED
  BY <1>1, <1>2

\* Whoever acts on a shop was a member with the role it takes, of a shop in the
\* state it takes, at some moment since he asked, and while he acts if the
\* handler locks the shop (repository.go of seller, access.go of the core).
THEOREM MembersOnly == ShopSpec => []OnlyMembersAct
<1>1. ShopInit => ShopInv
  BY ShopInitSound
<1>2. ShopInv /\ [ShopNext]_shopVars => ShopInv'
  BY ShopStep
<1>3. ShopInv => OnlyMembersAct
  BY ShopInvSound
<1> QED
  BY <1>1, <1>2, <1>3, PTL DEF ShopSpec

-----------------------------------------------------------------------------
(***************************************************************************)
(* The behaviour events between the collector, the two workers and the     *)
(* sink, for every length of the topics and any crashes and failures. Two  *)
(* inductive invariants: every message before a committed or read position *)
(* was handed on or dropped by a failed run; and while no run fails, a     *)
(* copy of an event comes less than a batch after those counted before, so *)
(* that it is still among the events that the profile remembers.           *)
(***************************************************************************)

(* Nothing is lost *)

Copies == [event : Nat, counts : BOOLEAN]

BehaviorType ==
    /\ raw \in Seq(Nat) /\ enriched \in Seq(Copies)
    /\ at \in [Workers -> Nat] /\ from \in [Workers -> Nat] /\ committed \in [Workers -> Nat]
    /\ handled \in [Workers -> BOOLEAN]
    /\ profile \in [offset : Nat, recent : Seq(Nat), counted : Seq(Nat)]
    /\ dropped \in [Workers -> SUBSET Nat]
    /\ failedRuns \in Nat

Positions ==
    /\ \A w \in Workers : /\ committed[w] <= from[w] /\ from[w] <= at[w]
                          /\ at[w] <= Len(Source(w))
    /\ profile.offset <= Len(enriched)
    /\ \A i \in 1..Len(raw) : raw[i] = i

\* Up to the n-th message all have been handed on, or were dropped.
Safe(w, n) == \A i \in 1..n : i \in Reached(w) \cup dropped[w]

HandedOn ==
    /\ \A w \in Workers : Safe(w, from[w]) /\ (handled[w] => Safe(w, at[w]))
    /\ Safe("profile", at["profile"]) /\ Safe("profile", profile.offset)
    /\ \A i \in 1..Len(profile.recent) :
         \E j \in 1..Len(profile.counted) : profile.recent[i] = profile.counted[j]

BehaviorInv == BehaviorType /\ Positions /\ HandedOn

\* What it is for a message to have reached each worker's target.
LEMMA InReached ==
  ASSUME BehaviorType, NEW i
  PROVE  /\ i \in Reached("enricher") <=>
              i \in 1..Len(raw) /\ \E j \in 1..Len(enriched) : raw[i] = enriched[j].event
         /\ i \in Reached("profile") <=>
              i \in 1..Len(enriched) /\
              (enriched[i].counts => \E j \in 1..Len(profile.counted) : enriched[i].event = profile.counted[j])
         /\ i \in Reached("sink") <=> i \in 1..Len(enriched) /\ enriched[i].event \in stored
<1>1. ToSet(profile.counted) = {profile.counted[j] : j \in 1..Len(profile.counted)}
  <2>1. profile.counted \in Seq(Nat)
    BY DEF BehaviorType
  <2>2. DOMAIN profile.counted = 1..Len(profile.counted)
    BY <2>1
  <2> QED
    BY <2>2 DEF ToSet
<1>2. i \in Reached("enricher") <=>
        i \in 1..Len(raw) /\ \E j \in 1..Len(enriched) : raw[i] = enriched[j].event
  BY DEF Reached, Source
<1>3. i \in Reached("profile") <=>
        i \in 1..Len(enriched) /\ (enriched[i].counts => enriched[i].event \in ToSet(profile.counted))
  BY DEF Reached, Source
<1>4. i \in Reached("sink") <=> i \in 1..Len(enriched) /\ enriched[i].event \in stored
  BY DEF Reached, Source
<1> QED
  BY <1>1, <1>2, <1>3, <1>4

\* What was committed was handed on or dropped.
LEMMA BehaviorInvSound == BehaviorInv => LostOnlyByFailedRuns
<1> SUFFICES ASSUME BehaviorInv, NEW w \in Workers, NEW i \in 1..committed[w]
             PROVE  i \in Reached(w) \cup dropped[w]
  BY DEF LostOnlyByFailedRuns
<1>1. i \in 1..from[w]
  BY DEF BehaviorInv, BehaviorType, Positions
<1> QED
  BY <1>1 DEF BehaviorInv, HandedOn, Safe

\* Initially the topics are empty.
LEMMA BehaviorInitSound == BehaviorInit => BehaviorInv
<1> SUFFICES ASSUME BehaviorInit PROVE BehaviorInv
  OBVIOUS
<1>1. BehaviorType
  BY BehaviorAssumption DEF BehaviorInit, BehaviorType
<1>2. Positions
  BY DEF BehaviorInit, Positions, Source, Workers
<1>3. HandedOn
  BY DEF BehaviorInit, HandedOn, Safe, Workers
<1> QED
  BY <1>1, <1>2, <1>3 DEF BehaviorInv

\* The topics only grow at their ends, and nothing is taken back from a profile
\* or from the table.
Grown ==
    /\ Len(raw) <= Len(raw') /\ \A i \in 1..Len(raw) : raw'[i] = raw[i]
    /\ Len(enriched) <= Len(enriched') /\ \A i \in 1..Len(enriched) : enriched'[i] = enriched[i]
    /\ \A i \in 1..Len(profile.counted) :
         \E j \in 1..Len(profile'.counted) : profile'.counted[j] = profile.counted[i]
    /\ stored \subseteq stored'
    /\ \A w \in Workers : dropped[w] \subseteq dropped'[w]

\* What was handed on or dropped stays so while the topics grow.
LEMMA ReachedGrows ==
  ASSUME BehaviorType, BehaviorType', Grown, NEW w \in Workers, NEW i,
         i \in Reached(w) \cup dropped[w]
  PROVE  i \in Reached(w)' \cup dropped'[w]
<1>l. Len(raw) \in Nat /\ Len(raw') \in Nat /\ Len(enriched) \in Nat /\ Len(enriched') \in Nat
  <2>1. raw \in Seq(Nat) /\ enriched \in Seq(Copies)
    BY DEF BehaviorType
  <2>2. raw' \in Seq(Nat) /\ enriched' \in Seq(Copies)
    BY DEF BehaviorType
  <2> QED
    BY <2>1, <2>2
<1>g. \A k \in 1..Len(enriched) : k \in 1..Len(enriched') /\ enriched'[k] = enriched[k]
  BY <1>l DEF Grown
<1>2. ASSUME i \in Reached(w) PROVE i \in Reached(w)'
  <2>1. CASE w = "enricher"
    <3>1. PICK j \in 1..Len(enriched) : i \in 1..Len(raw) /\ raw[i] = enriched[j].event
      BY <1>2, <2>1, InReached
    <3>2. i \in 1..Len(raw)' /\ j \in 1..Len(enriched)' /\ raw'[i] = enriched'[j].event
      BY <3>1, <1>l, <1>g DEF Grown
    <3> QED
      BY <2>1, <3>2 DEF Reached, Source
  <2>2. CASE w = "profile"
    <3>1. /\ i \in 1..Len(enriched)
          /\ enriched[i].counts => \E j \in 1..Len(profile.counted) : enriched[i].event = profile.counted[j]
      BY <1>2, <2>2, InReached
    <3>2. /\ i \in 1..Len(enriched)' /\ enriched'[i] = enriched[i]
      BY <3>1, <1>g
    <3>3. enriched'[i].counts => \E j \in 1..Len(profile'.counted) : enriched'[i].event = profile'.counted[j]
      BY <3>1, <3>2 DEF Grown
    <3>4. enriched'[i].counts => enriched'[i].event \in ToSet(profile'.counted)
      <4>1. profile'.counted \in Seq(Nat)
        BY DEF BehaviorType
      <4>2. \A j \in 1..Len(profile'.counted) : profile'.counted[j] \in ToSet(profile'.counted)
        BY <4>1 DEF ToSet
      <4> QED
        BY <3>3, <4>2
    <3> QED
      BY <2>2, <3>2, <3>4 DEF Reached, Source
  <2>3. CASE w = "sink"
    <3>1. i \in 1..Len(enriched) /\ enriched[i].event \in stored
      BY <1>2, <2>3, InReached
    <3>2. i \in 1..Len(enriched)' /\ enriched'[i] = enriched[i] /\ enriched'[i].event \in stored'
      BY <3>1, <1>g DEF Grown
    <3> QED
      BY <2>3, <3>2 DEF Reached, Source
  <2> QED
    BY <2>1, <2>2, <2>3 DEF Workers
<1> QED
  BY <1>2 DEF Grown

\* Nothing of it changes without the topics, the profile and the table.
LEMMA SafeSame ==
  ASSUME UNCHANGED <<raw, enriched, profile, stored, dropped>>, NEW w \in Workers, NEW n
  PROVE  Safe(w, n)' <=> Safe(w, n)
  BY DEF Safe, Reached, Source

\* Steps that move readers and nothing else.
LEMMA ReadersMove ==
  ASSUME BehaviorInv, BehaviorType', Positions',
         UNCHANGED <<raw, enriched, profile, stored, dropped>>,
         \A w \in Workers : Safe(w, from'[w]) /\ (handled'[w] => Safe(w, at'[w])),
         Safe("profile", at'["profile"])
  PROVE  BehaviorInv'
<1>1. "profile" \in Workers
  BY DEF Workers
<1> QED
  BY <1>1, SafeSame DEF BehaviorInv, HandedOn

\* The step Collect keeps the invariant.
LEMMA CollectKeeps ==
  ASSUME BehaviorInv, Collect
  PROVE  BehaviorInv'
<1>1. BehaviorType'
  BY DEF Collect, readers, BehaviorInv, BehaviorType
<1>2. /\ Len(raw') = Len(raw) + 1 /\ raw'[Len(raw) + 1] = Len(raw) + 1
      /\ \A i \in 1..Len(raw) : raw'[i] = raw[i]
      /\ UNCHANGED <<enriched, at, from, handled, committed, profile, stored, dropped>>
  BY DEF Collect, readers, BehaviorInv, BehaviorType
<1>l. Len(raw) \in Nat
  BY DEF BehaviorInv, BehaviorType
<1>3. Positions'
  <2>1. ASSUME NEW w \in Workers PROVE at'[w] <= Len(Source(w))'
    <3>1. at[w] <= Len(Source(w)) /\ at[w] \in Nat
      BY DEF BehaviorInv, Positions, BehaviorType
    <3> QED
      BY <1>2, <1>l, <3>1 DEF Source
  <2>2. \A i \in 1..Len(raw') : raw'[i] = i
    BY <1>2, <1>l DEF BehaviorInv, Positions
  <2> QED
    BY <1>2, <2>1, <2>2 DEF BehaviorInv, Positions
<1>4. Grown
  BY <1>2, <1>l DEF Grown, BehaviorInv, BehaviorType
<1>5. HandedOn'
  <2>1. \A w \in Workers : \A i : i \in Reached(w) \cup dropped[w] => i \in Reached(w)' \cup dropped'[w]
    BY <1>1, <1>4, ReachedGrows DEF BehaviorInv
  <2>2. \A w \in Workers : Safe(w, from[w])' /\ (handled'[w] => Safe(w, at[w])')
    BY <1>2, <2>1 DEF Safe, BehaviorInv, HandedOn
  <2>3. Safe("profile", at["profile"])' /\ Safe("profile", profile.offset)'
    BY <1>2, <2>1 DEF Safe, BehaviorInv, HandedOn, Workers
  <2> QED
    BY <1>2, <2>2, <2>3 DEF BehaviorInv, HandedOn
<1> QED
  BY <1>1, <1>3, <1>5 DEF BehaviorInv

\* The step Fetch keeps the invariant.
LEMMA FetchKeeps ==
  ASSUME BehaviorInv, NEW w \in {"enricher", "sink"}, Fetch(w)
  PROVE  BehaviorInv'
<1>1. /\ at' = [at EXCEPT ![w] = @ + 1] /\ at[w] < Len(Source(w)) /\ ~handled[w] /\ w \in Workers
      /\ UNCHANGED <<raw, enriched, from, handled, committed, profile, stored, dropped, failedRuns>>
  BY DEF Fetch, Workers
<1>2. BehaviorType'
  BY <1>1 DEF BehaviorInv, BehaviorType
<1>3. Positions'
  BY <1>1 DEF BehaviorInv, BehaviorType, Positions, Source
<1>4. \A v \in Workers : Safe(v, from'[v]) /\ (handled'[v] => Safe(v, at'[v]))
  BY <1>1 DEF BehaviorInv, BehaviorType, HandedOn
<1>5. Safe("profile", at'["profile"])
  BY <1>1 DEF BehaviorInv, BehaviorType, HandedOn, Workers
<1> QED
  BY <1>1, <1>2, <1>3, <1>4, <1>5, ReadersMove

\* The step Commit keeps the invariant: the whole batch is safe.
LEMMA CommitKeeps ==
  ASSUME BehaviorInv, NEW w \in Workers, Commit(w)
  PROVE  BehaviorInv'
<1>1. /\ committed' = [committed EXCEPT ![w] = at[w]] /\ from' = [from EXCEPT ![w] = at[w]]
      /\ handled' = [handled EXCEPT ![w] = FALSE] /\ (handled[w] \/ w = "profile")
      /\ UNCHANGED <<raw, enriched, at, profile, stored, dropped, failedRuns>>
  BY DEF Commit, Handled
<1>2. BehaviorType'
  BY <1>1 DEF BehaviorInv, BehaviorType
<1>3. Positions'
  BY <1>1 DEF BehaviorInv, BehaviorType, Positions, Source
<1>4. \A v \in Workers : Safe(v, from'[v]) /\ (handled'[v] => Safe(v, at'[v]))
  BY <1>1 DEF BehaviorInv, BehaviorType, HandedOn
<1>5. Safe("profile", at'["profile"])
  BY <1>1 DEF BehaviorInv, HandedOn
<1> QED
  BY <1>1, <1>2, <1>3, <1>4, <1>5, ReadersMove

\* The step Crash keeps the invariant: the reader goes back to what was
\* committed.
LEMMA CrashKeeps ==
  ASSUME BehaviorInv, Crash
  PROVE  BehaviorInv'
<1>1. /\ at' = committed /\ from' = committed /\ handled' = [w \in Workers |-> FALSE]
      /\ UNCHANGED <<raw, enriched, committed, profile, stored, dropped, failedRuns>>
  BY DEF Crash
<1>2. BehaviorType'
  BY <1>1 DEF BehaviorInv, BehaviorType
<1>3. Positions'
  <2>1. \A w \in Workers : committed[w] <= Len(Source(w)) /\ committed[w] \in Nat
    <3> TAKE w \in Workers
    <3>1. Len(Source(w)) \in Nat /\ committed[w] \in Nat /\ from[w] \in Nat /\ at[w] \in Nat
      BY DEF BehaviorInv, BehaviorType, Source
    <3> QED
      BY <3>1 DEF BehaviorInv, Positions
  <2> QED
    BY <1>1, <2>1 DEF BehaviorInv, Positions, Source
<1>4. \A w \in Workers : Safe(w, committed[w])
  BY DEF BehaviorInv, BehaviorType, Positions, HandedOn, Safe
<1>5. "profile" \in Workers
  BY DEF Workers
<1> QED
  BY <1>1, <1>2, <1>3, <1>4, <1>5, ReadersMove

\* A sequence is one after another.
IsJoined(c, a, b, S) ==
    /\ c \in Seq(S) /\ Len(c) = Len(a) + Len(b)
    /\ \A i \in 1..Len(a) : c[i] = a[i]
    /\ \A i \in 1..Len(b) : c[Len(a) + i] = b[i]

\* What is appended to a sequence comes behind it.
LEMMA OneAfterTheOther ==
  ASSUME NEW S, NEW a \in Seq(S), NEW b \in Seq(S), NEW c, c = a \o b
  PROVE  IsJoined(c, a, b, S)
BY DEF IsJoined

\* What a batch adds to the enriched topic.
LEMMA Published ==
  ASSUME BehaviorInv, Publish
  PROVE  /\ enriched' \in Seq(Copies)
         /\ Len(enriched') = Len(enriched) + (at["enricher"] - from["enricher"])
         /\ \A i \in 1..Len(enriched) : enriched'[i] = enriched[i]
         /\ \A i \in 1..(at["enricher"] - from["enricher"]) :
              enriched'[Len(enriched) + i].event = from["enricher"] + i
<1>1. PICK known \in SUBSET Batch("enricher") :
         enriched' = enriched \o Enriched(Offsets("enricher"), known)
  BY DEF Publish
<1>0. /\ at["enricher"] \in Nat /\ from["enricher"] \in Nat
      /\ from["enricher"] <= at["enricher"] /\ at["enricher"] <= Len(raw)
  <2>1. "enricher" \in Workers
    BY DEF Workers
  <2>2. at["enricher"] \in Nat /\ from["enricher"] \in Nat
    BY <2>1 DEF BehaviorInv, BehaviorType
  <2>3. from["enricher"] <= at["enricher"] /\ at["enricher"] <= Len(Source("enricher"))
    BY <2>1 DEF BehaviorInv, Positions
  <2> QED
    BY <2>2, <2>3 DEF Source
<1>2. PICK n \in Nat : n = at["enricher"] - from["enricher"]
  BY <1>0
<1>3. PICK start \in Nat : start = from["enricher"] /\ start + n <= Len(raw)
  BY <1>0, <1>2
<1>4. Offsets("enricher") = [i \in 1..n |-> start + i]
  BY <1>2, <1>3 DEF Offsets
<1>5. Len(Offsets("enricher")) = n
  BY <1>4
<1>6. \A i \in 1..n : (start + i \in known) \in BOOLEAN
  OBVIOUS
<1>7. \A i \in 1..n : raw[start + i] = start + i
  <2> TAKE i \in 1..n
  <2>1. Len(raw) \in Nat
    BY DEF BehaviorInv, BehaviorType
  <2>2. start + i \in 1..Len(raw)
    BY <1>3, <2>1
  <2> QED
    BY <2>2 DEF BehaviorInv, Positions
<1>8. PICK copies : copies = [i \in 1..n |-> [event |-> raw[start + i], counts |-> start + i \in known]]
  OBVIOUS
<1>9. Enriched(Offsets("enricher"), known) = copies
  BY <1>4, <1>5, <1>8 DEF Enriched
<1>10. \A i \in 1..n : copies[i] \in Copies /\ copies[i].event = start + i
  <2> TAKE i \in 1..n
  <2>1. copies[i] = [event |-> start + i, counts |-> start + i \in known]
    BY <1>7, <1>8
  <2>2. (start + i \in known) \in BOOLEAN
    BY <1>6
  <2>3. PICK counted \in BOOLEAN : copies[i] = [event |-> start + i, counts |-> counted]
    BY <2>1, <2>2, Zenon
  <2> QED
    BY <2>3 DEF Copies
<1>11. copies \in Seq(Copies) /\ Len(copies) = n
  <2>1. copies \in [1..n -> Copies]
    <3>1. DOMAIN copies = 1..n /\ copies = [i \in 1..n |-> copies[i]]
      BY <1>8
    <3> QED
      BY <1>10, <3>1, Zenon
  <2> QED
    BY <2>1
<1>12. enriched \in Seq(Copies)
  BY DEF BehaviorInv, BehaviorType
<1>13. enriched' = enriched \o copies
  BY <1>1, <1>9
<1>14. /\ enriched' \in Seq(Copies) /\ Len(enriched') = Len(enriched) + n
       /\ \A i \in 1..Len(enriched) : enriched'[i] = enriched[i]
       /\ \A i \in 1..n : enriched'[Len(enriched) + i] = copies[i]
  <2>1. IsJoined(enriched', enriched, copies, Copies)
    BY <1>11, <1>12, <1>13, OneAfterTheOther, Zenon
  <2> QED
    BY <1>11, <2>1 DEF IsJoined
<1> QED
  BY <1>2, <1>3, <1>10, <1>14

\* The step Publish keeps the invariant.
LEMMA PublishKeeps ==
  ASSUME BehaviorInv, Publish
  PROVE  BehaviorInv'
<1>1. /\ handled' = [handled EXCEPT !["enricher"] = TRUE]
      /\ UNCHANGED <<raw, at, from, committed, profile, stored, dropped, failedRuns>>
  BY DEF Publish
<1>2. BehaviorType'
  BY <1>1, Published DEF BehaviorInv, BehaviorType
<1>n. /\ at["enricher"] \in Nat /\ from["enricher"] \in Nat /\ from["enricher"] <= at["enricher"]
      /\ at["enricher"] <= Len(raw) /\ Len(raw) \in Nat /\ Len(enriched) \in Nat /\ Len(enriched') \in Nat
  <2>1. Len(raw) \in Nat /\ Len(enriched) \in Nat
    BY DEF BehaviorInv, BehaviorType
  <2>2. Len(enriched') \in Nat
    BY Published
  <2> QED
    BY <2>1, <2>2 DEF BehaviorInv, BehaviorType, Positions, Workers, Source
<1>g. Len(enriched) <= Len(enriched')
  BY <1>n, Published
<1>3. Positions'
  <2>1. ASSUME NEW w \in Workers PROVE at'[w] <= Len(Source(w))'
    <3>1. at[w] <= Len(Source(w)) /\ at[w] \in Nat
      BY DEF BehaviorInv, Positions, BehaviorType
    <3> QED
      BY <1>1, <1>n, <1>g, <3>1 DEF Source
  <2>2. profile'.offset <= Len(enriched')
    BY <1>1, <1>n, <1>g DEF BehaviorInv, BehaviorType, Positions
  <2> QED
    BY <1>1, <2>1, <2>2 DEF BehaviorInv, Positions
<1>4. Grown
  BY <1>1, <1>n, <1>g, Published DEF Grown, BehaviorInv, BehaviorType
<1>5. HandedOn'
  <2>1. \A w \in Workers : \A i : i \in Reached(w) \cup dropped[w] => i \in Reached(w)' \cup dropped'[w]
    BY <1>2, <1>4, ReachedGrows DEF BehaviorInv
  <2>2. \A w \in Workers : Safe(w, from[w])'
    BY <1>1, <2>1 DEF Safe, BehaviorInv, HandedOn
  <2>3. Safe("profile", at["profile"])' /\ Safe("profile", profile.offset)'
    BY <1>1, <2>1 DEF Safe, BehaviorInv, HandedOn, Workers
  <2>4. \A w \in Workers : w # "enricher" => (handled'[w] => Safe(w, at[w])')
    BY <1>1, <2>1 DEF Safe, BehaviorInv, BehaviorType, HandedOn
  <2>5. Safe("enricher", at["enricher"])'
    <3> SUFFICES ASSUME NEW i \in 1..at["enricher"] PROVE i \in Reached("enricher")' \cup dropped'["enricher"]
      BY <1>1 DEF Safe
    <3>1. CASE i \in 1..from["enricher"]
      BY <2>1, <3>1 DEF Safe, BehaviorInv, HandedOn, Workers
    <3>2. CASE i \notin 1..from["enricher"]
      <4>1. PICK k \in 1..(at["enricher"] - from["enricher"]) : i = from["enricher"] + k
        <5>1. i - from["enricher"] \in 1..(at["enricher"] - from["enricher"])
          BY <1>n, <3>2
        <5> QED
          BY <1>n, <5>1
      <4>2. enriched'[Len(enriched) + k].event = i /\ Len(enriched) + k \in 1..Len(enriched')
        BY <1>n, <4>1, Published
      <4>3. i \in 1..Len(raw') /\ raw'[i] = i
        BY <1>1, <1>n DEF BehaviorInv, Positions
      <4>4. i \in Reached("enricher")'
        BY <4>2, <4>3 DEF Reached, Source
      <4> QED
        BY <4>4
    <3> QED
      BY <3>1, <3>2
  <2> QED
    BY <1>1, <2>2, <2>3, <2>4, <2>5 DEF BehaviorInv, HandedOn
<1> QED
  BY <1>2, <1>3, <1>5 DEF BehaviorInv

\* The step Insert keeps the invariant.
LEMMA InsertKeeps ==
  ASSUME BehaviorInv, Insert
  PROVE  BehaviorInv'
<1>1. /\ handled' = [handled EXCEPT !["sink"] = TRUE]
      /\ stored' = stored \cup {enriched[i].event : i \in Batch("sink")}
      /\ UNCHANGED <<raw, enriched, at, from, committed, profile, dropped, failedRuns>>
  BY DEF Insert
<1>2. BehaviorType' /\ Positions'
  BY <1>1 DEF BehaviorInv, BehaviorType, Positions, Source
<1>n. /\ at["sink"] \in Nat /\ from["sink"] \in Nat /\ from["sink"] <= at["sink"]
      /\ at["sink"] <= Len(enriched) /\ Len(enriched) \in Nat /\ Len(raw) \in Nat
  BY DEF BehaviorInv, BehaviorType, Positions, Workers, Source
<1>4. Grown
  BY <1>1, <1>n DEF Grown
<1>5. HandedOn'
  <2>1. \A w \in Workers : \A i : i \in Reached(w) \cup dropped[w] => i \in Reached(w)' \cup dropped'[w]
    BY <1>2, <1>4, ReachedGrows DEF BehaviorInv
  <2>2. \A w \in Workers : Safe(w, from[w])'
    BY <1>1, <2>1 DEF Safe, BehaviorInv, HandedOn
  <2>3. Safe("profile", at["profile"])' /\ Safe("profile", profile.offset)'
    BY <1>1, <2>1 DEF Safe, BehaviorInv, HandedOn, Workers
  <2>4. \A w \in Workers : w # "sink" => (handled'[w] => Safe(w, at[w])')
    BY <1>1, <2>1 DEF Safe, BehaviorInv, BehaviorType, HandedOn
  <2>5. Safe("sink", at["sink"])'
    <3> SUFFICES ASSUME NEW i \in 1..at["sink"] PROVE i \in Reached("sink")' \cup dropped'["sink"]
      BY <1>1 DEF Safe
    <3>1. CASE i \in 1..from["sink"]
      BY <2>1, <3>1 DEF Safe, BehaviorInv, HandedOn, Workers
    <3>2. CASE i \notin 1..from["sink"]
      <4>1. i \in Batch("sink") /\ i \in 1..Len(enriched)
        BY <1>n, <3>2 DEF Batch
      <4>2. enriched[i].event \in stored'
        BY <1>1, <4>1
      <4>3. i \in Reached("sink")'
        BY <1>1, <4>1, <4>2 DEF Reached, Source
      <4> QED
        BY <4>3
    <3> QED
      BY <3>1, <3>2
  <2> QED
    BY <1>1, <2>2, <2>3, <2>4, <2>5 DEF BehaviorInv, HandedOn
<1> QED
  BY <1>2, <1>5 DEF BehaviorInv

\* What the script does to a profile.
ScriptRan(offset, new) ==
    /\ new \in [offset : Nat, recent : Seq(Nat), counted : Seq(Nat)]
    /\ new.offset \in {profile.offset, offset}
    /\ \A i \in 1..Len(profile.counted) :
         \E j \in 1..Len(new.counted) : new.counted[j] = profile.counted[i]
    /\ \A i \in 1..Len(new.recent) :
         \E j \in 1..Len(new.counted) : new.recent[i] = new.counted[j]
    /\ \/ ~enriched[offset].counts
       \/ profile.offset >= offset
       \/ \E j \in 1..Len(new.counted) : enriched[offset].event = new.counted[j]

\* The profile after the script, part by part.
LEMMA UpdatedFields ==
  ASSUME BehaviorInv, NEW offset \in 1..Len(enriched), NEW new, new = Updated(offset)
  PROVE  ScriptRan(offset, new)
<1> USE DEF ScriptRan
<1>e. enriched[offset] \in Copies /\ offset \in Nat
  BY DEF BehaviorInv, BehaviorType
<1>t. /\ profile.recent \in Seq(Nat) /\ profile.counted \in Seq(Nat) /\ profile.offset \in Nat
      /\ profile \in [offset : Nat, recent : Seq(Nat), counted : Seq(Nat)]
      /\ enriched[offset].event \in Nat
  BY <1>e DEF BehaviorInv, BehaviorType, Copies
<1>h. \A i \in 1..Len(profile.recent) :
         \E j \in 1..Len(profile.counted) : profile.recent[i] = profile.counted[j]
  BY DEF BehaviorInv, HandedOn
<1>1. CASE ~enriched[offset].counts \/ profile.offset >= offset
  <2>1. new = profile
    BY <1>1 DEF Updated
  <2> QED
    BY <1>1, <1>t, <1>h, <2>1
<1>2. CASE enriched[offset].counts /\ ~(profile.offset >= offset) /\ enriched[offset].event \in ToSet(profile.recent)
  <2>1. new = [profile EXCEPT !.offset = offset]
    BY <1>2 DEF Updated
  <2>2. /\ new \in [offset : Nat, recent : Seq(Nat), counted : Seq(Nat)]
        /\ new.offset = offset /\ new.recent = profile.recent /\ new.counted = profile.counted
    BY <1>e, <1>t, <2>1
  <2>3. PICK i \in 1..Len(profile.recent) : profile.recent[i] = enriched[offset].event
    <3>1. PICK i \in DOMAIN profile.recent : profile.recent[i] = enriched[offset].event
      BY <1>2 DEF ToSet
    <3>2. DOMAIN profile.recent = 1..Len(profile.recent)
      BY <1>t
    <3> QED
      BY <3>1, <3>2
  <2> QED
    BY <1>h, <2>2, <2>3
<1>3. CASE enriched[offset].counts /\ ~(profile.offset >= offset) /\ enriched[offset].event \notin ToSet(profile.recent)
  <2>1. PICK event \in Nat : event = enriched[offset].event
    BY <1>t
  <2>2. new = [offset |-> offset, recent |-> Remember(profile.recent, event), counted |-> Append(profile.counted, event)]
    BY <1>3, <2>1 DEF Updated
  <2>l. Len(profile.recent) \in Nat /\ Len(profile.counted) \in Nat
    BY <1>t
  <2>3. PICK added \in Seq(Nat) : /\ added = Append(profile.recent, event)
                                  /\ Len(added) = Len(profile.recent) + 1
                                  /\ added[Len(profile.recent) + 1] = event
                                  /\ \A i \in 1..Len(profile.recent) : added[i] = profile.recent[i]
    <3>1. Append(profile.recent, event) \in Seq(Nat)
      BY <1>t
    <3>2. /\ Len(Append(profile.recent, event)) = Len(profile.recent) + 1
          /\ Append(profile.recent, event)[Len(profile.recent) + 1] = event
          /\ \A i \in 1..Len(profile.recent) : Append(profile.recent, event)[i] = profile.recent[i]
      BY <1>t
    <3> QED
      BY <3>1, <3>2
  <2>4. PICK rest \in Seq(Nat) : rest = Tail(added) /\ \A i \in 1..Len(rest) : i + 1 \in 1..Len(added) /\ rest[i] = added[i + 1]
    <3>1. added # <<>>
      BY <2>3, <2>l
    <3>2. Tail(added) \in Seq(Nat) /\ Len(Tail(added)) = Len(added) - 1
      BY <2>3, <3>1, <2>l
    <3>3. \A i \in 1..Len(Tail(added)) : i + 1 \in 1..Len(added) /\ Tail(added)[i] = added[i + 1]
      <4> TAKE i \in 1..Len(Tail(added))
      <4>1. i \in 1..(Len(added) - 1)
        BY <3>2
      <4>2. i + 1 \in 1..Len(added)
        BY <2>3, <2>l, <4>1
      <4>3. Tail(added)[i] = added[i + 1]
        BY <2>3, <2>l, <3>1, <4>1
      <4> QED
        BY <4>2, <4>3
    <3> QED
      BY <3>2, <3>3
  <2>5. Remember(profile.recent, event) \in {rest, added}
    BY <2>3, <2>4 DEF Remember
  <2>6. /\ new \in [offset : Nat, recent : Seq(Nat), counted : Seq(Nat)]
        /\ new.offset = offset /\ new.recent \in {rest, added} /\ new.counted = Append(profile.counted, event)
    BY <1>e, <1>t, <2>2, <2>5
  <2>7. /\ Len(new.counted) = Len(profile.counted) + 1 /\ new.counted[Len(profile.counted) + 1] = event
        /\ \A i \in 1..Len(profile.counted) : new.counted[i] = profile.counted[i]
    BY <1>t, <2>6
  <2>8. \A i \in 1..Len(added) : \E j \in 1..Len(new.counted) : added[i] = new.counted[j]
    <3> TAKE i \in 1..Len(added)
    <3>1. CASE i = Len(profile.recent) + 1
      <4>1. added[i] = new.counted[Len(profile.counted) + 1] /\ Len(profile.counted) + 1 \in 1..Len(new.counted)
        BY <2>3, <2>7, <2>l, <3>1
      <4> QED
        BY <4>1
    <3>2. CASE i # Len(profile.recent) + 1
      <4>1. i \in 1..Len(profile.recent)
        BY <2>3, <2>l, <3>2
      <4>2. PICK j \in 1..Len(profile.counted) : profile.recent[i] = profile.counted[j]
        BY <1>h, <4>1
      <4>3. j \in 1..Len(new.counted)
        BY <2>7, <2>l
      <4> QED
        BY <2>3, <2>7, <4>1, <4>2, <4>3
    <3> QED
      BY <3>1, <3>2
  <2>9. \A i \in 1..Len(new.recent) : \E j \in 1..Len(new.counted) : new.recent[i] = new.counted[j]
    <3>1. CASE new.recent = added
      BY <2>8, <3>1
    <3>2. CASE new.recent = rest
      BY <2>4, <2>8, <3>2
    <3> QED
      BY <2>6, <3>1, <3>2
  <2>10. \A i \in 1..Len(profile.counted) : \E j \in 1..Len(new.counted) : new.counted[j] = profile.counted[i]
    <3>1. \A i \in 1..Len(profile.counted) : i \in 1..Len(new.counted)
      BY <2>7, <2>l
    <3> QED
      BY <2>7, <3>1
  <2>11. \E j \in 1..Len(new.counted) : event = new.counted[j]
    BY <2>7, <2>l
  <2> QED
    BY <2>1, <2>6, <2>9, <2>10, <2>11
<1> QED
  BY <1>1, <1>2, <1>3

\* The step Apply keeps the invariant.
LEMMA ApplyKeeps ==
  ASSUME BehaviorInv, Apply
  PROVE  BehaviorInv'
<1> DEFINE p == "profile"
<1>n. /\ at[p] \in Nat /\ from[p] \in Nat /\ committed[p] \in Nat /\ Len(enriched) \in Nat /\ p \in Workers
      /\ at[p] < Len(enriched)
  BY DEF Apply, BehaviorInv, BehaviorType, Workers
<1>1. /\ at' = [at EXCEPT ![p] = at[p] + 1] /\ profile' = Updated(at[p] + 1)
      /\ UNCHANGED <<raw, enriched, from, handled, committed, stored, dropped, failedRuns>>
  BY DEF Apply
<1>u. at[p] + 1 \in 1..Len(enriched)
  BY <1>n
<1>f. /\ profile' \in [offset : Nat, recent : Seq(Nat), counted : Seq(Nat)]
      /\ profile'.offset \in {profile.offset, at[p] + 1}
      /\ \A i \in 1..Len(profile.counted) :
           \E j \in 1..Len(profile'.counted) : profile'.counted[j] = profile.counted[i]
      /\ \A i \in 1..Len(profile'.recent) :
           \E j \in 1..Len(profile'.counted) : profile'.recent[i] = profile'.counted[j]
      /\ \/ ~enriched[at[p] + 1].counts
         \/ profile.offset >= at[p] + 1
         \/ \E j \in 1..Len(profile'.counted) : enriched[at[p] + 1].event = profile'.counted[j]
  <2>0. PICK offset \in 1..Len(enriched) : offset = at[p] + 1
    BY <1>u
  <2>1. PICK new : new = Updated(offset)
    OBVIOUS
  <2>2. profile' = new
    BY <1>1, <2>0, <2>1
  <2>3. ScriptRan(offset, new)
    BY <2>1, UpdatedFields
  <2> QED
    BY <2>0, <2>2, <2>3 DEF ScriptRan
<1>2. BehaviorType'
  <2>1. at' \in [Workers -> Nat]
    BY <1>1, <1>n DEF BehaviorInv, BehaviorType
  <2> QED
    BY <1>1, <1>f, <2>1 DEF BehaviorInv, BehaviorType
<1>3. Positions'
  <2>1. profile'.offset <= Len(enriched)
    BY <1>1, <1>n, <1>u, <1>f DEF BehaviorInv, Positions
  <2>2. \A w \in Workers : /\ committed'[w] <= from'[w] /\ from'[w] <= at'[w]
                           /\ at'[w] <= Len(Source(w))'
    BY <1>1, <1>n DEF BehaviorInv, BehaviorType, Positions, Source
  <2> QED
    BY <1>1, <2>1, <2>2 DEF BehaviorInv, Positions
<1>4. Grown
  BY <1>1, <1>n, <1>u, <1>f DEF Grown, BehaviorInv, BehaviorType
<1>5. HandedOn'
  <2>1. \A w \in Workers : \A i : i \in Reached(w) \cup dropped[w] => i \in Reached(w)' \cup dropped'[w]
    BY <1>2, <1>4, ReachedGrows DEF BehaviorInv
  <2>2. \A w \in Workers : Safe(w, from[w])'
    BY <1>1, <2>1 DEF Safe, BehaviorInv, HandedOn
  <2>3. at[p] + 1 \in Reached(p)' \cup dropped'[p]
    <3>1. CASE ~enriched[at[p] + 1].counts
      BY <1>1, <1>u, <3>1 DEF Reached, Source
    <3>2. CASE profile.offset >= at[p] + 1
      <4>1. profile.offset \in Nat
        BY DEF BehaviorInv, BehaviorType
      <4>2. at[p] + 1 \in 1..profile.offset
        BY <1>n, <3>2, <4>1
      <4> QED
        BY <1>n, <2>1, <4>2 DEF BehaviorInv, HandedOn, Safe
    <3>3. CASE \E j \in 1..Len(profile'.counted) : enriched[at[p] + 1].event = profile'.counted[j]
      <4>1. enriched[at[p] + 1].event \in ToSet(profile'.counted)
        <5>1. profile'.counted \in Seq(Nat)
          BY <1>2 DEF BehaviorType
        <5> QED
          BY <3>3, <5>1 DEF ToSet
      <4> QED
        BY <1>1, <1>u, <4>1 DEF Reached, Source
    <3> QED
      BY <1>1, <1>u, <3>1, <3>2, <3>3, <1>f
  <2>4. \A i \in 1..(at[p] + 1) : i \in Reached(p)' \cup dropped'[p]
    <3> TAKE i \in 1..(at[p] + 1)
    <3>1. i \in 1..at[p] \/ i = at[p] + 1
      BY <1>n
    <3> QED
      BY <1>n, <2>1, <2>3, <3>1 DEF BehaviorInv, HandedOn, Safe
  <2>5. Safe(p, at[p])'
    BY <1>1, <1>n, <2>4 DEF Safe, BehaviorInv, BehaviorType
  <2>6. Safe(p, profile.offset)'
    <3>1. \A i \in 1..profile.offset : i \in Reached(p)' \cup dropped'[p]
      BY <1>n, <2>1 DEF BehaviorInv, HandedOn, Safe
    <3> QED
      BY <1>f, <2>4, <3>1 DEF Safe
  <2>7. \A w \in Workers : handled'[w] => Safe(w, at[w])'
    <3> TAKE w \in Workers
    <3>1. CASE w = p
      BY <2>5, <3>1
    <3>2. CASE w # p
      BY <1>1, <2>1, <3>2 DEF Safe, BehaviorInv, BehaviorType, HandedOn
    <3> QED
      BY <3>1, <3>2
  <2>8. \A i \in 1..Len(profile'.recent) :
           \E j \in 1..Len(profile'.counted) : profile'.recent[i] = profile'.counted[j]
    BY <1>1, <1>u, <1>f
  <2> QED
    BY <2>2, <2>5, <2>6, <2>7, <2>8 DEF HandedOn
<1> QED
  BY <1>2, <1>3, <1>5 DEF BehaviorInv

\* The step RunFails keeps the invariant: what it drops is recorded.
LEMMA RunFailsKeeps ==
  ASSUME BehaviorInv, NEW w \in Workers, RunFails(w)
  PROVE  BehaviorInv'
<1>1. /\ from' = [from EXCEPT ![w] = at[w]] /\ handled' = [handled EXCEPT ![w] = FALSE]
      /\ dropped' = [dropped EXCEPT ![w] = @ \cup Batch(w)] /\ failedRuns' = failedRuns + 1
      /\ UNCHANGED <<raw, enriched, at, committed, profile, stored>>
  BY DEF RunFails
<1>n. at[w] \in Nat /\ from[w] \in Nat /\ from[w] <= at[w]
  BY DEF BehaviorInv, BehaviorType, Positions
<1>2. BehaviorType'
  <2>1. Batch(w) \in SUBSET Nat
    BY <1>n DEF Batch
  <2> QED
    BY <1>1, <2>1 DEF BehaviorInv, BehaviorType
<1>3. Positions'
  BY <1>1 DEF BehaviorInv, BehaviorType, Positions, Source
<1>4. \A v \in Workers : \A i : i \in Reached(v) \cup dropped[v] => i \in Reached(v)' \cup dropped'[v]
  <2>1. \A v \in Workers : Reached(v)' = Reached(v)
    BY <1>1 DEF Reached, Source
  <2>2. \A v \in Workers : dropped[v] \subseteq dropped'[v]
    BY <1>1 DEF BehaviorInv, BehaviorType
  <2> QED
    BY <2>1, <2>2
<1>5. Safe(w, at[w])'
  <2> SUFFICES ASSUME NEW i \in 1..at[w] PROVE i \in Reached(w)' \cup dropped'[w]
    BY <1>1 DEF Safe
  <2>1. i \in 1..from[w] \/ i \in Batch(w)
    BY <1>n DEF Batch
  <2> QED
    BY <1>1, <1>4, <2>1 DEF BehaviorInv, BehaviorType, HandedOn, Safe
<1>6. \A v \in Workers : Safe(v, from[v])' /\ (handled'[v] => Safe(v, at[v])')
  <2> TAKE v \in Workers
  <2>1. CASE v = w
    BY <1>1, <1>5, <2>1 DEF BehaviorInv, BehaviorType
  <2>2. CASE v # w
    BY <1>1, <1>4, <2>2 DEF BehaviorInv, BehaviorType, HandedOn, Safe
  <2> QED
    BY <2>1, <2>2
<1>7. Safe("profile", at["profile"])' /\ Safe("profile", profile.offset)'
  BY <1>1, <1>4 DEF BehaviorInv, HandedOn, Safe, Workers
<1>8. HandedOn'
  BY <1>1, <1>6, <1>7 DEF BehaviorInv, HandedOn
<1> QED
  BY <1>2, <1>3, <1>8 DEF BehaviorInv

\* The step ScriptFails keeps the invariant.
LEMMA ScriptFailsKeeps ==
  ASSUME BehaviorInv, ScriptFails
  PROVE  BehaviorInv'
<1> DEFINE p == "profile"
<1>n. /\ at[p] \in Nat /\ from[p] \in Nat /\ from[p] <= at[p] /\ Len(enriched) \in Nat /\ p \in Workers
      /\ at[p] < Len(enriched)
  BY DEF ScriptFails, BehaviorInv, BehaviorType, Positions, Workers
<1>1. /\ at' = [at EXCEPT ![p] = at[p] + 1] /\ from' = [from EXCEPT ![p] = at[p] + 1]
      /\ dropped' = [dropped EXCEPT ![p] = @ \cup Batch(p) \cup {at[p] + 1}] /\ failedRuns' = failedRuns + 1
      /\ UNCHANGED <<raw, enriched, handled, committed, profile, stored>>
  BY DEF ScriptFails
<1>2. BehaviorType'
  <2>1. Batch(p) \cup {at[p] + 1} \in SUBSET Nat
    BY <1>n DEF Batch
  <2> QED
    BY <1>1, <1>n, <2>1 DEF BehaviorInv, BehaviorType
<1>3. Positions'
  BY <1>1, <1>n DEF BehaviorInv, BehaviorType, Positions, Source
<1>4. \A v \in Workers : \A i : i \in Reached(v) \cup dropped[v] => i \in Reached(v)' \cup dropped'[v]
  <2>1. \A v \in Workers : Reached(v)' = Reached(v)
    BY <1>1 DEF Reached, Source
  <2>2. \A v \in Workers : dropped[v] \subseteq dropped'[v]
    BY <1>1 DEF BehaviorInv, BehaviorType
  <2> QED
    BY <2>1, <2>2
<1>5. \A i \in 1..(at[p] + 1) : i \in Reached(p)' \cup dropped'[p]
  <2> TAKE i \in 1..(at[p] + 1)
  <2>1. i \in 1..from[p] \/ i \in Batch(p) \cup {at[p] + 1}
    BY <1>n DEF Batch
  <2> QED
    BY <1>1, <1>4, <1>n, <2>1 DEF BehaviorInv, BehaviorType, HandedOn, Safe
<1>6. Safe(p, from[p])' /\ Safe(p, at[p])'
  BY <1>1, <1>5, <1>n DEF BehaviorInv, BehaviorType, Safe
<1>7. \A v \in Workers : Safe(v, from[v])' /\ (handled'[v] => Safe(v, at[v])')
  <2> TAKE v \in Workers
  <2>1. CASE v = p
    BY <1>6, <2>1
  <2>2. CASE v # p
    BY <1>1, <1>4, <2>2 DEF BehaviorInv, BehaviorType, HandedOn, Safe
  <2> QED
    BY <2>1, <2>2
<1>8. HandedOn'
  BY <1>1, <1>n, <1>4, <1>6, <1>7 DEF BehaviorInv, HandedOn, Safe
<1> QED
  BY <1>2, <1>3, <1>8 DEF BehaviorInv

\* Every step keeps the invariant.
LEMMA BehaviorStep == BehaviorInv /\ [BehaviorNext]_behaviorVars => BehaviorInv'
<1> SUFFICES ASSUME BehaviorInv, [BehaviorNext]_behaviorVars PROVE BehaviorInv'
  OBVIOUS
<1>1. CASE UNCHANGED behaviorVars
  <2>1. BehaviorType' /\ Positions'
    BY <1>1 DEF behaviorVars, BehaviorInv, BehaviorType, Positions, Source
  <2>2. \A w \in Workers : Reached(w)' = Reached(w)
    BY <1>1 DEF behaviorVars, Reached, Source
  <2>3. "profile" \in Workers
    BY DEF Workers
  <2>4. HandedOn'
    BY <1>1, <2>2, <2>3 DEF behaviorVars, BehaviorInv, HandedOn, Safe
  <2> QED
    BY <2>1, <2>4 DEF BehaviorInv
<1>2. CASE BehaviorNext
  BY <1>2, CollectKeeps, PublishKeeps, InsertKeeps, ApplyKeeps, ScriptFailsKeeps, CrashKeeps,
     FetchKeeps, CommitKeeps, RunFailsKeeps DEF BehaviorNext
<1> QED
  BY <1>1, <1>2

\* A worker commits an offset only after every message up to it was handed on,
\* whatever crashes and is read again; the only messages lost are those of the
\* runs that failed (enricher.go, profile.go and main.go of the workers commit
\* after they publish, apply and insert, and go on after an error).
THEOREM EventsAccounted == BehaviorSpec => []LostOnlyByFailedRuns
<1>1. BehaviorInit => BehaviorInv
  BY BehaviorInitSound
<1>2. BehaviorInv /\ [BehaviorNext]_behaviorVars => BehaviorInv'
  BY BehaviorStep
<1>3. BehaviorInv => LostOnlyByFailedRuns
  BY BehaviorInvSound
<1> QED
  BY <1>1, <1>2, <1>3, PTL DEF BehaviorSpec

---------------------------------------------------------------------------

\* While no run fails, a message that comes later in the enriched topic is of an
\* event less than a batch earlier at most, and of no event before all earlier
\* events were published.
Topic ==
    /\ \A w \in Workers : committed[w] = from[w] /\ dropped[w] = {}
    /\ \A j \in 1..Len(enriched) :
         1 <= enriched[j].event /\ enriched[j].event <= from["enricher"] + BatchSize
    /\ \A i, j \in 1..Len(enriched) : i < j => enriched[i].event < enriched[j].event + BatchSize
    /\ \A j \in 1..Len(enriched) : \A x \in 1..(enriched[j].event - 1) :
         \E i \in 1..(j - 1) : enriched[i].event = x

\* What a profile remembers are the last events it counted.
LastOf(recent, counted) ==
    /\ Len(recent) = IF Len(counted) <= Window THEN Len(counted) ELSE Window
    /\ \A i \in 1..Len(recent) : recent[i] = counted[Len(counted) - Len(recent) + i]

RecentAreLast == LastOf(profile.recent, profile.counted)

Distinct(s) == \A i, j \in 1..Len(s) : s[i] = s[j] => i = j
Increasing(s) == \A i, j \in 1..Len(s) : i < j => s[i] < s[j]

CountedUpTo(offset, counted) ==
    /\ \A k \in 1..Len(counted) : \E i \in 1..offset :
         enriched[i].counts /\ enriched[i].event = counted[k]
    /\ \A k, l \in 1..Len(counted) : k < l => counted[k] < counted[l] + BatchSize
    /\ 2 * BatchSize <= Window + 1 => Distinct(counted)
    /\ BatchSize <= Window /\ CopiesAgree => Increasing(counted)

Counting == CountedUpTo(profile.offset, profile.counted)

CountInv ==
    /\ BehaviorInv
    /\ at["enricher"] - from["enricher"] <= BatchSize
    /\ RecentAreLast
    /\ failedRuns = 0 => Topic /\ Counting

\* What only grows does not repeat.
LEMMA IncreasingIsDistinct ==
  ASSUME NEW s \in Seq(Nat), Increasing(s)
  PROVE  Distinct(s)
<1> SUFFICES ASSUME NEW i \in 1..Len(s), NEW j \in 1..Len(s), s[i] = s[j] PROVE i = j
  BY DEF Distinct
<1>1. s[i] \in Nat /\ ~(s[i] < s[j]) /\ ~(s[j] < s[i])
  OBVIOUS
<1> QED
  BY <1>1 DEF Increasing

\* What was counted once is not counted again.
LEMMA CountInvSound == CountInv => CountedOnce
<1> SUFFICES ASSUME CountInv, failedRuns = 0,
                    \/ BatchSize <= Window /\ CopiesAgree
                    \/ 2 * BatchSize <= Window + 1
             PROVE  Distinct(profile.counted)
  BY DEF CountedOnce, Distinct
<1>1. profile.counted \in Seq(Nat)
  BY DEF CountInv, BehaviorInv, BehaviorType
<1>2. CASE 2 * BatchSize <= Window + 1
  BY <1>2 DEF CountInv, Counting, CountedUpTo
<1>3. CASE BatchSize <= Window /\ CopiesAgree
  <2>1. Increasing(profile.counted)
    BY <1>3 DEF CountInv, Counting, CountedUpTo
  <2> QED
    BY <1>1, <2>1, IncreasingIsDistinct
<1> QED
  BY <1>2, <1>3

\* Initially nothing is counted.
LEMMA CountInitSound == BehaviorInit => CountInv
<1> SUFFICES ASSUME BehaviorInit PROVE CountInv
  OBVIOUS
<1>1. BehaviorInv
  BY BehaviorInitSound
<1>2. profile.recent = <<>> /\ profile.counted = <<>> /\ enriched = <<>>
  BY DEF BehaviorInit
<1>3. RecentAreLast
  BY <1>2, BehaviorAssumption DEF RecentAreLast, LastOf
<1>4. Counting
  BY <1>2 DEF Counting, CountedUpTo, Distinct, Increasing
<1>5. Topic
  BY <1>2 DEF BehaviorInit, Topic
<1>6. at["enricher"] - from["enricher"] <= BatchSize
  BY BehaviorAssumption DEF BehaviorInit, Workers
<1> QED
  BY <1>1, <1>3, <1>4, <1>5, <1>6 DEF CountInv

\* Different numbers in a range are no more than the range has.
LEMMA Pigeons ==
  ASSUME NEW s, NEW m \in Int, NEW n \in Int, NEW lo \in Int, NEW hi \in Int, m <= n,
         \A i \in m..n : s[i] \in lo..hi,
         \A i, j \in m..n : s[i] = s[j] => i = j
  PROVE  n - m <= hi - lo
<1>1. PICK f : f = [i \in m..n |-> s[i]]
  OBVIOUS
<1>2. f \in Injection(m..n, lo..hi)
  BY <1>1 DEF Injection, IsInjective
<1>3. IsFiniteSet(lo..hi) /\ IsFiniteSet(m..n) /\ Cardinality(m..n) = n - m + 1
      /\ Cardinality(lo..hi) = IF lo > hi THEN 0 ELSE hi - lo + 1
  BY FS_Interval
<1>4. Cardinality(m..n) <= Cardinality(lo..hi)
  BY <1>2, <1>3, FS_Injection
<1>5. m \in m..n
  OBVIOUS
<1>6. lo <= hi
  BY <1>5
<1> QED
  BY <1>3, <1>4, <1>6

\* The enriched topic holds copies of numbered events.
LEMMA EventsAreNumbers ==
  ASSUME BehaviorInv, NEW j \in 1..Len(enriched)
  PROVE  enriched[j] \in Copies /\ enriched[j].event \in Nat
<1>1. enriched \in Seq(Copies)
  BY DEF BehaviorInv, BehaviorType
<1>2. enriched[j] \in Copies
  BY <1>1
<1> QED
  BY <1>2 DEF Copies

\* A step that leaves the enriched topic and the profile as they are.
LEMMA CountSame ==
  ASSUME CountInv, BehaviorInv', UNCHANGED <<enriched, profile, failedRuns, dropped>>,
         failedRuns = 0 => /\ \A w \in Workers : committed'[w] = from'[w]
                           /\ from["enricher"] <= from'["enricher"],
         at'["enricher"] - from'["enricher"] <= BatchSize
  PROVE  CountInv'
<1>1. RecentAreLast'
  BY DEF CountInv, RecentAreLast, LastOf
<1>2. failedRuns' = 0 => Counting'
  BY DEF CountInv, Counting, CountedUpTo, CopiesAgree
<1>3. ASSUME failedRuns' = 0 PROVE Topic'
  <2>1. "enricher" \in Workers
    BY DEF Workers
  <2>2. from["enricher"] \in Nat /\ from'["enricher"] \in Nat
    BY <2>1 DEF CountInv, BehaviorInv, BehaviorType
  <2>3. \A j \in 1..Len(enriched) : enriched[j].event \in Nat
    BY EventsAreNumbers DEF CountInv
  <2>4. Topic
    BY <1>3 DEF CountInv
  <2> QED
    BY <1>3, <2>2, <2>3, <2>4, BehaviorAssumption DEF Topic
<1> QED
  BY <1>1, <1>2, <1>3 DEF CountInv

\* The step Publish keeps the count right: a batch published again is less than
\* a batch behind.
LEMMA CountPublish ==
  ASSUME CountInv, Publish
  PROVE  CountInv'
<1>b. BehaviorInv /\ BehaviorInv'
  BY PublishKeeps DEF CountInv
<1>1. UNCHANGED <<raw, at, from, committed, profile, stored, dropped, failedRuns>>
  BY DEF Publish
<1>2. RecentAreLast'
  BY <1>1 DEF CountInv, RecentAreLast, LastOf
<1>3. PICK n \in Nat, start \in Nat :
         /\ start = from["enricher"] /\ n = at["enricher"] - from["enricher"] /\ n <= BatchSize
         /\ start <= Len(raw) /\ start + n <= Len(raw)
  <2>1. "enricher" \in Workers
    BY DEF Workers
  <2>2. at["enricher"] \in Nat /\ from["enricher"] \in Nat /\ Len(raw) \in Nat
    BY <1>b, <2>1 DEF BehaviorInv, BehaviorType
  <2>3. from["enricher"] <= at["enricher"] /\ at["enricher"] <= Len(raw)
    BY <1>b, <2>1 DEF BehaviorInv, Positions, Source
  <2> QED
    BY <2>2, <2>3 DEF CountInv
<1>4. PICK m \in Nat : m = Len(enriched)
  BY <1>b DEF BehaviorInv, BehaviorType
<1>5. /\ Len(enriched') = m + n
      /\ \A i \in 1..m : enriched'[i] = enriched[i]
      /\ \A i \in 1..n : enriched'[m + i].event = start + i
  BY <1>b, <1>3, <1>4, Published
<1>6. \A j \in 1..(m + n) : j \in 1..m \/ (j - m \in 1..n /\ enriched'[j].event = start + (j - m))
  <2> TAKE j \in 1..(m + n)
  <2>1. CASE j \notin 1..m
    <3>1. PICK i \in 1..n : i = j - m
      BY <2>1
    <3>2. j = m + i
      BY <3>1
    <3> QED
      BY <1>5, <3>1, <3>2
  <2> QED
    BY <2>1
<1>e. \A j \in 1..m : enriched[j].event \in Nat
  BY <1>b, <1>4, EventsAreNumbers
<1>7. ASSUME failedRuns' = 0 PROVE Topic'
  <2>1. /\ Topic /\ BatchSize \in Nat
    BY <1>1, <1>7, BehaviorAssumption DEF CountInv
  <2>2. \A j \in 1..(m + n) : 1 <= enriched'[j].event /\ enriched'[j].event <= start + BatchSize
    <3> TAKE j \in 1..(m + n)
    <3>1. CASE j \in 1..m
      BY <1>3, <1>4, <1>5, <2>1, <3>1 DEF Topic
    <3>2. CASE j - m \in 1..n /\ enriched'[j].event = start + (j - m)
      BY <1>3, <2>1, <3>2
    <3> QED
      BY <1>6, <3>1, <3>2
  <2>3. ASSUME NEW i \in 1..(m + n), NEW j \in 1..(m + n), i < j
        PROVE  enriched'[i].event < enriched'[j].event + BatchSize
    <3>1. CASE i \in 1..m /\ j \in 1..m
      BY <1>4, <1>5, <2>1, <2>3, <3>1 DEF Topic
    <3>2. CASE i \in 1..m /\ j \notin 1..m
      <4>1. enriched'[j].event = start + (j - m) /\ j - m \in 1..n
        BY <1>6, <3>2
      <4>2. enriched'[i].event \in Nat /\ enriched'[i].event <= start + BatchSize
        BY <1>3, <1>4, <1>5, <1>e, <2>1, <3>2 DEF Topic
      <4> QED
        BY <2>1, <4>1, <4>2
    <3>3. CASE i \notin 1..m
      <4>1. j \notin 1..m
        BY <2>3, <3>3
      <4> QED
        BY <1>6, <2>1, <2>3, <3>3, <4>1, BehaviorAssumption
    <3> QED
      BY <3>1, <3>2, <3>3
  <2>4. ASSUME NEW j \in 1..(m + n), NEW x \in 1..(enriched'[j].event - 1)
        PROVE  \E i \in 1..(j - 1) : enriched'[i].event = x
    <3>1. CASE j \in 1..m
      <4>1. PICK i \in 1..(j - 1) : enriched[i].event = x
        BY <1>4, <1>5, <2>1, <3>1 DEF Topic
      <4>2. i \in 1..m
        BY <3>1
      <4> QED
        BY <1>5, <4>1, <4>2
    <3>2. CASE j \notin 1..m
      <4>1. PICK k \in 1..n : k = j - m /\ j = m + k /\ enriched'[j].event = start + k
        BY <1>6, <3>2
      <4>2. CASE x <= start
        <5>1. "enricher" \in Workers
          BY DEF Workers
        <5>2. Safe("enricher", start) /\ dropped["enricher"] = {}
          BY <1>b, <1>3, <2>1, <5>1 DEF BehaviorInv, HandedOn, Topic
        <5>3. x \in Reached("enricher")
          BY <4>1, <4>2, <5>2 DEF Safe
        <5>4. PICK i \in 1..Len(enriched) : raw[x] = enriched[i].event /\ x \in 1..Len(raw)
          BY <1>b, <5>3, InReached DEF BehaviorInv
        <5>5. enriched[i].event = x
          BY <1>b, <5>4 DEF BehaviorInv, Positions
        <5>6. i \in 1..m /\ i \in 1..(j - 1)
          BY <1>4, <4>1, <5>4
        <5> QED
          BY <1>5, <5>5, <5>6
      <4>3. CASE x > start
        <5>1. x \in Nat /\ x < start + k
          <6> DEFINE event == enriched'[j].event
          <6>1. event = start + k /\ x \in 1..(event - 1)
            BY <4>1
          <6>2. k \in Nat /\ start \in Nat
            BY <1>3, <4>1
          <6> HIDE DEF event
          <6>3. event \in Nat /\ x \in Nat /\ x < event
            BY <6>1, <6>2
          <6> QED
            BY <6>1, <6>3
        <5>2. PICK d \in 1..n : d = x - start /\ d < k
          BY <4>3, <5>1
        <5>3. enriched'[m + d].event = x /\ m + d \in 1..(j - 1)
          <6>1. start + d = x /\ m + d \in 1..(m + k - 1)
            BY <5>1, <5>2
          <6>2. enriched'[m + d].event = start + d
            BY <1>5, <5>2
          <6>3. m + k = j
            BY <4>1
          <6> QED
            BY <6>1, <6>2, <6>3
        <5> QED
          BY <5>3
      <4> QED
        BY <4>1, <4>2, <4>3
    <3> QED
      BY <3>1, <3>2
  <2> QED
    BY <1>1, <1>3, <1>5, <2>1, <2>2, <2>3, <2>4 DEF Topic
<1>8. ASSUME failedRuns' = 0 PROVE Counting'
  <2>1. Counting
    BY <1>1, <1>8 DEF CountInv
  <2>2. CopiesAgree' => CopiesAgree
    BY <1>4, <1>5 DEF CopiesAgree
  <2>3. \A k \in 1..Len(profile.counted) : \E i \in 1..profile.offset :
           enriched'[i].counts /\ enriched'[i].event = profile.counted[k]
    <3>1. profile.offset <= m /\ profile.offset \in Nat
      BY <1>b, <1>4 DEF BehaviorInv, BehaviorType, Positions
    <3>2. \A i \in 1..profile.offset : enriched'[i] = enriched[i]
      BY <1>5, <3>1
    <3> QED
      BY <2>1, <3>2 DEF Counting, CountedUpTo
  <2> QED
    BY <1>1, <2>1, <2>2, <2>3 DEF Counting, CountedUpTo
<1> QED
  BY <1>b, <1>1, <1>2, <1>7, <1>8 DEF CountInv

\* The script counts an event that is not among those the profile remembers.
Counts(offset) ==
    /\ enriched[offset].counts /\ profile.offset < offset
    /\ enriched[offset].event \notin ToSet(profile.recent)

Remembered ==
    \/ 2 * BatchSize <= Window + 1
    \/ BatchSize <= Window /\ CopiesAgree

\* Numbers less than b apart.
LEMMA Within ==
  ASSUME NEW x \in Nat, NEW c \in Nat, NEW b \in Nat, c < x + b, x < c + b
  PROVE  c \in (x - b + 1)..(x + b - 1)
  OBVIOUS

\* A number counted before, of which less than a batch and nothing beyond a batch
\* was counted since, is among those remembered.
LEMMA StillRemembered ==
  ASSUME NEW counted \in Seq(Nat), NEW recent \in Seq(Nat), NEW x \in Nat,
         NEW k \in 1..Len(counted), counted[k] = x,
         Len(recent) = (IF Len(counted) <= Window THEN Len(counted) ELSE Window),
         \A i \in 1..Len(recent) : recent[i] = counted[Len(counted) - Len(recent) + i],
         \A i \in 1..Len(recent) : recent[i] # x,
         \A l \in 1..Len(counted) : counted[l] < x + BatchSize,
         \/ /\ 2 * BatchSize <= Window + 1 /\ Distinct(counted)
            /\ \A i, j \in 1..Len(counted) : i < j => counted[i] < counted[j] + BatchSize
         \/ BatchSize <= Window /\ Increasing(counted)
  PROVE  FALSE
<1>1. BatchSize \in Nat /\ BatchSize # 0 /\ Window \in Nat
  BY BehaviorAssumption
<1>2. PICK n \in Nat : n = Len(counted)
  OBVIOUS
<1>3. PICK size \in Nat : size = Len(recent)
  OBVIOUS
<1>4. k \in 1..n
  BY <1>2
<1>5. ~(k > n - size)
  <2> SUFFICES ASSUME k > n - size PROVE FALSE
    OBVIOUS
  <2>1. k - (n - size) \in 1..size /\ n - size + (k - (n - size)) = k
    BY <1>4
  <2> QED
    BY <1>2, <1>3, <2>1
<1>6. size = Window
  BY <1>2, <1>3, <1>4, <1>5, <1>1
<1>7. \A l \in k..n : l \in 1..n /\ counted[l] \in Nat /\ counted[l] < x + BatchSize
  BY <1>2, <1>4
<1>8. CASE /\ 2 * BatchSize <= Window + 1 /\ Distinct(counted)
           /\ \A i, j \in 1..Len(counted) : i < j => counted[i] < counted[j] + BatchSize
  <2>1. \A l \in k..n : counted[l] \in (x - BatchSize + 1)..(x + BatchSize - 1)
    <3> TAKE l \in k..n
    <3>1. x < counted[l] + BatchSize
      <4>1. CASE l = k
        BY <1>1, <4>1
      <4>2. CASE l # k
        <5>1. k < l
          BY <1>4, <4>2
        <5> QED
          BY <1>2, <1>7, <1>8, <5>1
      <4> QED
        BY <4>1, <4>2
    <3>2. PICK c \in Nat : c = counted[l] /\ c < x + BatchSize /\ x < c + BatchSize
      BY <1>7, <3>1
    <3>3. c \in (x - BatchSize + 1)..(x + BatchSize - 1)
      BY <1>1, <3>2, Within
    <3> QED
      BY <3>2, <3>3
  <2>2. \A i, j \in k..n : counted[i] = counted[j] => i = j
    BY <1>2, <1>7, <1>8 DEF Distinct
  <2>3. n - k <= (x + BatchSize - 1) - (x - BatchSize + 1)
    <3>1. x + BatchSize - 1 \in Int /\ x - BatchSize + 1 \in Int /\ n \in Int /\ k \in Int /\ k <= n
      BY <1>1, <1>4
    <3> QED
      BY <2>1, <2>2, <3>1, Pigeons
  <2> QED
    BY <1>1, <1>4, <1>5, <1>6, <1>8, <2>3
<1>9. CASE BatchSize <= Window /\ Increasing(counted)
  <2>1. \A l \in k..n : counted[l] \in x..(x + BatchSize - 1)
    <3> TAKE l \in k..n
    <3>1. x <= counted[l]
      <4>1. CASE l = k
        BY <4>1
      <4>2. CASE l # k
        <5>1. k < l
          BY <1>4, <4>2
        <5> QED
          BY <1>2, <1>7, <1>9, <5>1 DEF Increasing
      <4> QED
        BY <4>1, <4>2
    <3>2. PICK c \in Nat : c = counted[l] /\ c < x + BatchSize /\ x <= c
      BY <1>7, <3>1
    <3>3. c \in x..(x + BatchSize - 1)
      BY <1>1, <3>2
    <3> QED
      BY <3>2, <3>3
  <2>2. \A i, j \in k..n : counted[i] = counted[j] => i = j
    BY <1>2, <1>7, <1>9 DEF Increasing
  <2>3. n - k <= (x + BatchSize - 1) - x
    <3>1. x + BatchSize - 1 \in Int /\ x \in Int /\ n \in Int /\ k \in Int /\ k <= n
      BY <1>1, <1>4
    <3> QED
      BY <2>1, <2>2, <3>1, Pigeons
  <2> QED
    BY <1>1, <1>4, <1>5, <1>6, <1>9, <2>3
<1> QED
  BY <1>8, <1>9

\* An event that is not remembered was not counted.
LEMMA NotCountedYet ==
  ASSUME CountInv, failedRuns = 0, NEW offset \in 1..Len(enriched), Counts(offset), Remembered
  PROVE  \A k \in 1..Len(profile.counted) : profile.counted[k] # enriched[offset].event
<1> SUFFICES ASSUME NEW k \in 1..Len(profile.counted), profile.counted[k] = enriched[offset].event
             PROVE  FALSE
  OBVIOUS
<1>b. BehaviorInv /\ Topic /\ Counting
  BY DEF CountInv
<1>1. PICK x \in Nat : x = enriched[offset].event
  BY <1>b, EventsAreNumbers
<1>2. PICK counted \in Seq(Nat) : counted = profile.counted
  BY <1>b DEF BehaviorInv, BehaviorType
<1>3. PICK recent \in Seq(Nat) : recent = profile.recent
  BY <1>b DEF BehaviorInv, BehaviorType
<1>4. \A i \in 1..Len(recent) : recent[i] # x
  <2>1. DOMAIN recent = 1..Len(recent)
    OBVIOUS
  <2> QED
    BY <1>1, <1>3, <2>1 DEF Counts, ToSet
<1>5. \A l \in 1..Len(counted) : counted[l] < x + BatchSize
  <2> TAKE l \in 1..Len(counted)
  <2>1. PICK i \in 1..profile.offset : enriched[i].event = counted[l]
    BY <1>b, <1>2 DEF Counting, CountedUpTo
  <2>2. profile.offset \in Nat /\ offset \in Nat
    BY <1>b DEF BehaviorInv, BehaviorType
  <2>3. i < offset /\ i \in 1..Len(enriched)
    BY <2>2 DEF Counts
  <2> QED
    BY <1>b, <1>1, <2>1, <2>3 DEF Topic
<1>6. /\ Len(recent) = (IF Len(counted) <= Window THEN Len(counted) ELSE Window)
      /\ \A i \in 1..Len(recent) : recent[i] = counted[Len(counted) - Len(recent) + i]
  BY <1>2, <1>3 DEF CountInv, RecentAreLast, LastOf
<1>7. \/ /\ 2 * BatchSize <= Window + 1 /\ Distinct(counted)
         /\ \A i, j \in 1..Len(counted) : i < j => counted[i] < counted[j] + BatchSize
      \/ BatchSize <= Window /\ Increasing(counted)
  BY <1>b, <1>2 DEF Counting, CountedUpTo, Remembered
<1>8. k \in 1..Len(counted) /\ counted[k] = x
  BY <1>1, <1>2
<1> QED
  BY <1>4, <1>5, <1>6, <1>7, <1>8, StillRemembered

\* Counting one more event, with more distinct events remembered than can come
\* between two copies of one.
LEMMA CountsOnce ==
  ASSUME CountInv, failedRuns = 0, NEW offset \in 1..Len(enriched), Counts(offset),
         Safe("profile", offset - 1),
         NEW new, new = Append(profile.counted, enriched[offset].event)
  PROVE  CountedUpTo(offset, new)
<1>b. BehaviorInv /\ Topic /\ Counting
  BY DEF CountInv
<1>1. PICK x \in Nat : x = enriched[offset].event
  BY <1>b, EventsAreNumbers
<1>2. PICK counted \in Seq(Nat) : counted = profile.counted
  BY <1>b DEF BehaviorInv, BehaviorType
<1>3. PICK n \in Nat : n = Len(counted)
  OBVIOUS
<1>4. /\ new = Append(counted, x) /\ Len(new) = n + 1 /\ new[n + 1] = x
      /\ \A k \in 1..n : new[k] = counted[k] /\ counted[k] \in Nat
  BY <1>1, <1>2, <1>3
<1>5. \A k \in 1..(n + 1) : k \in 1..n \/ k = n + 1
  OBVIOUS
<1>o. profile.offset \in Nat /\ offset \in Nat /\ profile.offset < offset
  BY <1>b DEF BehaviorInv, BehaviorType, Counts
<1>6. \A k \in 1..n : \E i \in 1..(offset - 1) : i \in 1..Len(enriched) /\ enriched[i].counts /\ enriched[i].event = counted[k]
  <2> TAKE k \in 1..n
  <2>1. PICK i \in 1..profile.offset : enriched[i].counts /\ enriched[i].event = counted[k]
    BY <1>b, <1>2, <1>3 DEF Counting, CountedUpTo
  <2>2. i \in 1..(offset - 1) /\ i \in 1..Len(enriched)
    BY <1>o
  <2> QED
    BY <2>1, <2>2
<1>7. \A k \in 1..n : counted[k] < x + BatchSize
  <2> TAKE k \in 1..n
  <2>1. PICK i \in 1..(offset - 1) : i \in 1..Len(enriched) /\ enriched[i].event = counted[k]
    BY <1>6
  <2>2. i < offset
    BY <1>o
  <2> QED
    BY <1>b, <1>1, <2>1, <2>2 DEF Topic
<1>8. Remembered => \A k \in 1..n : counted[k] # x
  BY <1>1, <1>2, <1>3, NotCountedYet
<1>9. \A k \in 1..Len(new) : \E i \in 1..offset : enriched[i].counts /\ enriched[i].event = new[k]
  <2> SUFFICES ASSUME NEW k \in 1..(n + 1)
               PROVE  \E i \in 1..offset : enriched[i].counts /\ enriched[i].event = new[k]
    BY <1>4
  <2>1. CASE k \in 1..n
    <3>1. PICK i \in 1..(offset - 1) : enriched[i].counts /\ enriched[i].event = counted[k]
      BY <1>6, <2>1
    <3>2. i \in 1..offset
      BY <1>o
    <3> QED
      BY <1>4, <2>1, <3>1, <3>2
  <2>2. CASE k = n + 1
    <3>1. offset \in 1..offset /\ enriched[offset].counts
      BY <1>o DEF Counts
    <3> QED
      BY <1>1, <1>4, <2>2, <3>1
  <2> QED
    BY <1>5, <2>1, <2>2
<1>10. \A k, l \in 1..Len(new) : k < l => new[k] < new[l] + BatchSize
  <2> SUFFICES ASSUME NEW k \in 1..(n + 1), NEW l \in 1..(n + 1), k < l
               PROVE  new[k] < new[l] + BatchSize
    BY <1>4
  <2>1. k \in 1..n
    BY <1>5
  <2>2. CASE l \in 1..n
    BY <1>b, <1>2, <1>3, <1>4, <2>1, <2>2 DEF Counting, CountedUpTo
  <2>3. CASE l = n + 1
    BY <1>4, <1>7, <2>1, <2>3
  <2> QED
    BY <1>5, <2>2, <2>3
<1>11. ASSUME 2 * BatchSize <= Window + 1 PROVE Distinct(new)
  <2>1. Distinct(counted) /\ \A k \in 1..n : counted[k] # x
    BY <1>b, <1>2, <1>8, <1>11 DEF Counting, CountedUpTo, Remembered
  <2> SUFFICES ASSUME NEW k \in 1..(n + 1), NEW l \in 1..(n + 1), new[k] = new[l] PROVE k = l
    BY <1>4 DEF Distinct
  <2>2. CASE k \in 1..n /\ l \in 1..n
    BY <1>3, <1>4, <2>1, <2>2 DEF Distinct
  <2>3. CASE k = n + 1 \/ l = n + 1
    BY <1>4, <1>5, <2>1, <2>3
  <2> QED
    BY <1>5, <2>2, <2>3
<1>12. ASSUME BatchSize <= Window, CopiesAgree PROVE Increasing(new)
  <2>1. Increasing(counted) /\ \A k \in 1..n : counted[k] # x
    BY <1>b, <1>2, <1>8, <1>12 DEF Counting, CountedUpTo, Remembered
  <2>2. ASSUME NEW k \in 1..n PROVE counted[k] < x
    <3> SUFFICES ASSUME x < counted[k] PROVE FALSE
      BY <1>4, <2>1
    <3>1. PICK i \in 1..(offset - 1) : i \in 1..Len(enriched) /\ enriched[i].event = counted[k]
      BY <1>6
    <3>x. x >= 1
      BY <1>b, <1>1 DEF Topic
    <3>2. x \in 1..(enriched[i].event - 1)
      BY <1>4, <3>1, <3>x
    <3>3. PICK j \in 1..(i - 1) : enriched[j].event = x
      BY <1>b, <3>1, <3>2 DEF Topic
    <3>4. j \in 1..(offset - 1) /\ j \in 1..Len(enriched)
      BY <1>o, <3>1
    <3>5. enriched[j].counts
      BY <1>1, <1>12, <3>3, <3>4 DEF CopiesAgree, Counts
    <3>6. j \in Reached("profile")
      <4>1. "profile" \in Workers
        BY DEF Workers
      <4> QED
        BY <1>b, <3>4, <4>1 DEF Safe, Topic
    <3>7. \E l \in 1..n : x = counted[l]
      BY <1>b, <1>2, <1>3, <3>3, <3>5, <3>6, InReached DEF BehaviorInv
    <3> QED
      BY <2>1, <3>7
  <2> SUFFICES ASSUME NEW k \in 1..(n + 1), NEW l \in 1..(n + 1), k < l PROVE new[k] < new[l]
    BY <1>4 DEF Increasing
  <2>3. k \in 1..n
    BY <1>5
  <2>4. CASE l \in 1..n
    BY <1>3, <1>4, <2>1, <2>3, <2>4 DEF Increasing
  <2>5. CASE l = n + 1
    BY <1>4, <2>2, <2>3, <2>5
  <2> QED
    BY <1>5, <2>4, <2>5
<1> QED
  BY <1>9, <1>10, <1>11, <1>12 DEF CountedUpTo

\* A profile that remembers one more remembers the last ones.
LEMMA RemembersLast ==
  ASSUME NEW recent \in Seq(Nat), NEW counted \in Seq(Nat), NEW event \in Nat,
         LastOf(recent, counted),
         NEW r, r = Remember(recent, event), NEW c, c = Append(counted, event)
  PROVE  LastOf(r, c)
<1>0. /\ Len(recent) = (IF Len(counted) <= Window THEN Len(counted) ELSE Window)
      /\ \A i \in 1..Len(recent) : recent[i] = counted[Len(counted) - Len(recent) + i]
  BY DEF LastOf
<1>1. Window \in Nat
  BY BehaviorAssumption
<1>2. PICK n \in Nat : n = Len(counted)
  OBVIOUS
<1>3. PICK size \in Nat : size = Len(recent)
  OBVIOUS
<1>4. size = IF n <= Window THEN n ELSE Window
  BY <1>0, <1>2, <1>3
<1>5. Len(c) = n + 1 /\ c[n + 1] = event /\ \A i \in 1..n : c[i] = counted[i]
  BY <1>2
<1>6a. Append(recent, event) \in Seq(Nat)
  OBVIOUS
<1>6. PICK a \in Seq(Nat) : a = Append(recent, event)
  BY <1>6a
<1>7. Len(a) = size + 1 /\ a[size + 1] = event /\ \A i \in 1..size : a[i] = recent[i]
  BY <1>3, <1>6
<1>8. \A i \in 1..(size + 1) : a[i] = c[n - size + i]
  <2> TAKE i \in 1..(size + 1)
  <2>1. CASE i = size + 1
    <3>1. n - size + i = n + 1
      BY <2>1
    <3> QED
      BY <1>5, <1>7, <2>1, <3>1
  <2>2. CASE i # size + 1
    <3>1. i \in 1..size /\ n - size + i \in 1..n
      BY <1>1, <1>4, <2>2
    <3> QED
      BY <1>0, <1>2, <1>3, <1>5, <1>7, <3>1
  <2> QED
    BY <2>1, <2>2
<1>9. CASE size + 1 > Window
  <2>1. r = Tail(a)
    BY <1>3, <1>6, <1>9 DEF Remember
  <2>2. Len(r) = size
    BY <1>7, <2>1
  <2>3. \A i \in 1..size : r[i] = a[i + 1]
    <3> TAKE i \in 1..size
    <3>1. a # <<>> /\ i \in 1..(Len(a) - 1)
      BY <1>7
    <3> QED
      BY <2>1, <3>1
  <2>4. \A i \in 1..size : r[i] = c[(n + 1) - size + i]
    <3> TAKE i \in 1..size
    <3>1. i + 1 \in 1..(size + 1)
      OBVIOUS
    <3>2. n - size + (i + 1) = (n + 1) - size + i
      OBVIOUS
    <3> QED
      BY <1>8, <2>3, <3>1, <3>2
  <2>5. size = IF n + 1 <= Window THEN n + 1 ELSE Window
    BY <1>1, <1>4, <1>9
  <2> QED
    BY <1>5, <2>2, <2>4, <2>5 DEF LastOf
<1>10. CASE ~(size + 1 > Window)
  <2>1. r = a
    BY <1>3, <1>6, <1>10 DEF Remember
  <2>2. size = n /\ n + 1 <= Window
    BY <1>1, <1>4, <1>10
  <2>3. \A i \in 1..(n + 1) : r[i] = c[(n + 1) - (n + 1) + i]
    <3> TAKE i \in 1..(n + 1)
    <3>1. n - size + i = (n + 1) - (n + 1) + i /\ i \in 1..(size + 1)
      BY <2>2
    <3> QED
      BY <1>8, <2>1, <3>1
  <2>4. Len(r) = n + 1 /\ Len(c) = n + 1
    BY <1>5, <1>7, <2>1, <2>2
  <2> QED
    BY <2>2, <2>3, <2>4 DEF LastOf
<1> QED
  BY <1>9, <1>10

\* The step Apply keeps the count right.
LEMMA CountApply ==
  ASSUME CountInv, Apply
  PROVE  CountInv'
<1>b. BehaviorInv /\ BehaviorInv'
  BY ApplyKeeps DEF CountInv
<1>1. PICK offset \in 1..Len(enriched) : offset = at["profile"] + 1
  <2>1. at["profile"] \in Nat /\ Len(enriched) \in Nat /\ at["profile"] < Len(enriched)
    BY <1>b DEF Apply, BehaviorInv, BehaviorType, Workers
  <2>2. at["profile"] + 1 \in 1..Len(enriched)
    BY <2>1
  <2> QED
    BY <2>2
<1>2. /\ profile' = Updated(offset) /\ at'["enricher"] = at["enricher"]
      /\ UNCHANGED <<enriched, from, committed, dropped, failedRuns>>
  BY <1>b, <1>1 DEF Apply, BehaviorInv, BehaviorType
<1>3. Safe("profile", offset - 1)
  <2>1. at["profile"] \in Nat
    BY <1>b DEF BehaviorInv, BehaviorType, Workers
  <2>2. offset - 1 = at["profile"]
    BY <1>1, <2>1
  <2> QED
    BY <1>b, <2>2 DEF BehaviorInv, HandedOn
<1>4. failedRuns' = 0 => Topic'
  BY <1>2 DEF CountInv, Topic
<1>5. CopiesAgree' <=> CopiesAgree
  BY <1>2 DEF CopiesAgree
<1>t. /\ profile.offset \in Nat /\ offset \in Nat /\ profile \in [offset : Nat, recent : Seq(Nat), counted : Seq(Nat)]
  <2>1. profile \in [offset : Nat, recent : Seq(Nat), counted : Seq(Nat)] /\ Len(enriched) \in Nat
    BY <1>b DEF BehaviorInv, BehaviorType
  <2>2. profile.offset \in Nat
    BY <2>1
  <2> QED
    BY <1>1, <2>1, <2>2
<1>6. CASE ~Counts(offset)
  <2>1. /\ profile'.recent = profile.recent /\ profile'.counted = profile.counted
        /\ profile'.offset \in {profile.offset, offset} /\ profile'.offset >= profile.offset
    <3>1. CASE ~enriched[offset].counts \/ profile.offset >= offset
      BY <1>2, <1>t, <3>1 DEF Updated
    <3>2. CASE enriched[offset].counts /\ ~(profile.offset >= offset)
      <4>1. enriched[offset].event \in ToSet(profile.recent)
        BY <1>6, <1>t, <3>2 DEF Counts
      <4>2. profile' = [profile EXCEPT !.offset = offset]
        BY <1>2, <3>2, <4>1 DEF Updated
      <4> QED
        BY <1>t, <3>2, <4>2
    <3> QED
      BY <3>1, <3>2
  <2>2. RecentAreLast'
    BY <2>1 DEF CountInv, RecentAreLast, LastOf
  <2>3. ASSUME failedRuns' = 0 PROVE Counting'
    <3>1. Counting
      BY <1>2, <2>3 DEF CountInv
    <3>2. \A k \in 1..Len(profile'.counted) : \E i \in 1..profile'.offset :
             enriched[i].counts /\ enriched[i].event = profile'.counted[k]
      <4>1. 1..profile.offset \subseteq 1..profile'.offset
        BY <1>t, <2>1
      <4> QED
        BY <2>1, <3>1, <4>1 DEF Counting, CountedUpTo
    <3> QED
      BY <1>2, <1>5, <2>1, <3>1, <3>2 DEF Counting, CountedUpTo
  <2> QED
    BY <1>b, <1>2, <1>4, <2>2, <2>3 DEF CountInv
<1>7. CASE Counts(offset)
  <2>0. PICK event \in Nat : event = enriched[offset].event
    BY <1>b, EventsAreNumbers
  <2>1. profile' = [offset |-> offset, recent |-> Remember(profile.recent, event),
                    counted |-> Append(profile.counted, event)]
    BY <1>2, <1>7, <1>t, <2>0 DEF Updated, Counts
  <2>2. /\ profile'.offset = offset /\ profile'.recent = Remember(profile.recent, event)
        /\ profile'.counted = Append(profile.counted, event)
    BY <2>1
  <2>3. PICK r, c : /\ r = profile'.recent /\ c = profile'.counted
                    /\ r = Remember(profile.recent, event) /\ c = Append(profile.counted, event)
    BY <2>2
  <2>4. RecentAreLast'
    <3>1. profile.recent \in Seq(Nat) /\ profile.counted \in Seq(Nat)
      BY <1>t
    <3>3. PICK recent \in Seq(Nat) : recent = profile.recent
      BY <3>1
    <3>4. PICK counted \in Seq(Nat) : counted = profile.counted
      BY <3>1
    <3>5. LastOf(r, c)
      <4>1. r = Remember(recent, event) /\ c = Append(counted, event)
        BY <2>3, <3>3, <3>4
      <4>2. LastOf(recent, counted)
        BY <3>3, <3>4 DEF CountInv, RecentAreLast
      <4> QED
        BY <4>1, <4>2, RemembersLast
    <3> QED
      BY <2>3, <3>5 DEF RecentAreLast
  <2>5. ASSUME failedRuns' = 0 PROVE Counting'
    <3>1. CountedUpTo(offset, c)
      <4>1. c = Append(profile.counted, enriched[offset].event) /\ failedRuns = 0
        BY <1>2, <2>0, <2>3, <2>5
      <4> QED
        BY <1>3, <1>7, <4>1, CountsOnce
    <3> QED
      BY <1>2, <1>5, <2>2, <2>3, <3>1 DEF Counting, CountedUpTo
  <2> QED
    BY <1>b, <1>2, <1>4, <2>4, <2>5 DEF CountInv
<1> QED
  BY <1>6, <1>7

\* Every step keeps the count right.
LEMMA CountStep == CountInv /\ [BehaviorNext]_behaviorVars => CountInv'
<1> SUFFICES ASSUME CountInv, [BehaviorNext]_behaviorVars PROVE CountInv'
  OBVIOUS
<1>b. BehaviorInv'
  BY BehaviorStep DEF CountInv
<1>t. /\ "enricher" \in Workers /\ at \in [Workers -> Nat] /\ from \in [Workers -> Nat]
      /\ committed \in [Workers -> Nat] /\ failedRuns \in Nat /\ BatchSize \in Nat
      /\ \A w \in Workers : from[w] <= at[w]
      /\ failedRuns = 0 => \A w \in Workers : committed[w] = from[w]
      /\ at["enricher"] - from["enricher"] <= BatchSize
  BY BehaviorAssumption DEF CountInv, BehaviorInv, BehaviorType, Positions, Workers, Topic
<1>1. CASE UNCHANGED behaviorVars \/ Collect \/ Insert
  <2>1. UNCHANGED <<enriched, profile, failedRuns, dropped, at, from, committed>>
    BY <1>1 DEF behaviorVars, Collect, Insert, readers
  <2> QED
    BY <1>b, <1>t, <2>1, CountSame
<1>2. CASE Publish
  BY <1>2, CountPublish
<1>3. CASE Apply
  BY <1>3, CountApply
<1>4. CASE Crash
  <2>1. UNCHANGED <<enriched, profile, failedRuns, dropped>> /\ at' = committed /\ from' = committed /\ committed' = committed
    BY <1>4 DEF Crash
  <2> QED
    BY <1>b, <1>t, <2>1, CountSame
<1>5. ASSUME NEW w \in {"enricher", "sink"}, Fetch(w) PROVE CountInv'
  <2>1. /\ UNCHANGED <<enriched, profile, failedRuns, dropped, from, committed>>
        /\ at' = [at EXCEPT ![w] = at[w] + 1] /\ at[w] - from[w] < BatchSize
    BY <1>5 DEF Fetch
  <2>2. at'["enricher"] - from'["enricher"] <= BatchSize
    BY <1>t, <2>1
  <2> QED
    BY <1>b, <1>t, <2>1, <2>2, CountSame
<1>6. ASSUME NEW w \in Workers, Commit(w) PROVE CountInv'
  <2>1. /\ UNCHANGED <<enriched, profile, failedRuns, dropped, at>>
        /\ committed' = [committed EXCEPT ![w] = at[w]] /\ from' = [from EXCEPT ![w] = at[w]]
    BY <1>6 DEF Commit
  <2>2. at'["enricher"] - from'["enricher"] <= BatchSize /\ from["enricher"] <= from'["enricher"]
    BY <1>t, <2>1
  <2>3. failedRuns = 0 => \A v \in Workers : committed'[v] = from'[v]
    BY <1>t, <2>1
  <2> QED
    BY <1>b, <2>1, <2>2, <2>3, CountSame
<1>7. ASSUME ScriptFails \/ \E w \in Workers : RunFails(w) PROVE CountInv'
  <2>1. profile' = profile /\ failedRuns' = failedRuns + 1
    BY <1>7 DEF ScriptFails, RunFails
  <2>2. at'["enricher"] - from'["enricher"] <= BatchSize
    <3>1. CASE ScriptFails
      BY <1>t, <3>1 DEF ScriptFails
    <3>2. ASSUME NEW w \in Workers, RunFails(w) PROVE at'["enricher"] - from'["enricher"] <= BatchSize
      BY <1>t, <3>2 DEF RunFails
    <3> QED
      BY <1>7, <3>1, <3>2
  <2>3. RecentAreLast'
    BY <2>1 DEF CountInv, RecentAreLast, LastOf
  <2> QED
    BY <1>b, <1>t, <2>1, <2>2, <2>3 DEF CountInv
<1> QED
  BY <1>1, <1>2, <1>3, <1>4, <1>5, <1>6, <1>7 DEF BehaviorNext

\* While no run fails, a profile counts no event twice, however often its batch
\* is read and published again, if the copies of an event agree or two batches
\* fit into what the script of profile.go remembers (enricher.go, profile.go).
THEOREM EventsCountedOnce == BehaviorSpec => []CountedOnce
<1>1. BehaviorInit => CountInv
  BY CountInitSound
<1>2. CountInv /\ [BehaviorNext]_behaviorVars => CountInv'
  BY CountStep
<1>3. CountInv => CountedOnce
  BY CountInvSound
<1> QED
  BY <1>1, <1>2, <1>3, PTL DEF BehaviorSpec

-----------------------------------------------------------------------------
(***************************************************************************)
(* The quotes of a coupon, for any offers, shops and lists of lines.       *)
(***************************************************************************)

\* The offer is one of the table and the lines are of shops.
QuoteInv == offer \in Offers /\ lines \in Lines(Sellers)

\* Lines are added one by one.
LEMMA QuoteKept == Spec => []QuoteInv
<1>1. Init => QuoteInv
  <2> DEFINE R == [seller : Sellers, amount : Nat]
  <2> HIDE DEF R
  <2>1. <<>> \in Seq(R)
    OBVIOUS
  <2> QED
    BY <2>1 DEF Init, QuoteInv, Lines, R
<1>2. QuoteInv /\ [Next]_vars => QuoteInv'
  <2> SUFFICES ASSUME QuoteInv, [Next]_vars PROVE QuoteInv'
    OBVIOUS
  <2>1. CASE UNCHANGED vars
    BY <2>1 DEF vars, QuoteInv
  <2>2. ASSUME NEW s \in Sellers, NEW a \in LineAmounts,
               AddLine([seller |-> s, amount |-> a])
        PROVE  QuoteInv'
    <3> DEFINE line == [seller |-> s, amount |-> a]
               R == [seller : Sellers, amount : Nat]
    <3>1. line \in R
      BY QuoteAssumption
    <3>2. lines' = Append(lines, line) /\ offer' = offer
      BY <2>2 DEF AddLine
    <3>3. lines \in Seq(R)
      BY DEF QuoteInv, Lines
    <3> HIDE DEF line, R
    <3>4. lines' \in Seq(R)
      BY <3>1, <3>2, <3>3
    <3> QED
      BY <3>2, <3>4 DEF QuoteInv, Lines, R
  <2> QED
    BY <2>1, <2>2 DEF Next
<1> QED
  BY <1>1, <1>2, PTL DEF Spec

\* A quote is exact, however many lines there are and whatever they cost.
THEOREM QuotesAreExact == Spec => []DiscountExact
<1>1. QuoteInv => DiscountExact
  <2> SUFFICES ASSUME QuoteInv, Applicable(offer, lines) PROVE DiscountExact
    BY DEF DiscountExact
  <2>1. IsOffer(offer)
    BY QuoteAssumption DEF QuoteInv
  <2>2. Eligible(offer, lines) \in Nat
    BY EligibleIs DEF QuoteInv
  <2>3. CASE offer.type = "percent"
    <3>1. offer.value \in 0..100
      BY <2>1, <2>3 DEF IsOffer
    <3>2. Discount(offer, lines) =
              LET exact == (Eligible(offer, lines) * offer.value) \div 100
              IN  Min({Min({exact, offer.maxDiscount}), Eligible(offer, lines)})
      BY <2>2, <2>3, <3>1, PercentIsExact
    <3> QED
      BY <2>3, <3>2 DEF DiscountExact, Granted
  <2>4. CASE offer.type # "percent"
    BY <2>4 DEF DiscountExact, Granted, Discount
  <2> QED
    BY <2>3, <2>4
<1> QED
  BY <1>1, QuoteKept, PTL

\* The shares of a quote add up to it and are fair, however many lines there are.
THEOREM SharesOfQuotesFair == Spec => []SharesFair
<1>1. QuoteInv => SharesFair
  <2> SUFFICES ASSUME QuoteInv, Applicable(offer, lines) PROVE SharesFair
    BY DEF SharesFair
  <2> DEFINE n == Len(lines)
             parts == Parts(offer, lines)
             eligible == Eligible(offer, lines)
  <2>1. IsOffer(offer) /\ lines \in Lines(Sellers) /\ Eligible(offer, lines) > 0
    BY QuoteAssumption DEF QuoteInv, Applicable
  <2>2. /\ FairShares(Shares, n, parts, Granted, eligible)
        /\ Total(Shares) = Granted
    BY <2>1, SharesAreFair DEF Shares, Granted
  <2>3. DOMAIN lines = 1..n /\ \A i \in 1..n : parts[i] = Part(offer, lines[i])
    BY <2>1, EligibleIs
  <2> HIDE DEF n, parts, eligible
  <2>4. ASSUME NEW i \in DOMAIN lines
        PROVE  /\ Shares[i] \in 0..Part(offer, lines[i])
               /\ Granted * Part(offer, lines[i]) - eligible < Shares[i] * eligible
               /\ Shares[i] * eligible <= Granted * Part(offer, lines[i]) + (i - 1) * eligible
    BY <2>2, <2>3 DEF FairShares, FairShare
  <2> QED
    BY <2>2, <2>4 DEF SharesFair, eligible
<1> QED
  BY <1>1, QuoteKept, PTL

-----------------------------------------------------------------------------
(***************************************************************************)
(* The recommendations, for any products and shops, any limits, and caches *)
(* and an index as stale as they like.                                     *)
(***************************************************************************)


\* What may still be asked of the list of products picked after k of the ranked ones.
PickInv(shown, k, ranked, cards, limit) ==
    /\ shown \in Seq(Nat) /\ ToSet(shown) \subseteq cards
    /\ \A p \in ToSet(shown) : \E j \in 1..k : ranked[j] = p
    /\ IsFiniteSet(ToSet(shown)) /\ Cardinality(ToSet(shown)) = Len(shown)
    /\ Len(shown) <= limit
    /\ \A s : Cardinality({p \in ToSet(shown) : ShopOf[p] = s}) <= 2

\* The ranked products are numbers in ascending order.
IsRanked(ranked) ==
    /\ ranked \in Seq(Nat)
    /\ \A i, j \in 1..Len(ranked) : i < j => ranked[i] < ranked[j]

\* What another product adds to the set of those shown.
LEMMA SetOfAppend ==
    ASSUME NEW shown \in Seq(Nat), NEW p \in Nat
    PROVE  ToSet(Append(shown, p)) = ToSet(shown) \cup {p}
<1> DEFINE more == Append(shown, p)
           n == Len(shown)
<1>1. more \in Seq(Nat) /\ Len(more) = n + 1 /\ n \in Nat
  OBVIOUS
<1>2. more[n + 1] = p /\ \A i \in 1..n : more[i] = shown[i]
  OBVIOUS
<1>3. DOMAIN shown = 1..n /\ DOMAIN more = 1..(n + 1)
  BY <1>1
<1> HIDE DEF more, n
<1>4. 1..(n + 1) = 1..n \cup {n + 1}
  BY <1>1
<1> QED
  BY <1>2, <1>3, <1>4 DEF ToSet, more

\* One more of a shop that has less than two.
LEMMA OneOfAShop ==
    ASSUME NEW set, IsFiniteSet(set), NEW p, p \notin set,
           \A s : Cardinality({q \in set : ShopOf[q] = s}) <= 2,
           Cardinality({q \in set : ShopOf[q] = ShopOf[p]}) < 2
    PROVE  \A s : Cardinality({q \in set \cup {p} : ShopOf[q] = s}) <= 2
<1> SUFFICES ASSUME NEW s PROVE Cardinality({q \in set \cup {p} : ShopOf[q] = s}) <= 2
  OBVIOUS
<1> DEFINE old == {q \in set : ShopOf[q] = s}
           new == {q \in set \cup {p} : ShopOf[q] = s}
<1>1. IsFiniteSet(old) /\ Cardinality(old) \in Nat /\ p \notin old
  <2>1. old \subseteq set
    OBVIOUS
  <2> HIDE DEF old
  <2>2. IsFiniteSet(old)
    BY <2>1, FS_Subset
  <2> QED
    BY <2>1, <2>2, FS_CardinalityType
<1>2. CASE ShopOf[p] = s
  <2>1. new = old \cup {p} /\ Cardinality(old) < 2
    BY <1>2
  <2> HIDE DEF old, new
  <2>2. Cardinality(new) = Cardinality(old) + 1
    BY <1>1, <2>1, FS_AddElement
  <2>3. Cardinality(new) <= 2
    BY <1>1, <2>1, <2>2
  <2> QED
    BY <2>3 DEF new
<1>3. CASE ShopOf[p] # s
  <2>1. new = old
    BY <1>3
  <2> QED
    BY <2>1
<1> QED
  BY <1>2, <1>3

\* A turn of the loop.
LEMMA TakenIsRight ==
    ASSUME NEW ranked, IsRanked(ranked), NEW k \in Nat, k < Len(ranked), NEW cards, NEW shown,
           request.limit \in Nat, PickInv(shown, k, ranked, cards, request.limit)
    PROVE  PickInv(Taken(cards, shown, ranked[k + 1]), k + 1, ranked, cards, request.limit)
<1> DEFINE p == ranked[k + 1]
           more == Append(shown, p)
<1>1. p \in Nat /\ k + 1 \in 1..Len(ranked) /\ 1..k \subseteq 1..(k + 1)
      /\ 1..k \subseteq 1..Len(ranked)
  BY DEF IsRanked
<1>2. \A j \in 1..k : ranked[j] < p
  BY <1>1 DEF IsRanked
<1>3. p \notin ToSet(shown)
  <2> SUFFICES ASSUME p \in ToSet(shown) PROVE FALSE
    OBVIOUS
  <2>1. PICK j \in 1..k : ranked[j] = p
    BY DEF PickInv
  <2>2. p < p
    BY <1>2, <2>1
  <2> HIDE DEF p
  <2> QED
    BY <1>1, <2>2
<1>4. CASE Taken(cards, shown, p) = shown
  BY <1>1, <1>4 DEF PickInv
<1>5. CASE Taken(cards, shown, p) # shown
  <2>1. /\ Taken(cards, shown, p) = more
        /\ p \in cards /\ Len(shown) < request.limit
        /\ Cardinality({q \in ToSet(shown) : ShopOf[q] = ShopOf[p]}) < 2
    BY <1>5 DEF Taken
  <2>2. shown \in Seq(Nat) /\ IsFiniteSet(ToSet(shown))
        /\ Cardinality(ToSet(shown)) = Len(shown) /\ ToSet(shown) \subseteq cards
        /\ \A s : Cardinality({q \in ToSet(shown) : ShopOf[q] = s}) <= 2
    BY DEF PickInv
  <2>3. more \in Seq(Nat) /\ Len(more) = Len(shown) + 1 /\ Len(shown) \in Nat
    BY <1>1, <2>2
  <2>4. ToSet(more) = ToSet(shown) \cup {p}
    BY <1>1, <2>2, SetOfAppend
  <2> HIDE DEF more, p
  <2>5. IsFiniteSet(ToSet(more)) /\ Cardinality(ToSet(more)) = Len(more)
    <3> DEFINE set == ToSet(shown)
    <3>1. IsFiniteSet(set) /\ p \notin set /\ Cardinality(set) = Len(shown)
      BY <1>3, <2>2
    <3> HIDE DEF set
    <3>2. IsFiniteSet(set \cup {p}) /\ Cardinality(set \cup {p}) = Cardinality(set) + 1
      BY <3>1, FS_AddElement
    <3>3. ToSet(more) = set \cup {p}
      BY <2>4 DEF set
    <3> QED
      BY <2>3, <3>1, <3>2, <3>3
  <2>6. \A s : Cardinality({q \in ToSet(more) : ShopOf[q] = s}) <= 2
    <3> DEFINE set == ToSet(shown)
    <3>1. /\ IsFiniteSet(set) /\ p \notin set
          /\ \A s : Cardinality({q \in set : ShopOf[q] = s}) <= 2
          /\ Cardinality({q \in set : ShopOf[q] = ShopOf[p]}) < 2
      BY <1>3, <2>1, <2>2
    <3> HIDE DEF set
    <3>2. \A s : Cardinality({q \in set \cup {p} : ShopOf[q] = s}) <= 2
      BY <3>1, OneOfAShop
    <3>3. ToSet(more) = set \cup {p}
      BY <2>4 DEF set
    <3> QED
      BY <3>2, <3>3
  <2>7. \A q \in ToSet(more) : \E j \in 1..(k + 1) : ranked[j] = q
    <3>1. \A q \in ToSet(shown) : \E j \in 1..k : ranked[j] = q
      BY DEF PickInv
    <3>2. p = ranked[k + 1] /\ k + 1 \in 1..(k + 1)
      BY DEF p
    <3> QED
      BY <1>1, <2>4, <3>1, <3>2
  <2>8. Len(more) <= request.limit /\ ToSet(more) \subseteq cards
    BY <2>1, <2>2, <2>3, <2>4
  <2> QED
    BY <2>1, <2>3, <2>5, <2>6, <2>7, <2>8 DEF PickInv, p
<1> QED
  BY <1>4, <1>5

\* Where the loop of Picked is after each product.
Picking(A, cards) ==
    A = [i \in 0..Len(Ranked) |-> IF i = 0 THEN <<>> ELSE Taken(cards, A[i - 1], Ranked[i])]

\* The recursion of Picked has a solution, and its last list is the one shown.
LEMMA PickingExists ==
    ASSUME NEW cards, Len(Ranked) \in Nat
    PROVE  \E A : Picking(A, cards) /\ Picked(cards) = A[Len(Ranked)]
<1> DEFINE n == Len(Ranked)
           Upto(A, k) == A = [i \in 0..k |-> IF i = 0 THEN <<>> ELSE Taken(cards, A[i - 1], Ranked[i])]
           Lengths == {k \in Nat : \E A : Upto(A, k)}
<1>1. 0 \in Lengths
  <2>1. Upto([i \in 0..0 |-> <<>>], 0)
    OBVIOUS
  <2> QED
    BY <2>1
<1>2. ASSUME NEW k \in Nat, k \in Lengths PROVE k + 1 \in Lengths
  <2>1. PICK A : Upto(A, k)
    BY <1>2
  <2> DEFINE B == [i \in 0..k + 1 |-> IF i = 0 THEN <<>> ELSE Taken(cards, A[i - 1], Ranked[i])]
  <2>2. \A i \in 0..k : B[i] = A[i]
    BY <2>1
  <2>3. \A i \in 0..k + 1 : i # 0 => i - 1 \in 0..k
    OBVIOUS
  <2>4. Upto(B, k + 1)
    BY <2>2, <2>3
  <2>5. k + 1 \in Nat
    OBVIOUS
  <2> HIDE DEF B, Upto
  <2> QED
    BY <2>4, <2>5
<1>3. Nat \subseteq Lengths
  <2> HIDE DEF Lengths
  <2> QED
    BY <1>1, <1>2, AllNumbers
<1>4. \E A : Picking(A, cards)
  BY <1>3 DEF Picking
<1> DEFINE after == CHOOSE A : Picking(A, cards)
<1>5. Picking(after, cards)
  BY <1>4
<1>6. Picked(cards) = after[Len(Ranked)]
  BY DEF Picked, Picking
<1> HIDE DEF after
<1> QED
  BY <1>5, <1>6

\* Each of the products picked is one of the cards and picked once, no more than the
\* limit and no more than two of a shop.
LEMMA PickedIsRight ==
    ASSUME NEW cards, request.limit \in Nat, IsRanked(Ranked)
    PROVE  PickInv(Picked(cards), Len(Ranked), Ranked, cards, request.limit)
<1> DEFINE n == Len(Ranked)
           Right(A, i) == PickInv(A[i], i, Ranked, cards, request.limit)
<1>1. n \in Nat
  BY DEF IsRanked
<1>2. PICK A : Picking(A, cards) /\ Picked(cards) = A[n]
  BY <1>1, PickingExists
<1>3. A[0] = <<>> /\ \A i \in 1..n : A[i] = Taken(cards, A[i - 1], Ranked[i])
  BY <1>1, <1>2 DEF Picking
<1> DEFINE Good == {k \in Nat : k <= n => Right(A, k)}
<1>4. 0 \in Good
  <2>1. ToSet(<<>>) = {} /\ Len(<<>>) = 0 /\ <<>> \in Seq(Nat)
    BY DEF ToSet
  <2>2. IsFiniteSet({}) /\ Cardinality({}) = 0
    BY FS_EmptySet
  <2> DEFINE none == <<>>
  <2> HIDE DEF none
  <2>3. \A s : {p \in ToSet(none) : ShopOf[p] = s} = {}
    BY <2>1 DEF none
  <2>4. \A s : Cardinality({p \in ToSet(none) : ShopOf[p] = s}) <= 2
    BY <2>2, <2>3
  <2>5. PickInv(none, 0, Ranked, cards, request.limit)
    <3>1. none \in Seq(Nat) /\ ToSet(none) = {} /\ Len(none) = 0
      BY <2>1 DEF none
    <3>2. IsFiniteSet(ToSet(none)) /\ Cardinality(ToSet(none)) = Len(none)
      BY <2>2, <3>1
    <3> QED
      BY <2>4, <3>1, <3>2 DEF PickInv
  <2> QED
    BY <1>3, <2>5 DEF none
<1>5. ASSUME NEW k \in Nat, k \in Good PROVE k + 1 \in Good
  <2> SUFFICES ASSUME k + 1 <= n PROVE Right(A, k + 1)
    OBVIOUS
  <2>1. k < n /\ k + 1 \in 1..n /\ Right(A, k) /\ (k + 1) - 1 = k
    BY <1>1, <1>5
  <2>2. A[k + 1] = Taken(cards, A[k], Ranked[k + 1])
    BY <1>3, <2>1
  <2>3. PickInv(Taken(cards, A[k], Ranked[k + 1]), k + 1, Ranked, cards, request.limit)
    BY <2>1, TakenIsRight
  <2> QED
    BY <2>2, <2>3
<1>6. n \in Good
  <2> HIDE DEF Good, n
  <2> QED
    BY <1>1, <1>4, <1>5, AllNumbers
<1> QED
  BY <1>1, <1>2, <1>6

\* A request under way or answered, as the handlers read it.
IsRequest(r) ==
    /\ DOMAIN r = {"step", "about", "limit", "list", "todo", "cards", "shown"}
    /\ r.limit \in Nat /\ r.list.products \subseteq Products

\* What the caches have are products.
CachedProducts == \A key \in DOMAIN cached : cached[key].products \subseteq Products

\* What the index and the caches have are products, if no longer for sale.
KnownProducts ==
    /\ published \subseteq Products /\ indexed \subseteq Products
    /\ CachedProducts

\* What is for sale, and who may sell, has been seen by the request under way.
SeenSoFar ==
    /\ DOMAIN seen = {"products", "shops"}
    /\ ~NoRequest => ForSale \subseteq seen.products /\ approved \subseteq seen.shops

\* What was read of the products stays among those seen.
CardsSeen ==
    Stage("shops") => request.cards \subseteq seen.products /\ request.about \notin request.cards

\* The inductive invariant.
RecommendInv ==
    /\ request = [step |-> "none"] \/ IsRequest(request)
    /\ KnownProducts /\ SeenSoFar /\ CardsSeen /\ ShownIsForSale

\* A list kept in the cache is of products.
LEMMA CachedAreProducts ==
    ASSUME KnownProducts, NEW key, NEW list, list.products \subseteq Products,
           cacheCandidates(key, list)
    PROVE  CachedProducts'
<1>1. CASE UNCHANGED cached
  BY <1>1 DEF KnownProducts, CachedProducts
<1>2. CASE cached' = [k \in DOMAIN cached \cup {key} |-> IF k = key THEN list ELSE cached[k]]
  BY <1>2 DEF KnownProducts, CachedProducts
<1> QED
  BY <1>1, <1>2 DEF cacheCandidates

\* A step of a request that shows nothing and reads no cards yet.
Gathers ==
    /\ ~NoRequest /\ IsRequest(request)'
    /\ request'.step \notin {"none", "shops", "answered"}
    /\ UNCHANGED marketVars
    /\ CachedProducts'

\* Such a step keeps the invariant.
LEMMA GathersKeeps ==
    ASSUME RecommendInv, Gathers
    PROVE  RecommendInv'
<1>1. KnownProducts'
  BY DEF RecommendInv, KnownProducts, CachedProducts, Gathers, marketVars
<1>2. SeenSoFar'
  BY DEF RecommendInv, SeenSoFar, Gathers, marketVars, ForSale
<1>3. ~Stage("shops")' /\ ~Stage("answered")'
  BY DEF Gathers, Stage
<1>4. IsRequest(request)'
  BY DEF Gathers
<1> QED
  BY <1>1, <1>2, <1>3, <1>4 DEF RecommendInv, CardsSeen, ShownIsForSale

\* A request under way is one.
LEMMA RequestKnown ==
    ASSUME RecommendInv, request.step # "none"
    PROVE  IsRequest(request)
<1>1. [step |-> "none"].step = "none"
  OBVIOUS
<1> QED
  BY <1>1 DEF RecommendInv

\* The stages such a step goes to.
Gathering(step) == step \notin {"none", "shops", "answered"}

\* Going to the next stage is such a step.
LEMMA GoesToKeeps ==
    ASSUME RecommendInv, ~NoRequest, NEW step, Gathering(step), GoesTo(step),
           UNCHANGED <<marketVars, cached>>
    PROVE  RecommendInv'
<1>1. IsRequest(request)
  <2>1. request.step # "none"
    BY DEF NoRequest
  <2> QED
    BY <2>1, RequestKnown
<1>2. IsRequest(request)' /\ request'.step = step
  BY <1>1 DEF GoesTo, IsRequest
<1>3. Gathers
  BY <1>2 DEF Gathers, Gathering, RecommendInv, KnownProducts, CachedProducts
<1> QED
  BY <1>3, GathersKeeps

\* Adding a list of products is such a step.
LEMMA AddsKeeps ==
    ASSUME RecommendInv, ~NoRequest, NEW step, Gathering(step),
           NEW list, list.products \subseteq Products, NEW todo, Adds(list, todo, step),
           UNCHANGED marketVars, CachedProducts'
    PROVE  RecommendInv'
<1>1. IsRequest(request)
  <2>1. request.step # "none"
    BY DEF NoRequest
  <2> QED
    BY <2>1, RequestKnown
<1> DEFINE both == Both(request.list, list)
<1>2. both.products \subseteq Products
  BY <1>1 DEF IsRequest, Both
<1>3. request' = [request EXCEPT !.list = both, !.todo = todo, !.step = step]
  BY DEF Adds
<1> HIDE DEF both
<1>4. IsRequest(request)' /\ request'.step = step
  BY <1>1, <1>2, <1>3 DEF IsRequest
<1>5. Gathers
  BY <1>4 DEF Gathers, Gathering, CachedProducts
<1> QED
  BY <1>5, GathersKeeps

\* What ShownIsForSale demands of a list.
MayBeShown(shown) ==
    /\ ToSet(shown) \subseteq seen.products
    /\ {ShopOf[p] : p \in ToSet(shown)} \subseteq seen.shops
    /\ Cardinality(ToSet(shown)) = Len(shown) /\ Len(shown) <= request.limit
    /\ request.about \notin ToSet(shown)
    /\ \A s \in Shops : Cardinality({p \in ToSet(shown) : ShopOf[p] = s}) <= 2

\* Showing such a list keeps the invariant.
LEMMA ShowsKeeps ==
    ASSUME RecommendInv, request.step # "none", NEW shown, MayBeShown(shown), Shows(shown),
           UNCHANGED <<marketVars, cached>>
    PROVE  RecommendInv'
<1>1. IsRequest(request)
  BY RequestKnown
<1> DEFINE nothing == List({})
<1>2. nothing.products = {}
  BY DEF List
<1>3. request' = [request EXCEPT !.step = "answered", !.list = nothing, !.todo = {}, !.cards = {},
                                 !.shown = shown]
  BY DEF Shows
<1> HIDE DEF nothing
<1>4. /\ IsRequest(request)' /\ request'.step = "answered" /\ request'.shown = shown
      /\ request'.about = request.about /\ request'.limit = request.limit
  BY <1>1, <1>2, <1>3 DEF IsRequest
<1>5. KnownProducts'
  BY DEF RecommendInv, KnownProducts, CachedProducts, marketVars
<1>6. SeenSoFar' /\ seen' = seen
  BY <1>4 DEF RecommendInv, SeenSoFar, marketVars, NoRequest
<1>7. CardsSeen'
  BY <1>4 DEF CardsSeen, Stage
<1>8. ShownIsForSale'
  BY <1>4, <1>6 DEF ShownIsForSale, MayBeShown
<1> QED
  BY <1>4, <1>5, <1>6, <1>7, <1>8 DEF RecommendInv

\* Nothing may always be shown.
LEMMA NothingMayBeShown ==
    ASSUME IsRequest(request)
    PROVE  MayBeShown(<<>>)
<1> DEFINE none == <<>>
<1>1. ToSet(none) = {} /\ Len(none) = 0
  BY DEF ToSet
<1> HIDE DEF none
<1>2. Cardinality({}) = 0
  BY FS_EmptySet
<1>3. \A s : {p \in ToSet(none) : ShopOf[p] = s} = {}
  BY <1>1
<1>4. \A s \in Shops : Cardinality({p \in ToSet(none) : ShopOf[p] = s}) <= 2
  BY <1>2, <1>3
<1>5. {ShopOf[p] : p \in ToSet(none)} = {}
  BY <1>1
<1>6. request.limit \in Nat
  BY DEF IsRequest
<1>7. MayBeShown(none)
  BY <1>1, <1>2, <1>4, <1>5, <1>6 DEF MayBeShown
<1> QED
  BY <1>7 DEF none

\* The candidates other than the product itself, in ascending order.
LEMMA RankedIsRight ==
    ASSUME IsRequest(request)
    PROVE  /\ IsRanked(Ranked)
           /\ ToSet(Ranked) \subseteq request.list.products \ {request.about}
<1> DEFINE items == request.list.products \ {request.about}
<1>1. IsFiniteSet(items) /\ items \subseteq Nat
  <2>1. items \subseteq Products /\ IsFiniteSet(Products) /\ Products \subseteq Nat
    BY RecommendAssumption DEF IsRequest
  <2> HIDE DEF items
  <2> QED
    BY <2>1, FS_Subset
<1>2. Ranked = Ascending(items)
  BY DEF Ranked
<1> HIDE DEF items
<1>3. /\ Ranked \in Seq(items) /\ Len(Ranked) = Cardinality(items)
      /\ \A i, j \in 1..Len(Ranked) : i < j => Ranked[i] < Ranked[j]
  BY <1>1, <1>2, AscendingIsRight
<1>4. Ranked \in Seq(Nat)
  <2> DEFINE ranked == Ranked
  <2>1. ranked \in Seq(items)
    BY <1>3
  <2> HIDE DEF ranked
  <2>2. ranked = [i \in 1..Len(ranked) |-> ranked[i]] /\ Len(ranked) \in Nat
        /\ \A i \in 1..Len(ranked) : ranked[i] \in Nat
    BY <1>1, <2>1
  <2>3. ranked \in Seq(Nat)
    BY <2>2
  <2> QED
    BY <2>3 DEF ranked
<1>5. ToSet(Ranked) \subseteq items
  BY <1>3 DEF ToSet
<1> QED
  BY <1>3, <1>4, <1>5 DEF IsRanked, items

\* A request begins with what is for sale now.
LEMMA AskKeeps ==
    ASSUME RecommendInv, NEW about, NEW limit \in Limits, NEW interests,
           NEW step \in {"result", "product"}, Asks(about, limit, interests, step)
    PROVE  RecommendInv'
<1> DEFINE nothing == List({})
<1>1. nothing.products = {} /\ limit \in Nat
  BY RecommendAssumption DEF List
<1>2. request' = [step |-> step, about |-> about, limit |-> limit, todo |-> interests,
                  list |-> nothing, cards |-> {}, shown |-> <<>>]
  BY DEF Asks
<1> HIDE DEF nothing
<1>3. IsRequest(request)' /\ request'.step = step
  BY <1>1, <1>2 DEF IsRequest
<1>4. KnownProducts'
  BY DEF RecommendInv, KnownProducts, CachedProducts, Asks
<1>5. SeenSoFar'
  BY DEF SeenSoFar, Asks, ForSale
<1>6. CardsSeen' /\ ShownIsForSale'
  BY <1>3 DEF CardsSeen, ShownIsForSale, Stage
<1> QED
  BY <1>3, <1>4, <1>5, <1>6 DEF RecommendInv

\* What changes in the market meanwhile is seen.
LEMMA MarketKeeps ==
    ASSUME RecommendInv, MarketChanges
    PROVE  RecommendInv'
<1>1. PICK products, stock, shops : Changes(products, stock, shops) /\ products \subseteq Products
  BY DEF MarketChanges, RecommendInv, KnownProducts, CachedProducts, Toggled
<1>2. KnownProducts'
  BY <1>1 DEF Changes, RecommendInv, KnownProducts, CachedProducts
<1>3. SeenSoFar'
  BY <1>1 DEF Changes, RecommendInv, SeenSoFar, NoRequest, ForSale
<1>4. UNCHANGED request /\ (NoRequest => UNCHANGED seen)
  BY <1>1 DEF Changes
<1>5. CardsSeen'
  BY <1>1, <1>4 DEF Changes, RecommendInv, CardsSeen, SeenSoFar, Stage
<1>6. ShownIsForSale'
  BY <1>4 DEF RecommendInv, ShownIsForSale, Stage, NoRequest
<1> QED
  BY <1>2, <1>3, <1>4, <1>5, <1>6 DEF RecommendInv, IsRequest

\* The index and the caches may lag behind, and catch up.
LEMMA LagKeeps ==
    ASSUME RecommendInv, Indexed \/ Expires \/ UNCHANGED recommendVars
    PROVE  RecommendInv'
<1>1. KnownProducts'
  BY DEF RecommendInv, KnownProducts, CachedProducts, Indexed, Expires, marketVars, recommendVars
<1>2. UNCHANGED <<request, seen, published, stocked, approved>>
  BY DEF Indexed, Expires, marketVars, recommendVars
<1> QED
  BY <1>1, <1>2 DEF RecommendInv, IsRequest, SeenSoFar, NoRequest, ForSale, CardsSeen,
                    ShownIsForSale, Stage

\* The steps that gather candidates.
LEMMA GatheringKeeps ==
    ASSUME RecommendInv,
           \/ Product \/ Shop \/ CachedResult \/ similarCandidates \/ popularCandidates
           \/ CacheResult \/ \E c \in Categories : categoryCandidates(c)
    PROVE  RecommendInv'
<1>0. /\ Gathering("shop") /\ Gathering("result") /\ Gathering("missing") /\ Gathering("categories")
      /\ Gathering("popular") /\ Gathering("caching") /\ Gathering("cards")
  BY DEF Gathering
<1>1. CASE Product
  <2>1. Stage("product") /\ UNCHANGED <<marketVars, cached>>
    BY <1>1 DEF Product
  <2>2. ~NoRequest /\ IsRequest(request)
    BY <2>1, RequestKnown DEF Stage, NoRequest
  <2>3. CASE Shows(<<>>)
    BY <2>1, <2>2, <2>3, NothingMayBeShown, ShowsKeeps DEF Stage
  <2>4. CASE GoesTo("shop")
    BY <2>1, <2>2, <2>4, <1>0, GoesToKeeps
  <2>5. CASE GoesTo("missing")
    BY <2>1, <2>2, <2>5, <1>0, GoesToKeeps
  <2> QED
    BY <1>1, <2>3, <2>4, <2>5 DEF Product
<1>2. CASE Shop
  <2>1. Stage("shop") /\ UNCHANGED <<marketVars, cached>>
    BY <1>2 DEF Shop
  <2>2. ~NoRequest /\ IsRequest(request)
    BY <2>1, RequestKnown DEF Stage, NoRequest
  <2>3. CASE Shows(<<>>)
    BY <2>1, <2>2, <2>3, NothingMayBeShown, ShowsKeeps DEF Stage
  <2>4. CASE GoesTo("result")
    BY <2>1, <2>2, <2>4, <1>0, GoesToKeeps
  <2>5. CASE GoesTo("missing")
    BY <2>1, <2>2, <2>5, <1>0, GoesToKeeps
  <2> QED
    BY <1>2, <2>3, <2>4, <2>5 DEF Shop
<1>3. CASE CachedResult
  <2> DEFINE key == ResultFor(request.about)
  <2>1. ~NoRequest /\ UNCHANGED <<marketVars, cached>>
    BY <1>3 DEF CachedResult, Stage, NoRequest
  <2>2. CASE GoesTo("categories")
    BY <2>1, <2>2, <1>0, GoesToKeeps
  <2>3. CASE key \in DOMAIN cached /\ Adds(cached[key], {}, "cards")
    <3>1. cached[key].products \subseteq Products
      BY <2>3 DEF RecommendInv, KnownProducts, CachedProducts
    <3>2. CachedProducts'
      BY <2>1 DEF RecommendInv, KnownProducts, CachedProducts
    <3> QED
      BY <2>1, <2>3, <3>1, <3>2, <1>0, AddsKeeps
  <2> QED
    BY <1>3, <2>2, <2>3 DEF CachedResult
<1>a. ASSUME ~NoRequest, UNCHANGED marketVars, NEW key, NEW todo,
             NEW step \in {"categories", "caching"},
             cachedCandidates(key, todo, step)
      PROVE  RecommendInv'
  <2>1. /\ key \in DOMAIN cached /\ Adds(cached[key], todo, step) /\ UNCHANGED cached
        /\ cached[key].products \subseteq Products
        /\ CachedProducts'
    BY <1>a DEF cachedCandidates, RecommendInv, KnownProducts, CachedProducts
  <2>2. Gathering(step)
    BY <1>a DEF Gathering
  <2> QED
    BY <1>a, <2>1, <2>2, AddsKeeps
<1>b. ASSUME ~NoRequest, UNCHANGED marketVars, NEW key, NEW products \in SUBSET Products, NEW todo,
             NEW step \in {"categories", "caching"},
             SearchDocuments(key, products, todo, step)
      PROVE  RecommendInv'
  <2> DEFINE list == List(products)
  <2>1. list.products \subseteq Products
    BY DEF List
  <2>2. Adds(list, todo, step) /\ cacheCandidates(key, list)
    BY <1>b DEF SearchDocuments
  <2> HIDE DEF list
  <2>3. CachedProducts'
    BY <2>1, <2>2, CachedAreProducts DEF RecommendInv
  <2>4. Gathering(step)
    BY <1>b DEF Gathering
  <2> QED
    BY <1>b, <2>1, <2>2, <2>3, <2>4, AddsKeeps
<1>4. CASE similarCandidates
  <2>1. ~NoRequest /\ UNCHANGED <<marketVars, cached>>
    BY <1>4 DEF similarCandidates, Stage, NoRequest
  <2>2. CASE GoesTo("popular")
    BY <2>1, <2>2, <1>0, GoesToKeeps
  <2>3. ASSUME NEW found \in SUBSET indexed, Adds(List(found), {}, "popular")
        PROVE  RecommendInv'
    <3> DEFINE list == List(found)
    <3>1. list.products \subseteq Products
      BY DEF List, RecommendInv, KnownProducts, CachedProducts
    <3>2. Adds(list, {}, "popular")
      BY <2>3
    <3>3. CachedProducts'
      BY <2>1 DEF RecommendInv, KnownProducts, CachedProducts
    <3> HIDE DEF list
    <3> QED
      BY <2>1, <3>1, <3>2, <3>3, <1>0, AddsKeeps
  <2> QED
    BY <1>4, <2>2, <2>3 DEF similarCandidates
<1>c. indexed \in SUBSET Products /\ ForSale \in SUBSET Products
  BY DEF RecommendInv, KnownProducts, CachedProducts, ForSale
<1>5. CASE popularCandidates
  <2>1. ~NoRequest /\ UNCHANGED marketVars
    BY <1>5 DEF popularCandidates, Stage, NoRequest
  <2>2. CASE GoesTo("caching") /\ UNCHANGED cached
    BY <2>1, <2>2, <1>0, GoesToKeeps
  <2>3. CASE cachedCandidates(Popular, {}, "caching")
    BY <1>a, <2>1, <2>3
  <2>4. CASE SearchDocuments(Popular, indexed, {}, "caching")
    BY <1>b, <1>c, <2>1, <2>4
  <2>5. CASE SearchDocuments(Popular, ForSale, {}, "caching")
    BY <1>b, <1>c, <2>1, <2>5
  <2> QED
    BY <1>5, <2>2, <2>3, <2>4, <2>5 DEF popularCandidates
<1>6. CASE CacheResult
  <2> DEFINE list == List(request.list.products)
             key == ResultFor(request.about)
  <2>1. ~NoRequest /\ UNCHANGED marketVars /\ IsRequest(request)
    BY <1>6, RequestKnown DEF CacheResult, Stage, NoRequest
  <2>2. list.products \subseteq Products
    BY <2>1 DEF List, IsRequest
  <2>3. request' = [request EXCEPT !.list = list, !.step = "cards"]
    BY <1>6 DEF CacheResult
  <2>4. cacheCandidates(key, list) \/ UNCHANGED cached
    BY <1>6 DEF CacheResult
  <2> HIDE DEF list, key
  <2>5. CachedProducts'
    BY <2>2, <2>4, CachedAreProducts DEF RecommendInv, KnownProducts, CachedProducts
  <2>6. IsRequest(request)' /\ request'.step = "cards"
    BY <2>1, <2>2, <2>3 DEF IsRequest
  <2> QED
    BY <2>1, <2>5, <2>6, GathersKeeps DEF Gathers
<1>7. ASSUME NEW c \in Categories, categoryCandidates(c)
      PROVE  RecommendInv'
  <2> DEFINE todo == request.todo \ {c}
             found == {p \in indexed : c \in CategoriesOf[p]}
  <2>1. ~NoRequest /\ UNCHANGED marketVars
    BY <1>7 DEF categoryCandidates, Stage, NoRequest
  <2>2. \/ cachedCandidates(Category(c), todo, "categories")
        \/ SearchDocuments(Category(c), found, todo, "categories")
        \/ Adds(List({}), {}, "categories") /\ UNCHANGED cached
    BY <1>7 DEF categoryCandidates
  <2>3. found \in SUBSET Products
    BY <1>c
  <2> HIDE DEF todo, found
  <2>4. CASE cachedCandidates(Category(c), todo, "categories")
    BY <1>a, <2>1, <2>4
  <2>5. CASE SearchDocuments(Category(c), found, todo, "categories")
    BY <1>b, <2>1, <2>3, <2>5
  <2>6. CASE Adds(List({}), {}, "categories") /\ UNCHANGED cached
    <3> DEFINE list == List({})
    <3>1. list.products \subseteq Products
      BY DEF List
    <3>2. Adds(list, {}, "categories")
      BY <2>6
    <3>3. CachedProducts'
      BY <2>6 DEF RecommendInv, KnownProducts, CachedProducts
    <3> HIDE DEF list
    <3> QED
      BY <2>1, <3>1, <3>2, <3>3, <1>0, AddsKeeps
  <2> QED
    BY <2>2, <2>4, <2>5, <2>6
<1> QED
  BY <1>1, <1>2, <1>3, <1>4, <1>5, <1>6, <1>7

\* The cards are of products for sale, of which the request's own is none.
LEMMA CardsKeep ==
    ASSUME RecommendInv, Cards
    PROVE  RecommendInv'
<1>1. ~NoRequest /\ IsRequest(request) /\ UNCHANGED <<marketVars, cached>>
  BY RequestKnown DEF Cards, Stage, NoRequest
<1>2. CASE Shows(<<>>)
  BY <1>1, <1>2, NothingMayBeShown, ShowsKeeps DEF Cards, Stage
<1>3. CASE ~Shows(<<>>)
  <2> DEFINE cards == ToSet(Ranked) \cap ForSale
  <2>1. request' = [request EXCEPT !.cards = cards, !.step = "shops"]
    BY <1>3 DEF Cards
  <2>2. cards \subseteq ForSale /\ request.about \notin cards
    BY <1>1, RankedIsRight
  <2> HIDE DEF cards
  <2>3. /\ IsRequest(request)' /\ request'.step = "shops" /\ request'.cards = cards
        /\ request'.about = request.about
    BY <1>1, <2>1 DEF IsRequest
  <2>4. KnownProducts'
    BY <1>1 DEF RecommendInv, KnownProducts, CachedProducts, marketVars
  <2>5. SeenSoFar' /\ seen' = seen /\ ForSale \subseteq seen.products
    BY <1>1 DEF RecommendInv, SeenSoFar, marketVars, ForSale
  <2>6. CardsSeen' /\ ShownIsForSale'
    BY <2>2, <2>3, <2>5 DEF CardsSeen, ShownIsForSale, Stage
  <2> QED
    BY <2>3, <2>4, <2>5, <2>6 DEF RecommendInv
<1> QED
  BY <1>2, <1>3

\* What is shown was a card, and its shop is approved now.
LEMMA ApprovesKeeps ==
    ASSUME RecommendInv, Approves
    PROVE  RecommendInv'
<1>1. /\ ~NoRequest /\ IsRequest(request) /\ request.step # "none" /\ request.limit \in Nat
      /\ UNCHANGED <<marketVars, cached>> /\ Stage("shops")
  BY RequestKnown DEF Approves, Stage, NoRequest, IsRequest
<1>2. CASE Shows(<<>>)
  BY <1>1, <1>2, NothingMayBeShown, ShowsKeeps
<1>3. CASE Shows(Picked(hydrate))
  <2> DEFINE shown == Picked(hydrate)
  <2>1. PickInv(shown, Len(Ranked), Ranked, hydrate, request.limit)
    BY <1>1, RankedIsRight, PickedIsRight
  <2>2. \A p \in hydrate : p \in request.cards /\ ShopOf[p] \in approved
    BY DEF hydrate, BatchSellerInfo
  <2>3. request.cards \subseteq seen.products /\ request.about \notin request.cards
        /\ approved \subseteq seen.shops
    BY <1>1 DEF RecommendInv, CardsSeen, SeenSoFar
  <2> HIDE DEF shown
  <2>4. \A p \in ToSet(shown) : p \in hydrate
    BY <2>1 DEF PickInv
  <2>5. MayBeShown(shown)
    BY <2>1, <2>2, <2>3, <2>4 DEF MayBeShown, PickInv
  <2>6. Shows(shown)
    BY <1>3 DEF shown
  <2> QED
    BY <1>1, <2>5, <2>6, ShowsKeeps
<1> QED
  BY <1>2, <1>3 DEF Approves

\* However stale the caches and the index are and whatever fails, what is shown was
\* for sale, of approved shops, while the request ran.
THEOREM ShownWasForSale == RecommendSpec => []ShownIsForSale
<1>1. RecommendInit => RecommendInv
  BY DEF RecommendInit, RecommendInv, KnownProducts, CachedProducts, SeenSoFar, NoRequest, CardsSeen,
         ShownIsForSale, Stage
<1>2. RecommendInv /\ [RecommendNext]_recommendVars => RecommendInv'
  <2> SUFFICES ASSUME RecommendInv, [RecommendNext]_recommendVars PROVE RecommendInv'
    OBVIOUS
  <2>1. CASE MarketChanges
    BY <2>1, MarketKeeps
  <2>2. CASE Indexed \/ Expires \/ UNCHANGED recommendVars
    BY <2>2, LagKeeps
  <2>3. CASE \E limit \in Limits : Home(limit) \/ \E p \in Products : Similar(p, limit)
    BY <2>3, AskKeeps DEF Home, Similar
  <2>4. CASE \/ Product \/ Shop \/ CachedResult \/ similarCandidates \/ popularCandidates
             \/ CacheResult \/ \E c \in Categories : categoryCandidates(c)
    BY <2>4, GatheringKeeps
  <2>5. CASE Cards
    BY <2>5, CardsKeep
  <2>6. CASE Approves
    BY <2>6, ApprovesKeeps
  <2> QED
    BY <2>1, <2>2, <2>3, <2>4, <2>5, <2>6 DEF RecommendNext
<1>3. RecommendInv => ShownIsForSale
  BY DEF RecommendInv
<1> QED
  BY <1>1, <1>2, <1>3, PTL DEF RecommendSpec

=============================================================================
