----------------------------- MODULE MCServices -----------------------------
(***************************************************************************)
(* Parts of the system that share no state here, each explored on its own: *)
(* the coupon quotes, the hub of connections, the accounts, the access to  *)
(* a shop, the assistant, the behaviour events, the recommendations and    *)
(* the start of the processes. The part is chosen at the start; the others *)
(* rest.                                                                   *)
(***************************************************************************)
EXTENDS MCQuote, Realtime, Accounts, ShopAccess, Assistant, Behavior, Recommend, Startup

\* Requests are only compared.
Interchangeable == Permutations(Requests)

MCShopOf == [p \in Products |-> "shop"]
MCCategoriesOf ==
    [p \in Products |-> CASE p = 1 -> {"lamps"} [] p = 2 -> {"lamps", "toys"} [] OTHER -> {}]

\* Two replicas of the API and of Identity, one of the other services.
MCServiceOf ==
    [p \in Starters |-> CASE p = "api2" -> "api" [] p = "identity2" -> "identity" [] OTHER -> p]

VARIABLE part

serviceVars == <<part, vars, hubVars, accountVars, shopVars, assistantVars,
                 behaviorVars, recommendVars, startupVars>>

\* Accounts are alike: whoever owns the shop at the start, it may be this one.
AnyOwner == CHOOSE u \in People : TRUE

\* The core migrations between which the services' readiness changes.
Releases == {0, 7, 8, 9, LastCore}

\* What a part may choose at its start is chosen once when it rests.
ServicesInit ==
    /\ part \in {"quote", "hub", "accounts", "shop", "assistant", "behavior", "recommend", "startup"}
    /\ Init /\ (part # "quote" => offer = CHOOSE o \in Offers : TRUE)
    /\ RealtimeInit /\ AccountsInit
    /\ ShopInit /\ Owners(member) \subseteq {AnyOwner} /\ (part # "shop" => shopStatus = "none")
    /\ AssistantInit /\ BehaviorInit /\ RecommendInit
    /\ StartupInit /\ core \in Releases
    /\ part # "startup" => core = 0 /\ At("off") = {CHOOSE p \in Starters : TRUE}

ServicesNext ==
    /\ UNCHANGED part
    /\ \/ part = "quote" /\ Next
          /\ UNCHANGED <<hubVars, accountVars, shopVars, assistantVars,
                         behaviorVars, recommendVars, startupVars>>
       \/ part = "hub" /\ RealtimeNext
          /\ UNCHANGED <<vars, accountVars, shopVars, assistantVars,
                         behaviorVars, recommendVars, startupVars>>
       \/ part = "accounts" /\ AccountsNext
          /\ UNCHANGED <<vars, hubVars, shopVars, assistantVars,
                         behaviorVars, recommendVars, startupVars>>
       \/ part = "shop" /\ ShopNext
          /\ UNCHANGED <<vars, hubVars, accountVars, assistantVars,
                         behaviorVars, recommendVars, startupVars>>
       \/ part = "assistant" /\ AssistantNext
          /\ UNCHANGED <<vars, hubVars, accountVars, shopVars,
                         behaviorVars, recommendVars, startupVars>>
       \/ part = "behavior" /\ BehaviorNext
          /\ UNCHANGED <<vars, hubVars, accountVars, shopVars, assistantVars,
                         recommendVars, startupVars>>
       \/ part = "recommend" /\ RecommendNext
          /\ UNCHANGED <<vars, hubVars, accountVars, shopVars, assistantVars,
                         behaviorVars, startupVars>>
       \/ part = "startup" /\ StartupNext
          /\ UNCHANGED <<vars, hubVars, accountVars, shopVars, assistantVars,
                         behaviorVars, recommendVars>>

ServicesSpec == ServicesInit /\ [][ServicesNext]_serviceVars

=============================================================================
